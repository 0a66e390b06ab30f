----------------------------- MODULE NoticesProofs -----------------------------
(***************************************************************************)
(* Notices, for any orders, any list and any failures: an order marked as  *)
(* notified is one whose customer knows how it ended, and no customer is   *)
(* told what is not true of his order.                                     *)
(***************************************************************************)
EXTENDS Notices, TLAPS

\* The steps an order may take.
LEMMA FateSteps ==
    ASSUME NEW o \in Order
    PROVE  /\ Fate!Sell(o) <=> status[o] = "none" /\ status' = [status EXCEPT ![o] = "open"]
           /\ Fate!Settle(o) <=> /\ status[o] = "open"
                                 /\ \E s \in Final : status' = [status EXCEPT ![o] = s]
           /\ Fate!TakeBack(o) <=> /\ status[o] = "delivered"
                                   /\ status' = [status EXCEPT ![o] = "refunded"]
           /\ Final = {"delivered", "refunded"}
BY DEF Fate!Sell, Fate!Settle, Fate!TakeBack, Fate!Final, Final

\* A row that moves to the end leaves the others in their order.
LEMMA Touched ==
    ASSUME TypeOK, RowsInv, NEW o \in Order, Touch(o)
    PROVE  /\ updated' \in Seq(Order)
           /\ \A x \in Order : (\E i \in DOMAIN updated : updated[i] = x)
                                  <=> (\E i \in DOMAIN updated' : updated'[i] = x)
           /\ \A i, j \in DOMAIN updated' : updated'[i] = updated'[j] => i = j
<1>1. PICK n \in Nat : n = Len(updated)
  BY DEF TypeOK
<1>2. updated \in [1..n -> Order] /\ DOMAIN updated = 1..n
  BY <1>1 DEF TypeOK
<1>3. PICK k \in 1..n :
          /\ updated[k] = o
          /\ updated' = [j \in 1..n |-> IF j < k THEN updated[j]
                                        ELSE IF j = n THEN o ELSE updated[j + 1]]
  BY <1>1, <1>2 DEF Touch
<1>4. \A j \in 1..n : updated'[j] = IF j < k THEN updated[j]
                                     ELSE IF j = n THEN o ELSE updated[j + 1]
  BY <1>3
<1>5. \A j \in 1..n : updated'[j] \in Order
  BY <1>2, <1>4
<1>6. updated' \in [1..n -> Order] /\ DOMAIN updated' = 1..n
  BY <1>3, <1>5
<1>7. updated' \in Seq(Order)
  BY <1>6
<1>8. \A i, j \in 1..n : updated'[i] = updated'[j] => i = j
  <2>1. \A i, j \in 1..n : updated[i] = updated[j] => i = j
    BY <1>2 DEF RowsInv
  <2> QED
    BY <1>3, <1>4, <2>1
<1>9. \A i \in 1..n : \E j \in 1..n : updated'[j] = updated[i]
  <2> SUFFICES ASSUME NEW i \in 1..n PROVE \E j \in 1..n : updated'[j] = updated[i]
    OBVIOUS
  <2>1. CASE i < k
    BY <2>1, <1>4
  <2>2. CASE i = k
    <3>1. n \in 1..n /\ updated'[n] = updated[i]
      BY <2>2, <1>3, <1>4
    <3> QED
      BY <3>1
  <2>3. CASE i > k
    <3>1. i - 1 \in 1..n /\ updated'[i - 1] = updated[i]
      BY <2>3, <1>4
    <3> QED
      BY <3>1
  <2> QED
    BY <2>1, <2>2, <2>3
<1>10. \A j \in 1..n : \E i \in 1..n : updated'[j] = updated[i]
  BY <1>3, <1>4
<1> QED
  BY <1>2, <1>6, <1>7, <1>8, <1>9, <1>10

\* The notices of a batch are about orders that were finished.
LEMMA BatchOfNotices ==
    ASSUME TypeOK
    PROVE  \A i \in DOMAIN batch : batch[i].order \in Order /\ batch[i].status \in Final
<1>1. \A i \in DOMAIN batch : batch[i] \in Notice
  BY DEF TypeOK
<1> QED
  BY <1>1 DEF Notice

\* Rows stay as they are when one of them moves and no status is lost.
LEMMA RowsKept ==
    ASSUME TypeOK, RowsInv, NEW o \in Order, Touch(o),
           \A x \in Order : status'[x] = "none" <=> status[x] = "none"
    PROVE  RowsInv' /\ updated' \in Seq(Order)
<1>1. /\ updated' \in Seq(Order)
      /\ \A x \in Order : (\E i \in DOMAIN updated : updated[i] = x)
                             <=> (\E i \in DOMAIN updated' : updated'[i] = x)
      /\ \A i, j \in DOMAIN updated' : updated'[i] = updated'[j] => i = j
  BY Touched
<1>2. /\ \A i \in DOMAIN updated : updated[i] \in Order
      /\ \A i \in DOMAIN updated' : updated'[i] \in Order
  BY <1>1 DEF TypeOK
<1> QED
  BY <1>1, <1>2 DEF RowsInv

\* Who has yet to send a message does not mark, and who sent the last one may.
LEMMA NextMessage ==
    ASSUME NEW m \in Message
    PROVE  /\ AfterMessage(m) \in {"code", "mark", "done"}
           /\ AfterMessage(m) = "mark" => m \in {"code", "returned"}
           /\ AfterMessage(m) = "code" => m = "ready"
           /\ m \in {"ready", "code", "returned"} => AfterMessage(m) # "done"
BY DEF AfterMessage, Message

LEMMA FirstMessage ==
    ASSUME NEW s
    PROVE  /\ First(s) \in Message
           /\ First(s) = "ready" => s = "delivered"
           /\ First(s) = "returned" => s = "refunded"
           /\ First(s) # "code"
           /\ s \in {"delivered", "refunded"} => First(s) \in {"ready", "returned"}
BY DEF First, Message

\* Nothing a customer has received is ever taken back, sent or perhaps sent.
LEMMA Received ==
    ASSUME TypeOK, NEW o \in Order, NEW m \in Message, Sent(o, m) \/ Failed(o, m)
    PROVE  /\ told' \in [Order -> SUBSET Message]
           /\ \A x \in Order : told[x] \subseteq told'[x]
           /\ \A x \in Order : told'[x] \subseteq told[x] \cup {m}
           /\ \A x \in Order : x # o => told'[x] = told[x]
           /\ Sent(o, m) => m \in told'[o]
<1>1. told \in [Order -> SUBSET Message]
  BY DEF TypeOK
<1>2. CASE told' = told
  BY <1>1, <1>2 DEF Sent, Tell
<1>3. CASE Tell(o, m)
  <2>1. told' = [told EXCEPT ![o] = told[o] \cup {m}]
    BY <1>3 DEF Tell
  <2>2. told[o] \cup {m} \in SUBSET Message
    BY <1>1
  <2>3. told' \in [Order -> SUBSET Message]
    BY <1>1, <2>1, <2>2
  <2>4. told'[o] = told[o] \cup {m} /\ \A x \in Order : x # o => told'[x] = told[x]
    BY <1>1, <2>1
  <2> QED
    BY <2>3, <2>4
<1> QED
  BY <1>2, <1>3 DEF Sent, Failed

\* A message of a true status, the code after its announcement, is true news.
LEMMA TrueNews ==
    ASSUME TypeOK, NewsIsTrue, NEW o \in Order, NEW m \in Message, NEW s,
           Sent(o, m) \/ Failed(o, m), UNCHANGED status, StillTrue(o, s),
           m = "ready" => s = "delivered",
           m = "returned" => s = "refunded",
           m = "code" => "ready" \in told[o]
    PROVE  NewsIsTrue'
<1>1. /\ \A x \in Order : told[x] \subseteq told'[x]
      /\ \A x \in Order : told'[x] \subseteq told[x] \cup {m}
      /\ \A x \in Order : x # o => told'[x] = told[x]
  BY Received
<1> SUFFICES ASSUME NEW x \in Order
             PROVE  /\ "returned" \in told'[x] => status[x] = "refunded"
                    /\ "ready" \in told'[x] => status[x] \in Final
                    /\ "code" \in told'[x] => "ready" \in told'[x]
  BY DEF NewsIsTrue
<1>2. CASE x # o
  BY <1>1, <1>2 DEF NewsIsTrue
<1>3. CASE x = o
  BY <1>1, <1>3 DEF NewsIsTrue, StillTrue
<1> QED
  BY <1>2, <1>3

-----------------------------------------------------------------------------
(* The invariant holds at first, and every step keeps it.                  *)

USE DEF database, clicks, loop

\* A handler that moves on leaves the others where they are.
LEMMA Moved ==
    ASSUME NEW S, NEW f \in [Order -> [Click -> S]], NEW o \in Order, NEW c \in Click, NEW v \in S
    PROVE  [f EXCEPT ![o][c] = v] \in [Order -> [Click -> S]]
<1>1. [f[o] EXCEPT ![c] = v] \in [Click -> S]
  OBVIOUS
<1>2. [f EXCEPT ![o] = [f[o] EXCEPT ![c] = v]] \in [Order -> [Click -> S]]
  BY <1>1
<1> QED
  BY <1>2

LEMMA Proceeded ==
    ASSUME TypeOK, NEW o \in Order, NEW c \in Click, NEW step \in HandlerStep,
           Proceed(o, c, step)
    PROVE  /\ handler' \in [Order -> [Click -> HandlerStep]]
           /\ held' \in [Order -> [Click -> Status]]
<1>1. /\ handler \in [Order -> [Click -> HandlerStep]]
      /\ held \in [Order -> [Click -> Status]]
  BY DEF TypeOK
<1>2. handler' \in [Order -> [Click -> HandlerStep]]
  BY <1>1, Moved DEF Proceed
<1>3. PICK v \in Status : held' = [held EXCEPT ![o][c] = v]
  <2>1. (IF step = "done" THEN "none" ELSE held[o][c]) \in Status
    BY <1>1 DEF Status
  <2> QED
    BY <2>1 DEF Proceed
<1>4. held' \in [Order -> [Click -> Status]]
  BY <1>1, <1>3, Moved
<1> QED
  BY <1>2, <1>4

LEMMA InitInv == Init => IInv
<1> SUFFICES ASSUME Init PROVE IInv
  OBVIOUS
<1>1. TypeOK
  <2>1. [c \in Click |-> "none"] \in [Click -> HandlerStep]
    BY DEF HandlerStep
  <2>2. [c \in Click |-> "none"] \in [Click -> Status]
    BY DEF Status
  <2> QED
    BY <2>1, <2>2 DEF Init, TypeOK, Status
<1>2. RowsInv
  BY DEF Init, RowsInv
<1>3. \A o \in Order, c \in Click : HandlerInv(o, c)
  BY DEF Init, HandlerInv
<1>4. LoopInv
  BY DEF Init, LoopInv
<1> QED
  BY <1>1, <1>2, <1>3, <1>4 DEF Init, IInv, NotifiedKnows, NewsIsTrue

\* An order that goes on along its fate makes no news untrue.
LEMMA FateStep ==
    ASSUME IInv, NEW o \in Order, Fate!Settle(o) \/ Fate!TakeBack(o), Touch(o),
           UNCHANGED <<notified, handler, held, at, batch, told>>
    PROVE  IInv'
<1>1. /\ status' \in [Order -> Status]
      /\ \A x \in Order : status'[x] = "none" <=> status[x] = "none"
      /\ \A x \in Order : status[x] = "refunded" => status'[x] = "refunded"
      /\ \A x \in Order : status[x] \in Final => status'[x] \in Final
  <2>1. /\ status \in [Order -> Status] /\ Status = {"none", "open"} \cup Final
        /\ Final = {"delivered", "refunded"}
    BY FateSteps DEF IInv, TypeOK, Status
  <2>2. PICK s \in Final : /\ status' = [status EXCEPT ![o] = s]
                           /\ status[o] # "none" /\ status[o] # "refunded"
    BY <2>1, FateSteps
  <2>3. status'[o] = s /\ \A x \in Order : x # o => status'[x] = status[x]
    BY <2>1, <2>2
  <2>4. status' \in [Order -> Status]
    BY <2>1, <2>2
  <2>5. s # "none"
    BY <2>1
  <2> QED
    BY <2>2, <2>3, <2>4, <2>5
<1>2. RowsInv' /\ updated' \in Seq(Order)
  BY <1>1, RowsKept DEF IInv
<1>3. TypeOK'
  BY <1>1, <1>2 DEF IInv, TypeOK
<1>4. \A x \in Order, s \in Status :
          StillTrue(x, s) => StillTrue(x, s)'
  BY <1>1 DEF StillTrue
<1>5. \A x \in Order, d \in Click : HandlerInv(x, d)'
  <2> SUFFICES ASSUME NEW x \in Order, NEW d \in Click PROVE HandlerInv(x, d)'
    OBVIOUS
  <2>1. held[x][d] \in Status
    BY DEF IInv, TypeOK
  <2> QED
    BY <2>1, <1>1, <1>4 DEF IInv, HandlerInv, Knows
<1>6. LoopInv'
  <2>1. \A i \in DOMAIN batch : batch[i].order \in Order /\ batch[i].status \in Final
    BY BatchOfNotices DEF IInv
  <2> QED
    BY <2>1, <1>4 DEF IInv, LoopInv, Knows, Status
<1>7. NewsIsTrue'
  BY <1>1 DEF IInv, NewsIsTrue
<1>8. (notified \subseteq {x \in Order : status[x] \in Final})'
  BY <1>1 DEF IInv
<1> QED
  BY <1>2, <1>3, <1>5, <1>6, <1>7, <1>8 DEF IInv, NotifiedKnows, Knows

LEMMA BuyStep ==
    ASSUME IInv, NEW o \in Order, NEW c \in Click, Buy(o, c)
    PROVE  IInv'
<1>1. /\ status[o] = "none" /\ status' = [status EXCEPT ![o] = "open"]
      /\ updated' = Append(updated, o)
      /\ handler' = [handler EXCEPT ![o][c] = "buying"]
      /\ UNCHANGED <<notified, held, at, batch, told>>
  BY FateSteps DEF Buy
<1>2. TypeOK'
  <2>1. handler' \in [Order -> [Click -> HandlerStep]]
    BY <1>1, Moved DEF IInv, TypeOK, HandlerStep
  <2>2. status' \in [Order -> Status] /\ updated' \in Seq(Order)
    BY <1>1 DEF IInv, TypeOK, Status
  <2> QED
    BY <1>1, <2>1, <2>2 DEF IInv, TypeOK
<1>3. RowsInv'
  <2>1. /\ updated \in Seq(Order) /\ Len(updated) \in Nat
        /\ DOMAIN updated = 1..Len(updated) /\ DOMAIN updated' = 1..Len(updated) + 1
        /\ \A i \in 1..Len(updated) : updated'[i] = updated[i] /\ updated[i] \in Order
        /\ updated'[Len(updated) + 1] = o
    BY <1>1 DEF IInv, TypeOK
  <2>2. \A i \in 1..Len(updated) : updated[i] # o
    BY <1>1, <2>1 DEF IInv, RowsInv
  <2>3. \A i, j \in DOMAIN updated' : updated'[i] = updated'[j] => i = j
    BY <2>1, <2>2 DEF IInv, RowsInv
  <2>4. \A i \in DOMAIN updated' : status'[updated'[i]] # "none"
    BY <1>1, <2>1 DEF IInv, RowsInv, TypeOK
  <2>5. ASSUME NEW x \in Order, status'[x] # "none"
        PROVE  \E i \in DOMAIN updated' : updated'[i] = x
    <3>1. CASE x = o
      BY <3>1, <2>1
    <3>2. CASE x # o
      BY <3>2, <2>5, <1>1, <2>1 DEF IInv, RowsInv, TypeOK
    <3> QED
      BY <3>1, <3>2
  <2> QED
    BY <2>3, <2>4, <2>5 DEF RowsInv
<1>4. \A x \in Order, d \in Click : HandlerInv(x, d)'
  BY <1>1 DEF IInv, TypeOK, HandlerInv, StillTrue, Knows
<1>5. \A x \in Order : status[x] \in Final => status'[x] = status[x]
  BY <1>1, FateSteps DEF IInv, TypeOK
<1>6. LoopInv'
  BY <1>1, <1>5, BatchOfNotices, FateSteps DEF IInv, LoopInv, StillTrue, Knows
<1>7. NewsIsTrue' /\ (notified \subseteq {x \in Order : status[x] \in Final})'
  BY <1>1, <1>5, FateSteps DEF IInv, NewsIsTrue
<1> QED
  BY <1>1, <1>2, <1>3, <1>4, <1>6, <1>7 DEF IInv, NotifiedKnows, Knows

LEMMA ClickAgainStep ==
    ASSUME IInv, NEW o \in Order, NEW c \in Click, ClickAgain(o, c)
    PROVE  IInv'
<1>1. TypeOK'
  <2>1. handler' \in [Order -> [Click -> HandlerStep]]
    BY Moved DEF IInv, TypeOK, HandlerStep, ClickAgain
  <2> QED
    BY <2>1 DEF IInv, TypeOK, ClickAgain
<1>2. \A x \in Order, d \in Click : HandlerInv(x, d)'
  BY DEF IInv, TypeOK, HandlerInv, StillTrue, Knows, ClickAgain
<1> QED
  BY <1>1, <1>2 DEF IInv, RowsInv, LoopInv, StillTrue, NotifiedKnows, NewsIsTrue, Knows,
                    ClickAgain

LEMMA PurchaseReturnsStep ==
    ASSUME IInv, NEW o \in Order, NEW c \in Click, PurchaseReturns(o, c)
    PROVE  IInv'
<1>1. \A x \in Order, d \in Click : HandlerInv(x, d)'
  BY FateSteps DEF IInv, TypeOK, HandlerInv, StillTrue, Knows, PurchaseReturns
<1>2. TypeOK'
  <2>1. handler' \in [Order -> [Click -> HandlerStep]]
    BY Moved DEF IInv, TypeOK, HandlerStep, PurchaseReturns
  <2>2. held' \in [Order -> [Click -> Status]]
    BY Moved DEF IInv, TypeOK, PurchaseReturns
  <2> QED
    BY <2>1, <2>2 DEF IInv, TypeOK, PurchaseReturns
<1> QED
  BY <1>1, <1>2 DEF IInv, RowsInv, LoopInv, StillTrue, NotifiedKnows, NewsIsTrue, Knows,
                    PurchaseReturns

\* The notice at the head is true, and the loop's message is about it.
LEMMA AtHead ==
    ASSUME IInv, at # "list"
    PROVE  /\ batch \in Seq(Notice) /\ batch # <<>>
           /\ Head(batch) = batch[1] /\ 1 \in DOMAIN batch
           /\ Head(batch).order \in Order /\ Head(batch).status \in Final
           /\ StillTrue(Head(batch).order, Head(batch).status)
<1>1. batch \in Seq(Notice) /\ batch # <<>>
  BY DEF IInv, TypeOK, LoopInv
<1>2. Head(batch) = batch[1] /\ 1 \in DOMAIN batch
  BY <1>1
<1> QED
  BY <1>1, <1>2, BatchOfNotices DEF IInv, LoopInv

LEMMA AnswerStep ==
    ASSUME IInv, NEW o \in Order, NEW c \in Click, Answer(o, c)
    PROVE  IInv'
<1> DEFINE m == IF handler[o][c] = "first" THEN First(held[o][c]) ELSE "code"
<1>1. /\ handler[o][c] \in {"first", "code"}
      /\ UNCHANGED <<status, notified, updated, at, batch>>
      /\ \/ Sent(o, m) /\ Proceed(o, c, AfterMessage(m))
         \/ Failed(o, m) /\ Proceed(o, c, "done")
  BY DEF Answer
<1>2. /\ m \in Message
      /\ m = "ready" => held[o][c] = "delivered"
      /\ m = "returned" => held[o][c] = "refunded"
      /\ m = "code" => "ready" \in told[o]
      /\ StillTrue(o, held[o][c])
  BY <1>1, FirstMessage DEF IInv, HandlerInv, Message
<1>3. /\ told' \in [Order -> SUBSET Message]
      /\ \A x \in Order : told[x] \subseteq told'[x]
      /\ Sent(o, m) => m \in told'[o]
  BY <1>1, <1>2, Received DEF IInv
<1>4. /\ AfterMessage(m) \in {"code", "mark", "done"}
      /\ AfterMessage(m) = "mark" => m \in {"code", "returned"}
      /\ AfterMessage(m) = "code" => m = "ready"
  BY <1>2, NextMessage
<1>5. NewsIsTrue'
  BY <1>1, <1>2, TrueNews DEF IInv
<1>6. TypeOK'
  <2>1. /\ handler' \in [Order -> [Click -> HandlerStep]]
        /\ held' \in [Order -> [Click -> Status]]
    BY <1>1, <1>4, Proceeded DEF IInv, HandlerStep
  <2> QED
    BY <1>1, <1>3, <2>1 DEF IInv, TypeOK
<1>7. \A x \in Order, d \in Click : HandlerInv(x, d)'
  <2> SUFFICES ASSUME NEW x \in Order, NEW d \in Click PROVE HandlerInv(x, d)'
    OBVIOUS
  <2>1. CASE ~(x = o /\ d = c)
    BY <1>1, <1>3, <2>1 DEF IInv, TypeOK, HandlerInv, StillTrue, Knows, Proceed
  <2>2. CASE x = o /\ d = c /\ Sent(o, m) /\ Proceed(o, c, AfterMessage(m))
    BY <1>1, <1>2, <1>3, <1>4, <2>2 DEF IInv, TypeOK, HandlerInv, StillTrue, Knows, Proceed
  <2>3. CASE x = o /\ d = c /\ Proceed(o, c, "done")
    BY <1>1, <2>3 DEF IInv, TypeOK, HandlerInv, StillTrue, Knows, Proceed
  <2> QED
    BY <1>1, <2>1, <2>2, <2>3
<1>8. LoopInv'
  <2>1. at # "list" => Head(batch).order \in Order
    BY AtHead
  <2> QED
    BY <1>1, <1>3, <2>1 DEF IInv, LoopInv, StillTrue, Knows, TypeOK
<1>9. NotifiedKnows'
  BY <1>1, <1>3 DEF IInv, NotifiedKnows, Knows
<1> QED
  BY <1>1, <1>5, <1>6, <1>7, <1>8, <1>9 DEF IInv, RowsInv

\* An order its customer knows about may be marked, by whomever.
LEMMA MarkStep ==
    ASSUME IInv, NEW o \in Order, Knows(o), status[o] \in Final, MarkNotified(o),
           UNCHANGED <<status, told>>
    PROVE  /\ RowsInv' /\ updated' \in Seq(Order)
           /\ notified' \subseteq Order
           /\ (notified \subseteq {x \in Order : status[x] \in Final})'
           /\ NotifiedKnows'
<1>1. notified' \subseteq notified \cup {o}
  BY DEF MarkNotified
<1>2. RowsInv' /\ updated' \in Seq(Order)
  <2>1. CASE o \in notified
    BY <2>1 DEF MarkNotified, IInv, TypeOK, RowsInv
  <2>2. CASE o \notin notified
    BY <2>2, RowsKept DEF MarkNotified, IInv
  <2> QED
    BY <2>1, <2>2
<1> QED
  BY <1>1, <1>2 DEF IInv, TypeOK, NotifiedKnows, Knows

\* Who knows how an order ended was told so after it had.
LEMMA KnownIsFinal ==
    ASSUME IInv, NEW o \in Order, Knows(o)
    PROVE  status[o] \in Final
BY FateSteps DEF IInv, NewsIsTrue, Knows

LEMMA HandlerMarksStep ==
    ASSUME IInv, NEW o \in Order, NEW c \in Click, HandlerMarks(o, c)
    PROVE  IInv'
<1>1. /\ Knows(o) /\ MarkNotified(o) /\ Proceed(o, c, "done")
      /\ handler[o][c] = "mark" /\ UNCHANGED <<status, at, batch, told>>
  BY DEF IInv, HandlerInv, HandlerMarks
<1>2. /\ RowsInv' /\ updated' \in Seq(Order) /\ notified' \subseteq Order
      /\ (notified \subseteq {x \in Order : status[x] \in Final})'
      /\ NotifiedKnows'
  BY <1>1, KnownIsFinal, MarkStep
<1>3. TypeOK'
  <2>1. /\ handler' \in [Order -> [Click -> HandlerStep]]
        /\ held' \in [Order -> [Click -> Status]]
    BY <1>1, Proceeded DEF IInv, HandlerStep
  <2> QED
    BY <1>1, <1>2, <2>1 DEF IInv, TypeOK
<1>4. \A x \in Order, d \in Click : HandlerInv(x, d)'
  BY <1>1 DEF IInv, TypeOK, HandlerInv, StillTrue, Knows, Proceed
<1>5. LoopInv' /\ NewsIsTrue'
  BY <1>1 DEF IInv, LoopInv, StillTrue, Knows, NewsIsTrue
<1> QED
  BY <1>2, <1>3, <1>4, <1>5 DEF IInv

LEMMA ListStep ==
    ASSUME IInv, ListNotifications
    PROVE  IInv'
<1>1. /\ at' = "first"
      /\ UNCHANGED <<status, notified, updated, handler, held, told>>
  BY DEF ListNotifications
<1>2. PICK n \in 1..Limit : \E p \in [1..n -> Pending] :
          batch' = [i \in 1..n |->
                      [order |-> updated[p[i]], status |-> status[updated[p[i]]]]]
  BY DEF ListNotifications
<1>3. PICK p \in [1..n -> Pending] :
          batch' = [i \in 1..n |->
                      [order |-> updated[p[i]], status |-> status[updated[p[i]]]]]
  BY <1>2
<1>4. n \in Nat \ {0}
  BY LimitAssumption
<1>5. \A i \in Pending : updated[i] \in Order /\ status[updated[i]] \in Final
  BY DEF Pending, IInv, TypeOK
<1>6. /\ batch' \in Seq(Notice)
      /\ DOMAIN batch' = 1..n /\ batch' # <<>>
  <2>1. \A i \in 1..n : [order |-> updated[p[i]], status |-> status[updated[p[i]]]]
                            \in Notice
    BY <1>5 DEF Notice
  <2>2. batch' \in [1..n -> Notice]
    BY <1>3, <2>1
  <2> QED
    BY <1>4, <2>2
<1>7. \A i \in 1..n : batch'[i].status = status[batch'[i].order]
  BY <1>3
<1>8. LoopInv'
  <2>1. (\A i \in DOMAIN batch : StillTrue(batch[i].order, batch[i].status))'
    BY <1>1, <1>6, <1>7 DEF StillTrue, Final, Fate!Final
  <2> QED
    BY <1>1, <1>6, <2>1 DEF LoopInv
<1>9. TypeOK'
  BY <1>1, <1>6 DEF IInv, TypeOK
<1> QED
  BY <1>1, <1>8, <1>9
     DEF IInv, RowsInv, HandlerInv, StillTrue, NotifiedKnows, NewsIsTrue, Knows

LEMMA LoopMessageIsTrue ==
    ASSUME IInv, at \in {"first", "code"}
    PROVE  /\ LoopMessage \in Message \ {"processing"}
           /\ LoopMessage = "ready" => Head(batch).status = "delivered"
           /\ LoopMessage = "returned" => Head(batch).status = "refunded"
           /\ LoopMessage = "code" => "ready" \in told[Head(batch).order]
<1>1. Head(batch).status \in Final
  BY AtHead
<1> QED
  BY <1>1, FirstMessage, FateSteps DEF LoopMessage, IInv, LoopInv, Message, Final, Fate!Final

\* What is left of a batch is as true as it was.
LEMMA NextNoticeKeeps ==
    ASSUME IInv, at # "list", NextNotice, UNCHANGED status
    PROVE  /\ LoopInv'
           /\ batch' \in Seq(Notice)
           /\ at' \in {"list", "first"}
<1>1. batch \in Seq(Notice) /\ batch # <<>>
  BY AtHead
<1>2. /\ batch' = Tail(batch)
      /\ at' = IF Len(batch) = 1 THEN "list" ELSE "first"
  BY DEF NextNotice
<1>3. /\ batch' \in Seq(Notice)
      /\ Len(batch') = Len(batch) - 1
      /\ \A i \in 1..Len(batch') : i + 1 \in DOMAIN batch /\ batch'[i] = batch[i + 1]
      /\ DOMAIN batch' = 1..Len(batch')
  BY <1>1, <1>2
<1>4. at' # "list" => batch' # <<>>
  <2>1. Len(batch) \in Nat /\ Len(<<>>) = 0
    BY <1>1
  <2>2. at' # "list" => Len(batch') # 0
    BY <1>2, <1>3, <2>1
  <2> QED
    BY <2>1, <2>2
<1>5. (\A i \in DOMAIN batch : StillTrue(batch[i].order, batch[i].status))'
  <2> SUFFICES ASSUME NEW i \in DOMAIN batch'
               PROVE  StillTrue(batch[i].order, batch[i].status)'
    OBVIOUS
  <2>1. i + 1 \in DOMAIN batch /\ batch'[i] = batch[i + 1]
    BY <1>3
  <2>2. StillTrue(batch[i + 1].order, batch[i + 1].status)
    BY <2>1 DEF IInv, LoopInv
  <2> QED
    BY <2>1, <2>2 DEF StillTrue
<1>6. at' \in {"list", "first"}
  BY <1>2
<1>7. LoopInv'
  BY <1>4, <1>5, <1>6 DEF LoopInv
<1> QED
  BY <1>3, <1>6, <1>7

LEMMA NotifyStep ==
    ASSUME IInv, NEW o \in Order, Notify(o)
    PROVE  IInv'
<1> DEFINE m == LoopMessage
<1>1. /\ at \in {"first", "code"} /\ Head(batch).order = o
      /\ Sent(o, m) /\ at' = AfterMessage(m)
      /\ UNCHANGED <<status, notified, updated, handler, held, batch>>
  BY DEF Notify
<1>2. /\ m \in Message \ {"processing"}
      /\ m = "ready" => Head(batch).status = "delivered"
      /\ m = "returned" => Head(batch).status = "refunded"
      /\ m = "code" => "ready" \in told[o]
      /\ StillTrue(o, Head(batch).status)
  BY <1>1, LoopMessageIsTrue, AtHead
<1>3. /\ told' \in [Order -> SUBSET Message]
      /\ \A x \in Order : told[x] \subseteq told'[x]
      /\ m \in told'[o]
  BY <1>1, <1>2, Received DEF IInv
<1>4. /\ AfterMessage(m) \in {"code", "mark"}
      /\ AfterMessage(m) = "mark" => m \in {"code", "returned"}
      /\ AfterMessage(m) = "code" => m = "ready"
  BY <1>2, NextMessage DEF Message
<1>5. NewsIsTrue'
  BY <1>1, <1>2, TrueNews DEF IInv
<1>6. TypeOK'
  BY <1>1, <1>3, <1>4 DEF IInv, TypeOK
<1>7. \A x \in Order, d \in Click : HandlerInv(x, d)'
  BY <1>1, <1>3 DEF IInv, HandlerInv, StillTrue, Knows
<1>8. LoopInv'
  BY <1>1, <1>2, <1>3, <1>4, AtHead DEF IInv, LoopInv, StillTrue, Knows
<1>9. NotifiedKnows'
  BY <1>1, <1>3 DEF IInv, NotifiedKnows, Knows
<1> QED
  BY <1>1, <1>5, <1>6, <1>7, <1>8, <1>9 DEF IInv, RowsInv

LEMMA NotifyFailsStep ==
    ASSUME IInv, NEW o \in Order, NotifyFails(o)
    PROVE  IInv'
<1> DEFINE m == LoopMessage
<1>1. /\ at \in {"first", "code"} /\ Head(batch).order = o
      /\ Failed(o, m) /\ NextNotice
      /\ UNCHANGED <<status, notified, updated, handler, held>>
  BY DEF NotifyFails
<1>2. /\ m \in Message
      /\ m = "ready" => Head(batch).status = "delivered"
      /\ m = "returned" => Head(batch).status = "refunded"
      /\ m = "code" => "ready" \in told[o]
      /\ StillTrue(o, Head(batch).status)
  BY <1>1, LoopMessageIsTrue, AtHead
<1>3. /\ told' \in [Order -> SUBSET Message]
      /\ \A x \in Order : told[x] \subseteq told'[x]
  BY <1>1, <1>2, Received DEF IInv
<1>4. NewsIsTrue'
  BY <1>1, <1>2, TrueNews DEF IInv
<1>5. /\ LoopInv' /\ at' \in {"list", "first"}
      /\ batch' \in Seq(Notice)
  BY <1>1, NextNoticeKeeps
<1>6. TypeOK'
  BY <1>1, <1>3, <1>5 DEF IInv, TypeOK
<1>7. \A x \in Order, d \in Click : HandlerInv(x, d)'
  BY <1>1, <1>3 DEF IInv, HandlerInv, StillTrue, Knows
<1>8. NotifiedKnows'
  BY <1>1, <1>3 DEF IInv, NotifiedKnows, Knows
<1> QED
  BY <1>1, <1>4, <1>5, <1>6, <1>7, <1>8 DEF IInv, RowsInv

LEMMA LoopMarksStep ==
    ASSUME IInv, NEW o \in Order, LoopMarks(o)
    PROVE  IInv'
<1>1. /\ at = "mark" /\ Head(batch).order = o /\ MarkNotified(o) /\ NextNotice
      /\ UNCHANGED <<status, handler, held, told>> /\ Knows(o)
  BY DEF LoopMarks, IInv, LoopInv
<1>2. /\ RowsInv' /\ updated' \in Seq(Order) /\ notified' \subseteq Order
      /\ (notified \subseteq {x \in Order : status[x] \in Final})'
      /\ NotifiedKnows'
  BY <1>1, KnownIsFinal, MarkStep
<1>3. /\ LoopInv' /\ at' \in {"list", "first"}
      /\ batch' \in Seq(Notice)
  BY <1>1, NextNoticeKeeps
<1>4. TypeOK'
  BY <1>1, <1>2, <1>3 DEF IInv, TypeOK
<1>5. (\A x \in Order, c \in Click : HandlerInv(x, c)') /\ NewsIsTrue'
  BY <1>1 DEF IInv, HandlerInv, StillTrue, Knows, NewsIsTrue
<1> QED
  BY <1>2, <1>3, <1>4, <1>5 DEF IInv

LEMMA RestartStep ==
    ASSUME IInv, Restart
    PROVE  IInv'
<1>1. TypeOK'
  <2>1. ASSUME NEW o \in Order
        PROVE  /\ [c \in Click |-> IF handler[o][c] = "none" THEN "none" ELSE "done"]
                      \in [Click -> HandlerStep]
               /\ [c \in Click |-> "none"] \in [Click -> Status]
    BY DEF HandlerStep, Status
  <2>2. /\ handler' \in [Order -> [Click -> HandlerStep]]
        /\ held' \in [Order -> [Click -> Status]]
    BY <2>1 DEF Restart
  <2>3. <<>> \in Seq(Notice)
    OBVIOUS
  <2> QED
    BY <2>2, <2>3 DEF IInv, TypeOK, Restart
<1>2. \A x \in Order, d \in Click : HandlerInv(x, d)'
  BY DEF IInv, TypeOK, HandlerInv, Restart
<1>3. LoopInv'
  BY DEF LoopInv, Restart
<1> QED
  BY <1>1, <1>2, <1>3 DEF IInv, RowsInv, NotifiedKnows, NewsIsTrue, Knows, Restart

LEMMA StutterStep ==
    ASSUME IInv, UNCHANGED vars
    PROVE  IInv'
BY DEF IInv, TypeOK, RowsInv, HandlerInv, LoopInv, StillTrue, NotifiedKnows, NewsIsTrue,
       Knows, vars

LEMMA NextInv == IInv /\ [Next]_vars => IInv'
<1> SUFFICES ASSUME IInv, [Next]_vars PROVE IInv'
  OBVIOUS
<1>1. ASSUME NEW o \in Order, Finish(o) \/ RefundDelivered(o) PROVE IInv'
  BY <1>1, FateStep DEF Finish, RefundDelivered
<1> QED
  BY <1>1, BuyStep, ClickAgainStep, PurchaseReturnsStep, AnswerStep, HandlerMarksStep,
     ListStep, NotifyStep, NotifyFailsStep, LoopMarksStep, RestartStep, StutterStep DEF Next

-----------------------------------------------------------------------------
(* Theorems.                                                               *)

\* The inductive invariant: rows, handlers and the loop's batch fit together, and
\* what was read of an order stays true while it waits to be sent.
THEOREM Invariance == Spec => []IInv
BY InitInv, NextInv, PTL DEF Spec

\* Every reachable state is well typed.
THEOREM TypeCorrect == Spec => []TypeOK
<1>1. IInv => TypeOK
  BY DEF IInv
<1> QED
  BY <1>1, Invariance, PTL

\* An order counts as notified only when its customer has received the code or
\* the notice of a refund, for any orders, lists, failures and restarts.
THEOREM MarkedIsTold == Spec => []NotifiedKnows
<1>1. IInv => NotifiedKnows
  BY DEF IInv
<1> QED
  BY <1>1, Invariance, PTL

\* No news is untrue when it arrives or becomes so later, for any orders whose
\* statuses go as OrderFate says, though the loop sends what it read long before.
THEOREM NewsStaysTrue == Spec => []NewsIsTrue
<1>1. IInv => NewsIsTrue
  BY DEF IInv
<1> QED
  BY <1>1, Invariance, PTL

=============================================================================
