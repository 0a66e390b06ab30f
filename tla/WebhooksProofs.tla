---------------------------- MODULE WebhooksProofs ----------------------------
(***************************************************************************)
(* Webhooks, for any orders and notifications, any number of requests and  *)
(* any limit of the loop: what was answered is recorded, what was marked   *)
(* was reconciled, and customers are told once.                            *)
(***************************************************************************)
EXTENDS Webhooks, TLAPS

Coroutines == [at : Step, on : Event \cup {None},
               snap : Created..Refunded, news : News \cup {None}]

-----------------------------------------------------------------------------
(* Events and their identifiers.                                           *)

LEMMA EventsAreNotifications == Event \subseteq Order \X {Accredited, Refunded}
<1>1. ASSUME NEW n \in Range(Backlog) PROVE n \in Order \X {Accredited, Refunded}
  <2>1. PICK i \in DOMAIN Backlog : n = Backlog[i]
    BY DEF Range
  <2>2. n \in Unknown \X {Accredited}
    BY <2>1, OrderAssumption
  <2> QED
    BY <2>2, OrderAssumption
<1> QED
  BY <1>1, OrderAssumption DEF Event

LEMMA EventFields ==
    ASSUME NEW n \in Event
    PROVE  n = <<n[1], n[2]>> /\ n[1] \in Order /\ n[2] \in {1, 2}
BY EventsAreNotifications DEF Accredited, Refunded

\* One identifier, one order.
LEMMA SameOrder ==
    ASSUME NEW n \in Event, NEW m \in Event, EventId(n) = EventId(m)
    PROVE  n[1] = m[1]
<1>1. n = <<n[1], n[2]>> /\ m = <<m[1], m[2]>>
  BY EventFields
<1>2. CASE n[1] \in sameBody /\ m[1] \in sameBody
  <2>1. <<n[1]>> = <<m[1]>>
    BY <1>2 DEF EventId
  <2> QED
    BY <2>1
<1>3. CASE n[1] \notin sameBody /\ m[1] \notin sameBody
  BY <1>3 DEF EventId
<1>4. CASE n[1] \in sameBody /\ m[1] \notin sameBody
  <2>1. <<n[1]>> = <<m[1], m[2]>>
    BY <1>1, <1>4 DEF EventId
  <2> QED
    BY <2>1
<1>5. CASE n[1] \notin sameBody /\ m[1] \in sameBody
  <2>1. <<m[1]>> = <<n[1], n[2]>>
    BY <1>1, <1>5 DEF EventId
  <2> QED
    BY <2>1
<1> QED
  BY <1>2, <1>3, <1>4, <1>5

LEMMA RowIsEvent ==
    ASSUME TypeOK, NEW i \in DOMAIN rows
    PROVE  rows[i] \in Event
BY DEF TypeOK

-----------------------------------------------------------------------------
(* The invariant holds at first.                                           *)

LEMMA InitInv == Init => IInv
<1> SUFFICES ASSUME Init PROVE IInv
  OBVIOUS
<1>1. /\ Backlog \in Seq(Unknown \X {Accredited})
      /\ Backlog \in Seq(Event)
  <2>1. \A i \in DOMAIN Backlog : Backlog[i] \in Event
    BY DEF Event, Range
  <2> QED
    BY <2>1, OrderAssumption
<1>2. TypeOK
  BY <1>1, OrderAssumption, BoundsAssumption
     DEF Init, TypeOK, Idle, Step, News, Created, Accredited, Refunded
<1>3. \A i \in DOMAIN rows : rows[i] \in Unknown \X {Accredited}
  BY <1>1 DEF Init
<1>4. \A i \in DOMAIN rows : rows[i][1] \in Unknown /\ EventId(rows[i]) = rows[i]
  BY <1>3 DEF Init, EventId
<1>5. RowsInv
  BY <1>4, OrderAssumption DEF RowsInv, RowsAreDistinct, Init
<1>6. \A c \in Coroutine : CoInv(c)
  BY DEF CoInv, Init, Idle
<1>7. NewsInv
  BY DEF NewsInv, Init, Idle
<1>8. AnsweredIsRecorded /\ ProcessedWasReconciled
  BY DEF AnsweredIsRecorded, ProcessedWasReconciled, Init
<1> QED
  BY <1>2, <1>5, <1>6, <1>7, <1>8 DEF IInv

-----------------------------------------------------------------------------
(* Steps of one coroutine that leave rows, deposits and customers alone.   *)

LEMMA Alone ==
    ASSUME IInv, NEW c \in Coroutine,
           UNCHANGED <<rows, processed, deposit, pix, sameBody, told, seen>>,
           NEW r \in Coroutines, co' = [co EXCEPT ![c] = r], r.news = None,
           CoInv(c)',
           answered' \subseteq Notification, \A n \in answered' : Recorded(n),
           batch' \subseteq DOMAIN rows,
           faults' \in 0..MaxFaults
    PROVE  IInv'
<1>1. TypeOK'
  BY DEF IInv, TypeOK, Coroutines, EventId
<1>2. RowsInv'
  BY DEF IInv, RowsInv, RowsAreDistinct, EventId
<1>3. ASSUME NEW d \in Coroutine PROVE CoInv(d)'
  <2>1. CASE d = c
    BY <2>1
  <2>2. CASE d # c
    <3>1. co'[d] = co[d]
      BY <2>2 DEF IInv, TypeOK
    <3>2. CoInv(d)
      BY DEF IInv
    <3> QED
      BY <3>1, <3>2 DEF CoInv, Recorded, EventId
  <2> QED
    BY <2>1, <2>2
<1>4. NewsInv'
  <2>1. co'[c].news = None /\ \A d \in Coroutine \ {c} : co'[d] = co[d]
    BY DEF IInv, TypeOK
  <2> QED
    BY <2>1 DEF IInv, NewsInv, IsNews
<1>5. AnsweredIsRecorded'
  BY DEF AnsweredIsRecorded, Recorded, EventId
<1>6. ProcessedWasReconciled'
  BY DEF IInv, ProcessedWasReconciled, EventId
<1> QED
  BY <1>1, <1>2, <1>3, <1>4, <1>5, <1>6 DEF IInv

\* What the invariant says of the record of a coroutine.
LEMMA Fields ==
    ASSUME IInv, NEW c \in Coroutine
    PROVE  /\ co[c] \in Coroutines /\ CoInv(c)
           /\ co[c].at # "idle" => co[c].on \in Event
           /\ co[c].at \notin {"mark", "tell"} => co[c].news = None
           /\ co \in [Coroutine -> Coroutines]
BY DEF IInv, TypeOK, CoInv, Coroutines

LEMMA IdleIsTyped == Idle \in Coroutines /\ Idle.news = None /\ Idle.at = "idle"
BY DEF Idle, Coroutines, Step, Created, Refunded

LEMMA ReturnStep ==
    ASSUME IInv, NEW c \in Coroutine, Return(c),
           UNCHANGED <<rows, processed, deposit, pix, sameBody, told, seen>>,
           answered' \subseteq Notification, \A n \in answered' : Recorded(n),
           batch' \subseteq DOMAIN rows,
           faults' \in 0..MaxFaults
    PROVE  IInv'
<1>1. co' = [co EXCEPT ![c] = Idle]
  BY DEF Return
<1>2. CoInv(c)'
  BY <1>1, Fields DEF CoInv, Idle
<1> QED
  BY <1>1, <1>2, IdleIsTyped, Alone

\* What Alone asks of a step that leaves these to others.
LEMMA Others ==
    ASSUME IInv, UNCHANGED <<answered, batch, faults>>
    PROVE  /\ answered' \subseteq Notification
           /\ \A n \in answered' : Recorded(n)
           /\ batch' \subseteq DOMAIN rows
           /\ faults' \in 0..MaxFaults
BY DEF IInv, TypeOK, AnsweredIsRecorded

LEMMA DeliverStep ==
    ASSUME IInv, NEW t \in Task, NEW n \in Notification, Deliver(t, n)
    PROVE  IInv'
<1> DEFINE r == [co[t] EXCEPT !.at = "look", !.on = n]
<1>0. t \in Coroutine /\ n \in Event
  BY DEF Coroutine, Event
<1>1. co[t].at = "idle" /\ co[t] \in Coroutines /\ co[t].news = None
  BY <1>0, Fields DEF Deliver
<1>2. r \in Coroutines /\ r.news = None /\ r.at = "look" /\ r.on = n
  BY <1>0, <1>1 DEF Coroutines, Step
<1>3. co' = [co EXCEPT ![t] = r]
  BY <1>0, Fields DEF Deliver
<1>4. co'[t] = r
  BY <1>0, <1>3, Fields
<1>5. CoInv(t)'
  BY <1>0, <1>2, <1>4 DEF CoInv, Deliver, outside
<1> QED
  BY <1>0, <1>2, <1>3, <1>5, Others, Alone DEF Deliver, outside, database

\* A step that moves a coroutine on and leaves what it holds.
LEMMA GotoStep ==
    ASSUME IInv, NEW c \in Coroutine, NEW step \in Step, Goto(c, step),
           co[c].news = None
    PROVE  /\ [co[c] EXCEPT !.at = step] \in Coroutines
           /\ co' = [co EXCEPT ![c] = [co[c] EXCEPT !.at = step]]
           /\ [co[c] EXCEPT !.at = step].news = None
           /\ co'[c] = [co[c] EXCEPT !.at = step]
           /\ co'[c].at = step /\ co'[c].on = co[c].on /\ co'[c].snap = co[c].snap
           /\ co'[c].news = None
BY Fields DEF Goto, Coroutines

LEMMA LookUpStep ==
    ASSUME IInv, NEW c \in Coroutine, LookUp(c)
    PROVE  IInv'
<1> DEFINE step == IF ~Recorded(co[c].on) THEN "insert"
                   ELSE IF EventId(co[c].on) \in processed THEN "dismiss" ELSE "answer"
<1>1. step \in {"insert", "dismiss", "answer"} /\ Goto(c, step)
  BY DEF LookUp
<1>2. co[c].at = "look" /\ CoInv(c) /\ co[c].news = None
  BY Fields DEF LookUp
<1>3. step \in Step
  BY <1>1 DEF Step
<1>4. /\ co'[c].at = step /\ co'[c].on = co[c].on /\ co'[c].news = None
      /\ [co[c] EXCEPT !.at = step] \in Coroutines
      /\ co' = [co EXCEPT ![c] = [co[c] EXCEPT !.at = step]]
      /\ [co[c] EXCEPT !.at = step].news = None
  BY <1>1, <1>2, <1>3, GotoStep
<1>5. step # "insert" => Recorded(co[c].on)
  OBVIOUS
<1> HIDE DEF step
<1>6. CoInv(c)'
  BY <1>1, <1>2, <1>4, <1>5 DEF CoInv, LookUp, outside, database, Recorded, EventId
<1> QED
  BY <1>4, <1>6, Others, Alone DEF LookUp, outside, database

LEMMA AnswerStep ==
    ASSUME IInv, NEW c \in Coroutine, Answer(c)
    PROVE  IInv'
<1>1. /\ co[c].at \in {"answer", "dismiss"} /\ CoInv(c) /\ co[c].news = None
      /\ UNCHANGED <<rows, processed, deposit, pix, sameBody, told, seen>>
  BY Fields DEF Answer, database
<1>2. Recorded(co[c].on) /\ co[c].on \in Notification
  BY <1>1 DEF CoInv
<1>3. /\ answered' \subseteq Notification
      /\ \A n \in answered' : Recorded(n)
      /\ batch' \subseteq DOMAIN rows
      /\ faults' \in 0..MaxFaults
  BY <1>2 DEF Answer, IInv, TypeOK, AnsweredIsRecorded
<1>4. CASE Return(c)
  BY <1>1, <1>3, <1>4, ReturnStep
<1>5. CASE Goto(c, "process")
  <2>1. /\ co'[c].at = "process" /\ co'[c].on = co[c].on /\ co'[c].news = None
        /\ [co[c] EXCEPT !.at = "process"] \in Coroutines
        /\ co' = [co EXCEPT ![c] = [co[c] EXCEPT !.at = "process"]]
        /\ [co[c] EXCEPT !.at = "process"].news = None
    BY <1>1, <1>5, GotoStep DEF Step
  <2>2. CoInv(c)'
    BY <1>1, <1>2, <2>1 DEF CoInv, Recorded, EventId
  <2> QED
    BY <1>1, <1>3, <2>1, <2>2, Alone
<1> QED
  BY <1>4, <1>5 DEF Answer

LEMMA ProcessStep ==
    ASSUME IInv, NEW c \in Coroutine, Process(c)
    PROVE  IInv'
<1>1. co[c].at = "process" /\ CoInv(c) /\ co[c].news = None
  BY Fields DEF Process
<1>2. CASE Return(c)
  BY <1>2, Others, ReturnStep DEF Process, outside, database
<1>3. CASE Goto(c, "fetch")
  <2>1. /\ co'[c].at = "fetch" /\ co'[c].on = co[c].on /\ co'[c].news = None
        /\ [co[c] EXCEPT !.at = "fetch"] \in Coroutines
        /\ co' = [co EXCEPT ![c] = [co[c] EXCEPT !.at = "fetch"]]
        /\ [co[c] EXCEPT !.at = "fetch"].news = None
    BY <1>1, <1>3, GotoStep DEF Step
  <2>2. CoInv(c)'
    BY <1>1, <2>1 DEF CoInv, Process, Recorded, EventId, outside, database
  <2> QED
    BY <2>1, <2>2, Others, Alone DEF Process, outside, database
<1> QED
  BY <1>2, <1>3 DEF Process

\* What is fetched is no older than the row: the row was there before.
LEMMA FetchStep ==
    ASSUME IInv, NEW c \in Coroutine, Fetch(c)
    PROVE  IInv'
<1> DEFINE n == co[c].on
           r == [co[c] EXCEPT !.at = "reconcile", !.snap = pix[n[1]]]
<1>1. co[c].at = "fetch" /\ CoInv(c) /\ co[c].news = None /\ n \in Event
      /\ co[c] \in Coroutines /\ co \in [Coroutine -> Coroutines]
  BY Fields DEF Fetch
<1>2. pix[n[1]] \in Created..Refunded
  BY <1>1, EventFields DEF IInv, TypeOK
<1>3. r \in Coroutines /\ r.news = None /\ r.at = "reconcile" /\ r.on = n /\ r.snap = pix[n[1]]
  BY <1>1, <1>2 DEF Coroutines, Step
<1>4. co' = [co EXCEPT ![c] = r] /\ co'[c] = r
  BY <1>1 DEF Fetch
<1>5. ASSUME NEW i \in DOMAIN rows, EventId(rows[i]) = EventId(n), n[1] \notin Unknown
      PROVE  pix[n[1]] >= rows[i][2]
  <2>1. rows[i][1] = n[1]
    BY <1>1, <1>5, RowIsEvent, SameOrder DEF IInv
  <2> QED
    BY <1>5, <2>1 DEF IInv, RowsInv
<1>6. Recorded(n)
  BY <1>1 DEF CoInv
<1>7. CoInv(c)'
  BY <1>1, <1>3, <1>4, <1>5, <1>6 DEF CoInv, Fetch, Recorded, EventId, outside, database
<1> QED
  BY <1>3, <1>4, <1>7, Others, Alone DEF Fetch, outside, database

LEMMA RaiseStep ==
    ASSUME IInv, NEW c \in Coroutine, Raise(c)
    PROVE  IInv'
BY Others, ReturnStep DEF Raise, outside, database

LEMMA FailStep ==
    ASSUME IInv, NEW c \in Coroutine, Fail(c)
    PROVE  IInv'
<1>1. faults' \in 0..MaxFaults
  BY BoundsAssumption DEF Fail, IInv, TypeOK
<1>2. /\ answered' \subseteq Notification
      /\ \A n \in answered' : Recorded(n)
      /\ batch' \subseteq DOMAIN rows
  BY DEF Fail, outside, IInv, TypeOK, AnsweredIsRecorded
<1> QED
  BY <1>1, <1>2, ReturnStep DEF Fail, outside, database

LEMMA TakeStep ==
    ASSUME IInv, Take
    PROVE  IInv'
<1>0. Loop \in Coroutine
  BY DEF Coroutine
<1>1. PICK i \in batch :
          /\ co' = [co EXCEPT ![Loop].at = "process", ![Loop].on = rows[i]]
          /\ batch' = batch \ {i}
  BY DEF Take
<1>2. i \in DOMAIN rows /\ rows[i] \in Event
  BY RowIsEvent DEF IInv, TypeOK
<1> DEFINE r == [co[Loop] EXCEPT !.at = "process", !.on = rows[i]]
<1>3. co[Loop].at = "idle" /\ co[Loop] \in Coroutines /\ co[Loop].news = None
      /\ co \in [Coroutine -> Coroutines]
  BY <1>0, Fields DEF Take
<1>4. r \in Coroutines /\ r.news = None /\ r.at = "process" /\ r.on = rows[i]
  BY <1>2, <1>3 DEF Coroutines, Step
<1>5. co' = [co EXCEPT ![Loop] = r] /\ co'[Loop] = r
  BY <1>0, <1>1, <1>3
<1>6. Recorded(rows[i])
  BY <1>2 DEF Recorded
<1>7. CoInv(Loop)'
  BY <1>2, <1>4, <1>5, <1>6 DEF CoInv, Take, Recorded, EventId, outside, database
<1>8. /\ answered' \subseteq Notification
      /\ \A n \in answered' : Recorded(n)
      /\ batch' \subseteq DOMAIN rows
      /\ faults' \in 0..MaxFaults
  BY <1>1 DEF Take, outside, IInv, TypeOK, AnsweredIsRecorded
<1> QED
  BY <1>0, <1>4, <1>5, <1>7, <1>8, Alone DEF Take, outside, database

-----------------------------------------------------------------------------
(* The other steps.                                                        *)

\* What the invariant says of coroutines whose record does not change.
LEMMA CoInvKept ==
    ASSUME IInv, NEW d \in Coroutine, co'[d] = co[d],
           UNCHANGED <<rows, sameBody, pix>>,
           seen' \in [Order -> Created..Refunded],
           \A o \in Order : seen'[o] >= seen[o]
    PROVE  CoInv(d)'
<1> DEFINE n == co[d].on
<1>1. CoInv(d) /\ (co[d].at # "idle" => n \in Event)
  BY Fields
<1>2. ASSUME co[d].at = "mark", NEW i \in DOMAIN rows, EventId(rows[i]) = EventId(n)
      PROVE  seen'[n[1]] >= rows[i][2]
  <2>1. seen[n[1]] >= rows[i][2] /\ n[1] \in Order /\ rows[i][2] \in {1, 2}
    BY <1>1, <1>2, EventFields, RowIsEvent DEF CoInv, IInv
  <2> QED
    BY <2>1 DEF IInv, TypeOK, Created, Refunded
<1>3. /\ co'[d] = co[d] /\ rows' = rows /\ pix' = pix
      /\ \A m : EventId(m)' = EventId(m) /\ (Recorded(m)' <=> Recorded(m))
  BY DEF EventId, Recorded
<1> QED
  BY <1>1, <1>2, <1>3 DEF CoInv

LEMMA ListStep ==
    ASSUME IInv, List
    PROVE  IInv'
<1>1. batch' \subseteq DOMAIN rows
  BY DEF List, Pending
<1>2. TypeOK'
  BY <1>1 DEF IInv, TypeOK, List, database, outside, EventId
<1>3. RowsInv' /\ NewsInv'
  BY DEF IInv, RowsInv, RowsAreDistinct, NewsInv, IsNews, List, database, outside, EventId
<1>4. \A c \in Coroutine : CoInv(c)'
  BY DEF IInv, CoInv, List, database, outside, Recorded, EventId
<1>5. AnsweredIsRecorded' /\ ProcessedWasReconciled'
  BY DEF IInv, AnsweredIsRecorded, ProcessedWasReconciled, List, database, outside,
         Recorded, EventId
<1> QED
  BY <1>2, <1>3, <1>4, <1>5 DEF IInv

LEMMA RestartStep ==
    ASSUME IInv, Restart
    PROVE  IInv'
<1>0. /\ co' = [c \in Coroutine |-> Idle] /\ batch' = {} /\ faults' \in 0..MaxFaults
      /\ UNCHANGED <<rows, processed, deposit, pix, sameBody, answered, told, seen>>
  BY BoundsAssumption DEF IInv, TypeOK, Restart, database, outside
<1>1. TypeOK'
  BY <1>0, IdleIsTyped DEF IInv, TypeOK, EventId, Coroutines
<1>2. RowsInv'
  BY <1>0 DEF IInv, RowsInv, RowsAreDistinct, EventId
<1>3. \A c \in Coroutine : CoInv(c)'
  BY <1>0 DEF CoInv, Idle
<1>4. NewsInv'
  BY <1>0 DEF IInv, NewsInv, IsNews, Idle
<1>5. AnsweredIsRecorded' /\ ProcessedWasReconciled'
  BY <1>0 DEF IInv, AnsweredIsRecorded, ProcessedWasReconciled, Recorded, EventId
<1> QED
  BY <1>1, <1>2, <1>3, <1>4, <1>5 DEF IInv

LEMMA ProgressStep ==
    ASSUME IInv, NEW o \in Order, Progress(o)
    PROVE  IInv'
<1>0. /\ pix' = [pix EXCEPT ![o] = @ + 1]
      /\ UNCHANGED <<rows, processed, deposit, sameBody, answered, told, co, batch, seen, faults>>
  BY DEF Progress, database
<1>1. pix[o] + 1 \in {1, 2} /\ pix[o] \in 0..2
  BY OrderAssumption DEF Progress, Accredited, Refunded, Created, IInv, TypeOK
<1>2. TypeOK'
  BY <1>0, <1>1 DEF IInv, TypeOK, EventId, Created, Refunded
<1>3. \A p \in Order : pix'[p] >= pix[p] /\ pix[p] \in Int /\ seen'[p] >= seen[p]
  BY <1>0 DEF IInv, TypeOK, Created, Refunded
<1>4. RowsInv'
  <2>1. ASSUME NEW i \in DOMAIN rows, rows[i][1] \notin Unknown
        PROVE  pix'[rows[i][1]] >= rows[i][2]
    <3>1. pix[rows[i][1]] >= rows[i][2]
      BY <2>1 DEF IInv, RowsInv
    <3>2. rows[i][1] \in Order /\ rows[i][2] \in {1, 2}
      BY RowIsEvent, EventFields DEF IInv
    <3> QED
      BY <1>0, <1>1, <3>1, <3>2 DEF IInv, TypeOK, Created, Refunded
  <2> QED
    BY <1>0, <2>1 DEF IInv, RowsInv, RowsAreDistinct, EventId
<1>5. ASSUME NEW c \in Coroutine PROVE CoInv(c)'
  <2>1. CoInv(c) /\ (co[c].at # "idle" => co[c].on[1] \in Order /\ co[c].on[2] \in {1, 2})
    BY Fields, EventFields
  <2>2. co[c].at \in {"look", "insert"} => pix'[co[c].on[1]] >= co[c].on[2]
    BY <1>0, <1>1, <2>1 DEF CoInv, IInv, TypeOK, Created, Refunded
  <2> QED
    BY <1>0, <2>1, <2>2 DEF CoInv, Recorded, EventId
<1>6. NewsInv'
  BY <1>0 DEF IInv, NewsInv, IsNews
<1>7. AnsweredIsRecorded' /\ ProcessedWasReconciled'
  BY <1>0 DEF IInv, AnsweredIsRecorded, ProcessedWasReconciled, Recorded, EventId
<1> QED
  BY <1>2, <1>4, <1>5, <1>6, <1>7 DEF IInv

\* A new row is of an identifier nobody holds beyond the insertion.
LEMMA NewRow ==
    ASSUME IInv, NEW c \in Coroutine, NEW n, co[c].on = n, co[c].at = "insert",
           ~Recorded(n), rows' = Append(rows, n), Goto(c, "answer"),
           UNCHANGED <<processed, deposit, pix, sameBody, answered, told, batch, seen, faults>>
    PROVE  IInv'
<1>0. PICK k : k = Len(rows) + 1
  OBVIOUS
<1>1. /\ n \in Notification /\ n \in Event /\ pix[n[1]] >= n[2]
      /\ co[c].news = None /\ CoInv(c) /\ co \in [Coroutine -> Coroutines]
  BY Fields DEF CoInv
<1>2. /\ rows' \in Seq(Event) /\ DOMAIN rows' = DOMAIN rows \cup {k} /\ k \notin DOMAIN rows
      /\ rows'[k] = n /\ \A i \in DOMAIN rows : rows'[i] = rows[i]
  BY <1>0, <1>1 DEF IInv, TypeOK
<1>3. \A i \in DOMAIN rows : EventId(rows[i]) # EventId(n)
  BY DEF Recorded
<1>4. ASSUME NEW m \in Event, Recorded(m)
      PROVE  Recorded(m)' /\ EventId(m) # EventId(n)
  <2>1. PICK i \in DOMAIN rows : EventId(rows[i]) = EventId(m)
    BY <1>4 DEF Recorded
  <2>2. i \in DOMAIN rows' /\ (EventId(rows[i]) = EventId(m))'
    BY <1>2, <2>1 DEF EventId
  <2> QED
    BY <1>3, <2>1, <2>2 DEF Recorded
<1>5. /\ [co[c] EXCEPT !.at = "answer"] \in Coroutines
      /\ co' = [co EXCEPT ![c] = [co[c] EXCEPT !.at = "answer"]]
      /\ co'[c].at = "answer" /\ co'[c].on = n /\ co'[c].news = None
      /\ \A d \in Coroutine \ {c} : co'[d] = co[d]
  BY <1>1, GotoStep DEF Step
<1>6. TypeOK'
  BY <1>2, <1>5 DEF IInv, TypeOK, EventId, Coroutines
<1>7. RowsInv'
  <2>1. RowsAreDistinct'
    BY <1>2, <1>3 DEF IInv, RowsInv, RowsAreDistinct, EventId
  <2>2. \A i \in DOMAIN rows' :
            rows'[i][1] \in Unknown \/ pix'[rows'[i][1]] >= rows'[i][2]
    BY <1>1, <1>2 DEF IInv, RowsInv
  <2>3. (processed \subseteq {EventId(rows[i]) : i \in DOMAIN rows})'
    <3>1. processed \subseteq {EventId(rows[i]) : i \in DOMAIN rows}
      BY DEF IInv, RowsInv
    <3> QED
      BY <1>2, <3>1 DEF EventId
  <2> QED
    BY <2>1, <2>2, <2>3 DEF RowsInv
<1>8. ASSUME NEW d \in Coroutine PROVE CoInv(d)'
  <2>1. CASE d = c
    <3>1. Recorded(n)'
      <4>1. k \in DOMAIN rows' /\ (EventId(rows[k]) = EventId(n))'
        BY <1>2 DEF EventId
      <4> QED
        BY <4>1 DEF Recorded
    <3> QED
      BY <1>1, <1>5, <2>1, <3>1 DEF CoInv
  <2>2. CASE d # c
    <3>1. co'[d] = co[d] /\ CoInv(d) /\ (co[d].at # "idle" => co[d].on \in Event)
      BY <1>5, <2>2, Fields
    <3>2. co[d].at \notin {"idle", "look", "insert"} =>
              Recorded(co[d].on)' /\ EventId(co[d].on) # EventId(n)
      BY <1>4, <3>1 DEF CoInv
    <3>3. co[d].at \in {"reconcile", "mark"} =>
              \A i \in DOMAIN rows' : EventId(rows'[i]) = EventId(co[d].on) =>
                  i \in DOMAIN rows /\ rows'[i] = rows[i]
      BY <1>2, <3>2
    <3> QED
      BY <3>1, <3>2, <3>3 DEF CoInv, EventId
  <2> QED
    BY <2>1, <2>2
<1>9. NewsInv'
  BY <1>1, <1>5 DEF IInv, NewsInv, IsNews
<1>10. AnsweredIsRecorded'
  <2>1. \A m \in answered : m \in Event /\ Recorded(m)
    BY DEF IInv, TypeOK, AnsweredIsRecorded, Event
  <2> QED
    BY <1>4, <2>1 DEF AnsweredIsRecorded
<1>11. ProcessedWasReconciled'
  <2>1. EventId(n) \notin processed
    BY <1>3 DEF IInv, RowsInv
  <2> QED
    BY <1>2, <2>1 DEF IInv, ProcessedWasReconciled, EventId
<1> QED
  BY <1>6, <1>7, <1>8, <1>9, <1>10, <1>11 DEF IInv

LEMMA InsertStep ==
    ASSUME IInv, NEW c \in Coroutine, Insert(c)
    PROVE  IInv'
<1>1. CASE ~Recorded(co[c].on)
  BY <1>1, NewRow DEF Insert, outside
<1>2. CASE Recorded(co[c].on)
  <2>1. /\ co[c].at = "insert" /\ co[c].news = None /\ CoInv(c) /\ Goto(c, "answer")
        /\ UNCHANGED <<rows, processed, deposit, pix, sameBody, answered, told, batch, seen, faults>>
    BY <1>2, Fields DEF Insert, outside
  <2>2. /\ [co[c] EXCEPT !.at = "answer"] \in Coroutines
        /\ co' = [co EXCEPT ![c] = [co[c] EXCEPT !.at = "answer"]]
        /\ [co[c] EXCEPT !.at = "answer"].news = None
        /\ co'[c].at = "answer" /\ co'[c].on = co[c].on /\ co'[c].news = None
    BY <2>1, GotoStep DEF Step
  <2>3. CoInv(c)'
    BY <1>2, <2>1, <2>2 DEF CoInv, Recorded, EventId
  <2> QED
    BY <2>1, <2>2, <2>3, Others, Alone
<1> QED
  BY <1>1, <1>2

\* A deposit that changes was in a state of which nobody brings this news yet.
LEMMA ReconcileStep ==
    ASSUME IInv, NEW c \in Coroutine, Reconcile(c)
    PROVE  IInv'
<1>1. PICK n, o, s, r :
          /\ n = co[c].on /\ o = n[1] /\ s = co[c].snap /\ r = Outcome(s, deposit[o])
  OBVIOUS
<1>2. /\ co[c].at = "reconcile" /\ CoInv(c) /\ co[c] \in Coroutines /\ co[c].news = None
      /\ n \in Event /\ co \in [Coroutine -> Coroutines]
  BY <1>1, Fields DEF Reconcile
<1>3. /\ o \in Order /\ o \notin Unknown /\ s \in Created..Refunded
      /\ Recorded(n)
      /\ \A i \in DOMAIN rows : EventId(rows[i]) = EventId(n) => s >= rows[i][2]
  BY <1>1, <1>2, EventFields DEF Coroutines, CoInv, Reconcile, Raises
<1>4. r \in News \cup {None} /\ r \in {"credited", "reversed", None}
      /\ None \notin {"credited", "reversed"}
  BY <1>1, NoneAssumption DEF Outcome, News
<1> DEFINE q == [co[c] EXCEPT !.at = "mark", !.snap = Created, !.news = r]
<1>5. /\ q \in Coroutines /\ q.at = "mark" /\ q.on = n /\ q.news = r
  <2>1. "mark" \in Step /\ Created \in Created..Refunded
    BY DEF Step, Created, Refunded
  <2> QED
    BY <1>1, <1>2, <1>4, <2>1 DEF Coroutines
<1>6. /\ co' = [co EXCEPT ![c] = q]
      /\ co'[c] = q
      /\ \A d \in Coroutine \ {c} : co'[d] = co[d]
  BY <1>1, <1>2 DEF Reconcile
<1>7. /\ deposit' = [deposit EXCEPT ![o] = IF r = None THEN @ ELSE r]
      /\ seen' = [seen EXCEPT ![o] = IF s > @ THEN s ELSE @]
      /\ UNCHANGED <<rows, processed, pix, sameBody, answered, told, batch, faults>>
  BY <1>1 DEF Reconcile, outside
<1> HIDE DEF q
<1>8. /\ seen' \in [Order -> Created..Refunded]
      /\ \A p \in Order : seen'[p] >= seen[p]
      /\ seen'[o] >= s
  <2>1. seen \in [Order -> Created..Refunded]
    BY DEF IInv, TypeOK
  <2>2. seen[o] \in Created..Refunded /\ seen'[o] = IF s > seen[o] THEN s ELSE seen[o]
    BY <1>3, <1>7, <2>1
  <2>3. seen'[o] \in Created..Refunded /\ seen'[o] >= s /\ seen'[o] >= seen[o]
    BY <1>3, <2>2 DEF Created, Refunded
  <2>4. \A p \in Order \ {o} : seen'[p] = seen[p] /\ seen[p] >= seen[p]
    BY <1>7, <2>1 DEF Created, Refunded
  <2> QED
    BY <1>3, <1>7, <2>1, <2>2, <2>3, <2>4
<1>9. TypeOK'
  BY <1>3, <1>4, <1>5, <1>6, <1>7, <1>8 DEF IInv, TypeOK, EventId, Coroutines
<1>10. RowsInv'
  BY <1>7 DEF IInv, RowsInv, RowsAreDistinct, EventId
<1>11. ASSUME NEW d \in Coroutine PROVE CoInv(d)'
  <2>1. CASE d # c
    BY <1>6, <1>7, <1>8, <2>1, CoInvKept
  <2>2. CASE d = c
    <3>1. ASSUME NEW i \in DOMAIN rows, EventId(rows[i]) = EventId(n)
          PROVE  seen'[o] >= rows[i][2]
      <4>1. s >= rows[i][2] /\ rows[i][2] \in {1, 2}
        BY <1>3, <3>1, RowIsEvent, EventFields DEF IInv
      <4> QED
        BY <1>3, <1>8, <4>1 DEF Created, Refunded
    <3>2. /\ rows' = rows
          /\ \A m : EventId(m)' = EventId(m) /\ (Recorded(m)' <=> Recorded(m))
      BY <1>7 DEF EventId, Recorded
    <3> QED
      BY <1>1, <1>2, <1>3, <1>5, <1>6, <2>2, <3>1, <3>2 DEF CoInv
  <2> QED
    BY <2>1, <2>2
<1>12. NewsInv'
  <2>1. CASE r = None
    <3>1. deposit' = deposit
      BY <1>7, <2>1 DEF IInv, TypeOK
    <3> QED
      BY <1>5, <1>6, <1>7, <2>1, <3>1 DEF IInv, NewsInv, IsNews
  <2>2. CASE r # None
    <3>1. /\ \/ r = "credited" /\ deposit[o] = "open"
             \/ r = "reversed" /\ deposit[o] = "credited"
          /\ deposit'[o] = r
          /\ \A p \in Order \ {o} : deposit'[p] = deposit[p]
      <4>1. \/ r = "credited" /\ deposit[o] = "open"
            \/ r = "reversed" /\ deposit[o] = "credited"
        BY <1>1, <2>2 DEF Outcome
      <4>2. deposit \in [Order -> {"open"} \cup News]
        BY DEF IInv, TypeOK
      <4>3. deposit' = [deposit EXCEPT ![o] = r]
        BY <1>7, <2>2
      <4>4. deposit'[o] = r /\ \A p \in Order \ {o} : deposit'[p] = deposit[p]
        BY <1>3, <4>2, <4>3
      <4> QED
        BY <4>1, <4>4
    <3>2. /\ ~ IsNews(o, r)
          /\ \A x \in News : IsNews(o, x) => x = "credited" /\ r = "reversed"
      BY <3>1 DEF IsNews, News
    <3>3. \A p \in Order, x \in News : IsNews(p, x) => IsNews(p, x)'
      BY <3>1, <3>2 DEF IsNews
    <3>4. <<o, r>> \notin told /\ IsNews(o, r)'
      BY <3>1, <3>2 DEF IInv, NewsInv, IsNews
    <3>5. ASSUME NEW d \in Coroutine, d # c, co[d].news # None
          PROVE  /\ co[d].on[1] \in Order /\ co[d].news \in News
                 /\ IsNews(co[d].on[1], co[d].news)
                 /\ ~(co[d].on[1] = o /\ co[d].news = r)
      <4>1. co[d].on[1] \in Order /\ co[d].news \in News
        <5>1. co[d].at # "idle" /\ co[d] \in Coroutines
          BY <3>5, Fields
        <5> QED
          BY <3>5, <5>1, Fields, EventFields DEF Coroutines
      <4> QED
        BY <3>2, <3>5, <4>1 DEF IInv, NewsInv
    <3>6. \A x \in told : x[1] \in Order /\ x[2] \in News /\ IsNews(x[1], x[2])
      BY DEF IInv, TypeOK, NewsInv
    <3>7. /\ \A d \in Coroutine : co'[d].news # None =>
                /\ IsNews(co[d].on[1], co[d].news)'
                /\ <<co'[d].on[1], co'[d].news>> \notin told
      <4>1. ASSUME NEW d \in Coroutine, co'[d].news # None, d # c
            PROVE  /\ IsNews(co[d].on[1], co[d].news)'
                   /\ <<co'[d].on[1], co'[d].news>> \notin told
        <5>1. co'[d] = co[d] /\ co[d].news # None
          BY <1>6, <4>1
        <5>2. /\ IsNews(co[d].on[1], co[d].news)
              /\ co[d].on[1] \in Order /\ co[d].news \in News
          BY <3>5, <4>1, <5>1
        <5>3. <<co[d].on[1], co[d].news>> \notin told
          BY <5>1 DEF IInv, NewsInv
        <5> QED
          BY <3>3, <5>1, <5>2, <5>3 DEF IsNews
      <4>2. /\ IsNews(co[c].on[1], co[c].news)'
            /\ <<co'[c].on[1], co'[c].news>> \notin told
        BY <1>1, <1>5, <1>6, <3>4 DEF IsNews
      <4> QED
        BY <4>1, <4>2
    <3>8. \A d, e \in Coroutine :
              co'[d].news # None /\ co'[d].news = co'[e].news /\ co'[d].on[1] = co'[e].on[1] => d = e
      <4>1. co'[c].news = r /\ co'[c].on[1] = o
        BY <1>1, <1>5, <1>6
      <4>2. ASSUME NEW d \in Coroutine, d # c
            PROVE  ~(co'[d].news = r /\ co'[d].on[1] = o)
        BY <1>6, <2>2, <3>5, <4>2
      <4> QED
        BY <1>6, <4>1, <4>2 DEF IInv, NewsInv
    <3>9. \A x \in told : IsNews(x[1], x[2])'
      BY <3>3, <3>6
    <3> QED
      BY <1>7, <3>7, <3>8, <3>9 DEF NewsInv
  <2> QED
    BY <2>1, <2>2
<1>13. AnsweredIsRecorded'
  BY <1>7 DEF IInv, AnsweredIsRecorded, Recorded, EventId
<1>14. ProcessedWasReconciled'
  <2>1. ASSUME NEW i \in DOMAIN rows, EventId(rows[i]) \in processed
        PROVE  seen'[rows[i][1]] >= rows[i][2]
    <3>1. seen[rows[i][1]] >= rows[i][2] /\ rows[i][1] \in Order /\ rows[i][2] \in {1, 2}
      BY <2>1, RowIsEvent, EventFields DEF IInv, ProcessedWasReconciled
    <3> QED
      BY <1>8, <3>1 DEF IInv, TypeOK, Created, Refunded
  <2> QED
    BY <1>7, <2>1 DEF ProcessedWasReconciled, EventId
<1> QED
  BY <1>9, <1>10, <1>11, <1>12, <1>13, <1>14 DEF IInv

LEMMA MarkStep ==
    ASSUME IInv, NEW c \in Coroutine, Mark(c)
    PROVE  IInv'
<1>1. PICK n : n = co[c].on
  OBVIOUS
<1>2. /\ co[c].at = "mark" /\ CoInv(c) /\ co[c] \in Coroutines
      /\ n \in Event /\ co \in [Coroutine -> Coroutines]
  BY <1>1, Fields DEF Mark
<1>3. /\ Recorded(n)
      /\ \A i \in DOMAIN rows : EventId(rows[i]) = EventId(n) => seen[n[1]] >= rows[i][2]
  BY <1>1, <1>2 DEF CoInv
<1>4. /\ processed' = processed \cup {EventId(n)}
      /\ UNCHANGED <<rows, deposit, pix, sameBody, answered, told, batch, seen, faults>>
  BY <1>1 DEF Mark, outside
<1>5. PICK q \in Coroutines :
          /\ co' = [co EXCEPT ![c] = q] /\ q.news = co[c].news
          /\ \/ q = Idle /\ q.news = None
             \/ q.at = "tell" /\ q.on = n /\ q.news # None
  <2>1. CASE co[c].news = None
    BY <1>2, <2>1, IdleIsTyped DEF Mark, Return
  <2>2. CASE co[c].news # None
    <3>1. [co[c] EXCEPT !.at = "tell"] \in Coroutines
      BY <1>2 DEF Coroutines, Step
    <3> QED
      BY <1>1, <1>2, <2>2, <3>1 DEF Mark, Goto, Coroutines
  <2> QED
    BY <2>1, <2>2
<1>6. co'[c] = q /\ \A d \in Coroutine \ {c} : co'[d] = co[d]
  BY <1>2, <1>5
<1>7. TypeOK'
  BY <1>2, <1>4, <1>5 DEF IInv, TypeOK, EventId, Coroutines
<1>8. RowsInv'
  <2>1. PICK j \in DOMAIN rows : EventId(rows[j]) = EventId(n)
    BY <1>3 DEF Recorded
  <2>2. processed' \subseteq {EventId(rows[i]) : i \in DOMAIN rows}
    BY <1>4, <2>1 DEF IInv, RowsInv
  <2> QED
    BY <1>4, <2>2 DEF IInv, RowsInv, RowsAreDistinct, EventId
<1>9. ASSUME NEW d \in Coroutine PROVE CoInv(d)'
  <2>1. CASE d # c
    <3>1. /\ seen' \in [Order -> Created..Refunded]
          /\ \A o \in Order : seen'[o] >= seen[o]
      BY <1>4 DEF IInv, TypeOK, Created, Refunded
    <3> QED
      BY <1>4, <1>6, <2>1, <3>1, CoInvKept
  <2>2. CASE d = c
    <3>1. Recorded(n)'
      BY <1>3, <1>4 DEF Recorded, EventId
    <3> QED
      BY <1>2, <1>5, <1>6, <2>2, <3>1 DEF CoInv, Idle
  <2> QED
    BY <2>1, <2>2
<1>10. NewsInv'
  <2>1. \A d \in Coroutine :
            /\ co'[d].news = co[d].news
            /\ co'[d].news # None => co'[d].on = co[d].on
    BY <1>1, <1>5, <1>6
  <2>2. ASSUME NEW d \in Coroutine, co'[d].news # None
        PROVE  IsNews(co[d].on[1], co[d].news)' /\ <<co'[d].on[1], co'[d].news>> \notin told
    <3>1. co'[d].news = co[d].news /\ co'[d].on = co[d].on /\ co[d].news # None
      BY <2>1, <2>2
    <3>2. IsNews(co[d].on[1], co[d].news) /\ <<co[d].on[1], co[d].news>> \notin told
      BY <3>1 DEF IInv, NewsInv
    <3> QED
      BY <1>4, <3>1, <3>2 DEF IsNews
  <2>3. ASSUME NEW d \in Coroutine, NEW e \in Coroutine, co'[d].news # None,
               co'[d].news = co'[e].news, co'[d].on[1] = co'[e].on[1]
        PROVE  d = e
    <3>1. /\ co[d].news # None /\ co[d].news = co[e].news
          /\ co[d].on[1] = co[e].on[1]
      BY <2>1, <2>3
    <3> QED
      BY <3>1 DEF IInv, NewsInv
  <2>4. \A x \in told : IsNews(x[1], x[2])'
    BY <1>4 DEF IInv, NewsInv, IsNews
  <2> QED
    BY <1>4, <2>2, <2>3, <2>4 DEF NewsInv
<1>11. AnsweredIsRecorded'
  BY <1>4 DEF IInv, AnsweredIsRecorded, Recorded, EventId
<1>12. ProcessedWasReconciled'
  <2>1. ASSUME NEW i \in DOMAIN rows, EventId(rows[i]) \in processed'
        PROVE  seen[rows[i][1]] >= rows[i][2]
    <3>1. CASE EventId(rows[i]) \in processed
      BY <3>1 DEF IInv, ProcessedWasReconciled
    <3>2. CASE EventId(rows[i]) = EventId(n)
      <4>1. rows[i][1] = n[1]
        BY <1>2, <3>2, RowIsEvent, SameOrder DEF IInv
      <4> QED
        BY <1>3, <3>2, <4>1
    <3> QED
      BY <1>4, <2>1, <3>1, <3>2
  <2> QED
    BY <1>4, <2>1 DEF ProcessedWasReconciled, EventId
<1> QED
  BY <1>7, <1>8, <1>9, <1>10, <1>11, <1>12 DEF IInv

LEMMA TellStep ==
    ASSUME IInv, NEW c \in Coroutine, Tell(c)
    PROVE  IInv'
<1>1. PICK o, r : o = co[c].on[1] /\ r = co[c].news
  OBVIOUS
<1>2. /\ co[c].at = "tell" /\ co[c].on \in Event /\ co[c] \in Coroutines
      /\ r # None /\ co \in [Coroutine -> Coroutines]
  BY <1>1, Fields DEF Tell, CoInv
<1>3. o \in Order /\ r \in News
  BY <1>1, <1>2, EventFields DEF Coroutines
<1>4. /\ told' = told \cup {<<o, r>>}
      /\ co' = [co EXCEPT ![c] = Idle]
      /\ UNCHANGED <<rows, processed, deposit, pix, sameBody, answered, batch, seen, faults>>
  BY <1>1 DEF Tell, Return, database
<1>5. co'[c] = Idle /\ \A d \in Coroutine \ {c} : co'[d] = co[d]
  BY <1>2, <1>4
<1>6. TypeOK'
  BY <1>2, <1>3, <1>4, IdleIsTyped DEF IInv, TypeOK, EventId, Coroutines
<1>7. RowsInv'
  BY <1>4 DEF IInv, RowsInv, RowsAreDistinct, EventId
<1>8. ASSUME NEW d \in Coroutine PROVE CoInv(d)'
  <2>1. CASE d # c
    <3>1. /\ seen' \in [Order -> Created..Refunded]
          /\ \A p \in Order : seen'[p] >= seen[p]
      BY <1>4 DEF IInv, TypeOK, Created, Refunded
    <3> QED
      BY <1>4, <1>5, <2>1, <3>1, CoInvKept
  <2>2. CASE d = c
    BY <1>5, <2>2 DEF CoInv, Idle
  <2> QED
    BY <2>1, <2>2
<1>9. NewsInv'
  <2>1. IsNews(o, r)
    BY <1>1, <1>2 DEF IInv, NewsInv
  <2>2. ASSUME NEW d \in Coroutine, co'[d].news # None
        PROVE  /\ d # c /\ co'[d] = co[d]
               /\ ~(co[d].on[1] = o /\ co[d].news = r)
    <3>1. d # c /\ co'[d] = co[d]
      BY <1>5, <2>2, IdleIsTyped
    <3> QED
      BY <1>1, <1>2, <2>2, <3>1 DEF IInv, NewsInv
  <2>3. ASSUME NEW d \in Coroutine, co'[d].news # None
        PROVE  /\ IsNews(co[d].on[1], co[d].news)
               /\ <<co[d].on[1], co[d].news>> \notin told'
    BY <1>4, <2>2, <2>3 DEF IInv, NewsInv
  <2>4. \A x \in told' : IsNews(x[1], x[2])
    BY <1>4, <2>1 DEF IInv, NewsInv
  <2>5. \A d, e \in Coroutine :
            co'[d].news # None /\ co'[d].news = co'[e].news /\ co'[d].on[1] = co'[e].on[1] => d = e
    BY <2>2 DEF IInv, NewsInv
  <2> QED
    BY <1>4, <2>2, <2>3, <2>4, <2>5 DEF NewsInv, IsNews
<1>10. AnsweredIsRecorded' /\ ProcessedWasReconciled'
  BY <1>4 DEF IInv, AnsweredIsRecorded, ProcessedWasReconciled, Recorded, EventId
<1> QED
  BY <1>6, <1>7, <1>8, <1>9, <1>10 DEF IInv

LEMMA Stutter ==
    ASSUME IInv, UNCHANGED vars
    PROVE  IInv'
<1>1. UNCHANGED <<rows, processed, deposit, co, batch, pix, sameBody, answered, told, seen, faults>>
  BY DEF vars, database, outside
<1>2. TypeOK'
  BY <1>1 DEF IInv, TypeOK, EventId
<1>3. RowsInv' /\ NewsInv'
  BY <1>1 DEF IInv, RowsInv, RowsAreDistinct, NewsInv, IsNews, EventId
<1>4. \A c \in Coroutine : CoInv(c)'
  BY <1>1 DEF IInv, CoInv, Recorded, EventId
<1>5. AnsweredIsRecorded' /\ ProcessedWasReconciled'
  BY <1>1 DEF IInv, AnsweredIsRecorded, ProcessedWasReconciled, Recorded, EventId
<1> QED
  BY <1>2, <1>3, <1>4, <1>5 DEF IInv

LEMMA NextInv == IInv /\ [Next]_vars => IInv'
<1> SUFFICES ASSUME IInv, [Next]_vars PROVE IInv'
  OBVIOUS
<1>1. ASSUME NEW c \in Coroutine, Run(c) PROVE IInv'
  BY <1>1, LookUpStep, InsertStep, AnswerStep, ProcessStep, FetchStep, RaiseStep,
     ReconcileStep, MarkStep, TellStep DEF Run
<1> QED
  BY <1>1, Stutter, DeliverStep, FailStep, ListStep, TakeStep, RestartStep, ProgressStep
     DEF Next

-----------------------------------------------------------------------------
(* Theorems.                                                               *)

\* Rows, snapshots and news fit together at every step.
THEOREM Invariance == Spec => []IInv
BY InitInv, NextInv, PTL DEF Spec

\* Every reachable state is well typed.
THEOREM TypeCorrect == Spec => []TypeOK
<1>1. IInv => TypeOK
  BY DEF IInv
<1> QED
  BY <1>1, Invariance, PTL

\* The event is durable before the HTTP 200, for any number of deliveries at once.
THEOREM AnswersAreDurable == Spec => []AnsweredIsRecorded
<1>1. IInv => AnsweredIsRecorded
  BY DEF IInv
<1> QED
  BY <1>1, Invariance, PTL

\* No event is marked before a snapshot no older than its notification was
\* reconciled, with or without identifiers, in any number of background tasks.
THEOREM MarkedWasReconciled == Spec => []ProcessedWasReconciled
<1>1. IInv => ProcessedWasReconciled
  BY DEF IInv
<1> QED
  BY <1>1, Invariance, PTL

\* No customer is told of the same change twice, however many coroutines process
\* the events of one order at once.
THEOREM CustomersAreToldOnce == Spec => TellsOnce
<1>1. IInv /\ [Next]_vars =>
          [\A c \in Coroutine : Tell(c) => <<co[c].on[1], co[c].news>> \notin told]_vars
  <2>1. ASSUME IInv, NEW c \in Coroutine, Tell(c)
        PROVE  <<co[c].on[1], co[c].news>> \notin told
    BY <2>1 DEF Tell, CoInv, IInv, NewsInv
  <2> QED
    BY <2>1
<1> QED
  BY <1>1, Invariance, PTL DEF Spec, TellsOnce
=============================================================================
