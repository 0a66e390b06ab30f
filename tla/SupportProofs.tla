----------------------------- MODULE SupportProofs -----------------------------
(***************************************************************************)
(* Proofs about Support, for any customers, chats, tickets, handlers and   *)
(* any cap.                                                                *)
(***************************************************************************)
EXTENDS Support, SequenceTheorems, FiniteSetTheorems, TLAPS

USE SetsAssumption, BoundAssumption

Author == {"user", "admin"}

-----------------------------------------------------------------------------
(* Counting handlers, tickets and replies.                                 *)

\* Handlers, tickets of a customer and replies to a ticket can be counted.
LEMMA Countable ==
    ASSUME TypeOK
    PROVE  /\ \A step, k : IsFiniteSet(Handlers(step, k)) /\ Cardinality(Handlers(step, k)) \in Nat
           /\ \A c : IsFiniteSet(Unresolved(c)) /\ Cardinality(Unresolved(c)) \in Nat
           /\ \A k \in Ticket : IsFiniteSet(Replies(k)) /\ Cardinality(Replies(k)) \in Nat
<1>1. ASSUME NEW step, NEW k
      PROVE  IsFiniteSet(Handlers(step, k)) /\ Cardinality(Handlers(step, k)) \in Nat
  <2>1. Handlers(step, k) \in SUBSET Task
      BY DEF Handlers
  <2> QED
      BY <2>1, FS_Subset, FS_CardinalityType
<1>2. ASSUME NEW c PROVE IsFiniteSet(Unresolved(c)) /\ Cardinality(Unresolved(c)) \in Nat
  <2>1. Unresolved(c) \in SUBSET Ticket
      BY DEF Unresolved
  <2> QED
      BY <2>1, FS_Subset, FS_CardinalityType
<1>3. ASSUME NEW k \in Ticket
      PROVE  IsFiniteSet(Replies(k)) /\ Cardinality(Replies(k)) \in Nat
  <2>1. messages[k] \in Seq(Author)
      BY DEF TypeOK, Author
  <2>2. Len(messages[k]) \in Nat /\ DOMAIN messages[k] = 1..Len(messages[k])
      BY <2>1, LenProperties
  <2>3. IsFiniteSet(1..Len(messages[k])) /\ Replies(k) \in SUBSET (1..Len(messages[k]))
      BY <2>2, FS_Interval DEF Replies
  <2> QED
      BY <2>3, FS_Subset, FS_CardinalityType
<1> QED
    BY <1>1, <1>2, <1>3

\* A handler that moves leaves one place and enters another.
LEMMA HandlerMoves ==
    ASSUME TypeOK, NEW t \in Task, NEW step, NEW x, Goto(t, step, x), NEW s, NEW k
    PROVE  /\ ~(pc[t] = s /\ on[t] = k) /\ ~(step = s /\ x = k) =>
                 Handlers(s, k)' = Handlers(s, k)
           /\ pc[t] = s /\ on[t] = k /\ ~(step = s /\ x = k) =>
                 Cardinality(Handlers(s, k)') = Cardinality(Handlers(s, k)) - 1
           /\ ~(pc[t] = s /\ on[t] = k) /\ step = s /\ x = k =>
                 Cardinality(Handlers(s, k)') = Cardinality(Handlers(s, k)) + 1
<1>1. /\ t \in Handlers(s, k) <=> pc[t] = s /\ on[t] = k
      /\ t \in Handlers(s, k)' <=> step = s /\ x = k
      /\ \A u \in Task \ {t} : u \in Handlers(s, k)' <=> u \in Handlers(s, k)
    BY DEF TypeOK, Goto, Handlers
<1>2. Handlers(s, k) \subseteq Task /\ Handlers(s, k)' \subseteq Task
    BY DEF Handlers
<1>3. CASE ~(pc[t] = s /\ on[t] = k) /\ ~(step = s /\ x = k)
    BY <1>1, <1>2, <1>3
<1>4. CASE pc[t] = s /\ on[t] = k /\ ~(step = s /\ x = k)
  <2>1. Handlers(s, k)' = Handlers(s, k) \ {t} /\ t \in Handlers(s, k)
      BY <1>1, <1>2, <1>4
  <2>2. Cardinality(Handlers(s, k) \ {t}) = Cardinality(Handlers(s, k)) - 1
      BY <2>1, Countable, FS_RemoveElement
  <2> QED
      BY <1>4, <2>1, <2>2
<1>5. CASE ~(pc[t] = s /\ on[t] = k) /\ step = s /\ x = k
  <2>1. Handlers(s, k)' = Handlers(s, k) \cup {t} /\ t \notin Handlers(s, k)
      BY <1>1, <1>2, <1>5
  <2>2. Cardinality(Handlers(s, k) \cup {t}) = Cardinality(Handlers(s, k)) + 1
      BY <2>1, Countable, FS_AddElement
  <2> QED
      BY <1>5, <2>1, <2>2
<1> QED
    BY <1>3, <1>4, <1>5

\* A recorded message is the last one, and counts as a reply if it is the shop's.
LEMMA RecordAppends ==
    ASSUME TypeOK, NEW k \in Ticket, NEW author \in Author, NEW s,
           status[k] # "none", Record(k, author, s)
    PROVE  /\ messages' \in [Ticket -> Seq(Author)]
           /\ messages'[k] # <<>>
           /\ messages'[k][Len(messages'[k])] = author
           /\ \A j \in Ticket \ {k} : messages'[j] = messages[j]
           /\ author = "user" => Replies(k)' = Replies(k)
           /\ author = "admin" => Cardinality(Replies(k)') = Cardinality(Replies(k)) + 1
<1> DEFINE q == messages[k]
           r == messages'[k]
<1>1. q \in Seq(Author) /\ r = Append(q, author)
      /\ \A j \in Ticket \ {k} : messages'[j] = messages[j]
    BY DEF TypeOK, Record, Author
<1>2. /\ Len(q) \in Nat /\ DOMAIN q = 1..Len(q)
      /\ r \in Seq(Author) /\ r # <<>> /\ Len(r) = Len(q) + 1
      /\ \A i \in 1..Len(q) : r[i] = q[i]
      /\ r[Len(q) + 1] = author
    BY <1>1, LenProperties, AppendProperties
<1>3. DOMAIN r = 1..(Len(q) + 1)
    BY <1>2, LenProperties
<1>4. messages' \in [Ticket -> Seq(Author)]
    BY <1>1, <1>2 DEF TypeOK, Record, Author
<1> HIDE DEF q, r
<1>5. /\ Replies(k) = {i \in 1..Len(q) : q[i] = "admin"}
      /\ Replies(k)' = {i \in 1..(Len(q) + 1) : r[i] = "admin"}
    BY <1>2, <1>3 DEF Replies, q, r
<1>6. author = "user" => Replies(k)' = Replies(k)
  <2>1. \A i : i \in 1..(Len(q) + 1) <=> i \in 1..Len(q) \/ i = Len(q) + 1
      BY <1>2
  <2> QED
      BY <1>2, <1>5, <2>1
<1>7. author = "admin" => Cardinality(Replies(k)') = Cardinality(Replies(k)) + 1
  <2> SUFFICES ASSUME author = "admin"
               PROVE  Cardinality(Replies(k)') = Cardinality(Replies(k)) + 1
      OBVIOUS
  <2>1. \A i : i \in 1..(Len(q) + 1) <=> i \in 1..Len(q) \/ i = Len(q) + 1
      BY <1>2
  <2>2. Replies(k)' = Replies(k) \cup {Len(q) + 1} /\ Len(q) + 1 \notin Replies(k)
      BY <1>2, <1>5, <2>1
  <2> QED
      BY <2>2, Countable, FS_AddElement
<1> QED
    BY <1>1, <1>2, <1>4, <1>6, <1>7 DEF q, r

-----------------------------------------------------------------------------
(* What is kept when little changes.                                       *)

TaskTypes ==
    /\ pc \in [Task -> {"idle", "create", "insert", "clear", "send", "confirm"}]
    /\ on \in [Task -> Chat \cup Ticket \cup {None}]

\* A handler that moves is well typed, and the others stand.
LEMMA GotoMoves ==
    ASSUME TypeOK, NEW t \in Task,
           NEW step \in {"idle", "create", "insert", "clear", "send", "confirm"},
           NEW x \in Chat \cup Ticket \cup {None}, Goto(t, step, x)
    PROVE  /\ TaskTypes' /\ pc'[t] = step /\ on'[t] = x
           /\ \A u \in Task \ {t} : pc'[u] = pc[u] /\ on'[u] = on[u]
BY DEF TypeOK, TaskTypes, Goto

\* The handlers' parts of the invariant survive a step of another handler that
\* gives no customer a further ticket while one of his is about to be inserted.
LEMMA HandlersKept ==
    ASSUME \A u \in Task : HandlerInv(u), OneInserter, NEW t \in Task,
           \A u \in Task \ {t} :
              /\ pc'[u] = pc[u] /\ on'[u] = on[u]
              /\ \A c \in Customer :
                    pc[u] = "insert" /\ Owner[on[u]] = c /\ MayOpen(c) => MayOpen(c)',
           HandlerInv(t)',
           pc'[t] = "insert" => \A u \in Task \ {t} :
                                   pc[u] = "insert" => Owner[on'[t]] # Owner[on[u]]
    PROVE  (\A u \in Task : HandlerInv(u))' /\ OneInserter'
<1>1. ASSUME NEW u \in Task \ {t} PROVE HandlerInv(u)'
  <2>1. HandlerInv(u) /\ pc'[u] = pc[u] /\ on'[u] = on[u]
      OBVIOUS
  <2>2. CASE pc[u] # "insert"
      BY <2>1, <2>2 DEF HandlerInv
  <2>3. CASE pc[u] = "insert"
    <3>1. PICK c \in Customer : c = Owner[on[u]]
        BY <2>1, <2>3 DEF HandlerInv
    <3>2. MayOpen(c)'
        BY <2>1, <2>3, <3>1 DEF HandlerInv
    <3> QED
        BY <2>1, <2>3, <3>1, <3>2 DEF HandlerInv, MayOpen, Unresolved
  <2> QED
      BY <2>2, <2>3
<1>2. OneInserter'
    BY DEF OneInserter
<1> QED
    BY <1>1, <1>2

\* A handler that begins, or goes on to a step without a count, needs no more
\* than its subject.
LEMMA OneMoves ==
    ASSUME IInv, NEW t \in Task,
           \A u \in Task \ {t} : pc'[u] = pc[u] /\ on'[u] = on[u],
           UNCHANGED <<status, owner>> \/ \A c \in Customer : MayOpen(c) => MayOpen(c)',
           HandlerInv(t)', pc'[t] # "insert"
    PROVE  (\A u \in Task : HandlerInv(u))' /\ OneInserter'
<1>1. \A c \in Customer : MayOpen(c) => MayOpen(c)'
    BY DEF MayOpen, Unresolved
<1> QED
    BY <1>1, HandlersKept DEF IInv

\* Nothing the database says has changed.
LEMMA DatabaseStands ==
    ASSUME IInv, UNCHANGED database
    PROVE  /\ OpenTicketsCapped' /\ StatusTellsTurn'
           /\ \A k \in Ticket : Replies(k)' = Replies(k)
BY DEF database, IInv, OpenTicketsCapped, Unresolved, StatusTellsTurn, Replies

\* A handler that is not after a reply, before and after its step, changes no count.
LEMMA CountsKept ==
    ASSUME IInv, NEW t \in Task, NEW step, NEW x, Goto(t, step, x),
           pc[t] \notin {"send", "confirm"}, step \notin {"send", "confirm"},
           UNCHANGED chats, NEW k \in Ticket, Replies(k)' = Replies(k)
    PROVE  RepliesInv(k)'
<1>1. /\ Handlers("send", k)' = Handlers("send", k)
      /\ Handlers("confirm", k)' = Handlers("confirm", k)
    BY HandlerMoves DEF IInv
<1> QED
    BY <1>1 DEF IInv, RepliesInv, chats

\* Nor does a step of no handler.
LEMMA CountsStand ==
    ASSUME IInv, UNCHANGED tasks, UNCHANGED chats,
           NEW k \in Ticket, Replies(k)' = Replies(k)
    PROVE  RepliesInv(k)'
BY DEF IInv, RepliesInv, Handlers, tasks, chats

-----------------------------------------------------------------------------
(* The invariant holds initially and every action keeps it.                *)

\* Before the first message there is no ticket and no handler.
LEMMA InitInv == Init => IInv
<1> SUFFICES ASSUME Init PROVE IInv
    OBVIOUS
<1>1. TypeOK
  <2>1. <<>> \in Seq(Author)
      BY EmptySeq
  <2> QED
      BY <2>1 DEF Init, TypeOK, Author
<1>2. (\A t \in Task : HandlerInv(t)) /\ OneInserter /\ StatusTellsTurn
    BY DEF Init, HandlerInv, OneInserter, StatusTellsTurn
<1>3. OpenTicketsCapped
  <2>1. \A c \in Customer : Unresolved(c) = {}
      BY DEF Init, Unresolved
  <2> QED
      BY <2>1, FS_EmptySet DEF OpenTicketsCapped
<1>4. \A k \in Ticket : RepliesInv(k)
  <2> SUFFICES ASSUME NEW k \in Ticket PROVE RepliesInv(k)
      OBVIOUS
  <2>1. Handlers("send", k) = {} /\ Handlers("confirm", k) = {}
      BY DEF Init, Handlers
  <2>2. Cardinality(Replies(k)) \in Nat
      BY <1>1, Countable
  <2>3. Cardinality(Handlers("send", k)) = 0 /\ Cardinality(Handlers("confirm", k)) = 0
      BY <2>1, FS_EmptySet
  <2>4. shown[k] = 0 /\ confirmed[k] = 0
      BY DEF Init
  <2> QED
      BY <2>2, <2>3, <2>4 DEF RepliesInv
<1> QED
    BY <1>1, <1>2, <1>3, <1>4 DEF IInv

\* The state of a chat is nobody's concern.
LEMMA ChatStateInv ==
    ASSUME IInv, NEW h \in Chat, SupportStart(h) \/ Cancel(h)
    PROVE  IInv'
<1>1. UNCHANGED <<database, tasks, chats>> /\ fsm' \subseteq Chat
    BY DEF SupportStart, Cancel, IInv, TypeOK
<1>2. TypeOK'
    BY <1>1 DEF IInv, TypeOK, database, tasks, chats
<1>3. (\A t \in Task : HandlerInv(t))' /\ OneInserter'
    BY <1>1 DEF IInv, HandlerInv, OneInserter, MayOpen, Unresolved, database, tasks
<1>4. /\ OpenTicketsCapped' /\ StatusTellsTurn'
      /\ \A k \in Ticket : Replies(k)' = Replies(k)
    BY <1>1, DatabaseStands
<1>5. \A k \in Ticket : RepliesInv(k)'
    BY <1>1, <1>4, CountsStand
<1> QED
    BY <1>2, <1>3, <1>4, <1>5 DEF IInv

\* A message that may open a ticket starts a handler.
LEMMA SupportReceiveInv ==
    ASSUME IInv, NEW t \in Task, NEW h \in Chat, SupportReceive(t, h)
    PROVE  IInv'
<1>1. /\ Goto(t, "create", h) /\ pc[t] = "idle"
      /\ UNCHANGED <<database, fsm, chats>>
    BY DEF SupportReceive, Begin
<1>2. /\ TaskTypes' /\ pc'[t] = "create" /\ on'[t] = h
      /\ \A u \in Task \ {t} : pc'[u] = pc[u] /\ on'[u] = on[u]
    BY <1>1, GotoMoves DEF IInv
<1>3. TypeOK'
    BY <1>1, <1>2 DEF IInv, TypeOK, TaskTypes, database, chats
<1>4. (\A u \in Task : HandlerInv(u))' /\ OneInserter'
    BY <1>1, <1>2, OneMoves DEF HandlerInv, database
<1>5. /\ OpenTicketsCapped' /\ StatusTellsTurn'
      /\ \A k \in Ticket : Replies(k)' = Replies(k)
    BY <1>1, DatabaseStands
<1>6. \A k \in Ticket : RepliesInv(k)'
    BY <1>1, <1>5, CountsKept
<1> QED
    BY <1>3, <1>4, <1>5, <1>6 DEF IInv

\* A handler counts the tickets of a customer whom no other handler has locked.
LEMMA CountTicketsInv ==
    ASSUME IInv, NEW t \in Task, CountTickets(t)
    PROVE  IInv'
<1>1. pc[t] = "create" /\ on[t] \in Chat /\ UserFree(Owner[on[t]])
      /\ UNCHANGED <<database, fsm, chats>>
    BY DEF IInv, HandlerInv, CountTickets
<1>2. PICK step \in {"insert", "idle"}, x \in Chat \cup {None} :
          Goto(t, step, x) /\ (step = "insert" => x = on[t] /\ MayOpen(Owner[on[t]]))
    BY <1>1 DEF CountTickets, Return
<1>3. /\ TaskTypes' /\ pc'[t] = step /\ on'[t] = x
      /\ \A u \in Task \ {t} : pc'[u] = pc[u] /\ on'[u] = on[u]
    BY <1>2, GotoMoves DEF IInv
<1>4. TypeOK'
    BY <1>1, <1>3 DEF IInv, TypeOK, TaskTypes, database, chats
<1>5. \A c : MayOpen(c) => MayOpen(c)'
    BY <1>1 DEF MayOpen, Unresolved, database
<1>6. HandlerInv(t)'
    BY <1>1, <1>2, <1>3 DEF HandlerInv, MayOpen, Unresolved, database
<1>7. (\A u \in Task : HandlerInv(u))' /\ OneInserter'
  <2>1. pc'[t] = "insert" => \A u \in Task \ {t} :
                                pc[u] = "insert" => Owner[on'[t]] # Owner[on[u]]
      BY <1>1, <1>2, <1>3 DEF UserFree
  <2> QED
      BY <1>3, <1>5, <1>6, <2>1, HandlersKept DEF IInv
<1>8. /\ OpenTicketsCapped' /\ StatusTellsTurn'
      /\ \A k \in Ticket : Replies(k)' = Replies(k)
    BY <1>1, DatabaseStands
<1>9. \A k \in Ticket : RepliesInv(k)'
    BY <1>1, <1>2, <1>8, CountsKept
<1> QED
    BY <1>4, <1>7, <1>8, <1>9 DEF IInv

\* The insertion makes use of the count, and nobody else's customer is concerned.
LEMMA InsertTicketInv ==
    ASSUME IInv, NEW t \in Task, InsertTicket(t)
    PROVE  IInv'
<1>1. /\ pc[t] = "insert" /\ on[t] \in Chat /\ Owner[on[t]] \in Customer
      /\ MayOpen(Owner[on[t]]) /\ Goto(t, "clear", on[t]) /\ UNCHANGED <<fsm, chats>>
    BY DEF IInv, HandlerInv, InsertTicket
<1>2. PICK k \in Ticket, c \in Customer :
          /\ status[k] = "none" /\ c = Owner[on[t]]
          /\ status' = [status EXCEPT ![k] = "open"]
          /\ owner' = [owner EXCEPT ![k] = c]
          /\ messages' = [messages EXCEPT ![k] = <<"user">>]
    BY <1>1 DEF InsertTicket
<1>3. /\ TaskTypes' /\ pc'[t] = "clear" /\ on'[t] = on[t]
      /\ \A u \in Task \ {t} : pc'[u] = pc[u] /\ on'[u] = on[u]
    BY <1>1, GotoMoves DEF IInv
<1>4. TypeOK'
    BY <1>1, <1>2, <1>3 DEF IInv, TypeOK, TaskTypes, chats
<1>5. /\ Unresolved(c)' \subseteq Unresolved(c) \cup {k}
      /\ \A d \in Customer : d # c => Unresolved(d)' \subseteq Unresolved(d)
    BY <1>2 DEF IInv, TypeOK, Unresolved
<1>6. \A d \in Customer : d # c =>
          Cardinality(Unresolved(d)') <= Cardinality(Unresolved(d))
    BY <1>5, Countable, FS_Subset DEF IInv
<1>7. Cardinality(Unresolved(c)') <= Cardinality(Unresolved(c)) + 1
  <2>0. IsFiniteSet(Unresolved(c)) /\ Cardinality(Unresolved(c)) \in Nat
      BY Countable DEF IInv
  <2>1. /\ IsFiniteSet(Unresolved(c) \cup {k})
        /\ Cardinality(Unresolved(c) \cup {k}) <= Cardinality(Unresolved(c)) + 1
    <3>1. PICK S : S = Unresolved(c)
        OBVIOUS
    <3>2. IsFiniteSet(S) /\ Cardinality(S) \in Nat
        BY <2>0, <3>1
    <3>3. /\ IsFiniteSet(S \cup {k})
          /\ \/ Cardinality(S \cup {k}) = Cardinality(S)
             \/ Cardinality(S \cup {k}) = Cardinality(S) + 1
        BY <3>2, FS_AddElement
    <3> QED
        BY <3>1, <3>2, <3>3
  <2>2. /\ Cardinality(Unresolved(c)') <= Cardinality(Unresolved(c) \cup {k})
        /\ IsFiniteSet(Unresolved(c)')
      BY <1>5, <2>1, FS_Subset
  <2>3. Cardinality(Unresolved(c)') \in Nat /\ Cardinality(Unresolved(c) \cup {k}) \in Nat
      BY <2>1, <2>2, FS_CardinalityType
  <2> QED
      BY <2>0, <2>1, <2>2, <2>3
<1>8. ASSUME NEW d \in Customer
      PROVE  Cardinality(Unresolved(d)) \in Nat /\ Cardinality(Unresolved(d)') \in Nat
  <2>1. Unresolved(d)' \in SUBSET Ticket
      BY DEF Unresolved
  <2>2. IsFiniteSet(Unresolved(d)')
      BY <2>1, FS_Subset
  <2>3. Cardinality(Unresolved(d)') \in Nat
      BY <2>2, FS_CardinalityType
  <2> QED
      BY <2>3, Countable DEF IInv
<1>9. OpenTicketsCapped'
  <2> SUFFICES ASSUME NEW d \in Customer PROVE Cardinality(Unresolved(d)') <= MaxOpen
      BY DEF OpenTicketsCapped
  <2>1. CASE d = c
      BY <1>1, <1>2, <1>7, <1>8, <2>1 DEF MayOpen
  <2>2. CASE d # c
      BY <1>6, <1>8, <2>2 DEF IInv, OpenTicketsCapped
  <2> QED
      BY <2>1, <2>2
<1>10. (\A u \in Task : HandlerInv(u))' /\ OneInserter'
  <2>1. \A d \in Customer : d # c /\ MayOpen(d) => MayOpen(d)'
      BY <1>6, <1>8 DEF MayOpen
  <2>2. \A u \in Task \ {t} : pc[u] = "insert" => Owner[on[u]] # c
      BY <1>1, <1>2 DEF IInv, OneInserter
  <2>3. HandlerInv(t)'
      BY <1>1, <1>3 DEF HandlerInv
  <2> QED
      BY <1>3, <2>1, <2>2, <2>3, HandlersKept DEF IInv
<1>11. StatusTellsTurn'
  <2>1. /\ messages'[k] = <<"user">>
        /\ \A j \in Ticket \ {k} : messages'[j] = messages[j] /\ status'[j] = status[j]
        /\ status'[k] = "open"
      BY <1>2 DEF IInv, TypeOK
  <2>2. messages'[k][Len(messages'[k])] = "user"
      BY <2>1
  <2> QED
      BY <2>1, <2>2 DEF IInv, StatusTellsTurn
<1>12. \A j \in Ticket : Replies(j)' = Replies(j)
  <2>1. messages[k] = <<>> /\ messages'[k] = <<"user">>
      BY <1>2 DEF IInv, TypeOK
  <2>2. Replies(k) = {} /\ Replies(k)' = {}
      BY <2>1 DEF Replies
  <2>3. \A j \in Ticket \ {k} : messages'[j] = messages[j]
      BY <1>2 DEF IInv, TypeOK
  <2> QED
      BY <2>2, <2>3 DEF Replies
<1>13. \A j \in Ticket : RepliesInv(j)'
    BY <1>1, <1>12, CountsKept
<1> QED
    BY <1>4, <1>9, <1>10, <1>11, <1>13 DEF IInv

\* A chat leaves its state when its ticket exists.
LEMMA ClearStateInv ==
    ASSUME IInv, NEW t \in Task, ClearState(t)
    PROVE  IInv'
<1>1. /\ Goto(t, "idle", None) /\ pc[t] = "clear"
      /\ UNCHANGED <<database, chats>> /\ fsm' \subseteq Chat
    BY DEF ClearState, Return, IInv, TypeOK
<1>2. /\ TaskTypes' /\ pc'[t] = "idle"
      /\ \A u \in Task \ {t} : pc'[u] = pc[u] /\ on'[u] = on[u]
    BY <1>1, GotoMoves DEF IInv
<1>3. TypeOK'
    BY <1>1, <1>2 DEF IInv, TypeOK, TaskTypes, database, chats
<1>4. (\A u \in Task : HandlerInv(u))' /\ OneInserter'
    BY <1>1, <1>2, OneMoves DEF HandlerInv, database
<1>5. /\ OpenTicketsCapped' /\ StatusTellsTurn'
      /\ \A k \in Ticket : Replies(k)' = Replies(k)
    BY <1>1, DatabaseStands
<1>6. \A k \in Ticket : RepliesInv(k)'
    BY <1>1, <1>5, CountsKept
<1> QED
    BY <1>3, <1>4, <1>5, <1>6 DEF IInv

\* An answer puts its ticket back before the staff.
LEMMA AddUserReplyInv ==
    ASSUME IInv, NEW k \in Ticket, AddUserReply(k)
    PROVE  IInv'
<1>1. /\ status[k] \notin {"none", "resolved"} /\ Record(k, "user", "open")
      /\ UNCHANGED <<fsm, tasks, chats, owner>>
      /\ status' = [status EXCEPT ![k] = "open"]
    BY DEF AddUserReply, Writable, Record
<1>2. /\ messages' \in [Ticket -> Seq(Author)] /\ messages'[k] # <<>>
      /\ messages'[k][Len(messages'[k])] = "user"
      /\ \A j \in Ticket \ {k} : messages'[j] = messages[j]
      /\ Replies(k)' = Replies(k)
    BY <1>1, RecordAppends DEF IInv, Author
<1>3. TypeOK'
    BY <1>1, <1>2 DEF IInv, TypeOK, Author, tasks, chats
<1>4. \A c : Unresolved(c)' = Unresolved(c)
    BY <1>1 DEF IInv, TypeOK, Unresolved
<1>5. OpenTicketsCapped' /\ (\A t \in Task : HandlerInv(t))' /\ OneInserter'
    BY <1>1, <1>4 DEF IInv, OpenTicketsCapped, HandlerInv, OneInserter, MayOpen, tasks
<1>6. StatusTellsTurn'
    BY <1>1, <1>2 DEF IInv, TypeOK, StatusTellsTurn
<1>7. \A j \in Ticket : Replies(j)' = Replies(j)
    BY <1>2 DEF Replies
<1>8. \A j \in Ticket : RepliesInv(j)'
    BY <1>1, <1>7, CountsStand
<1> QED
    BY <1>3, <1>5, <1>6, <1>8 DEF IInv

\* A reply is recorded before a handler sets out to send it.
LEMMA ReplyTicketInv ==
    ASSUME IInv, NEW t \in Task, NEW k \in Ticket, ReplyTicket(t, k)
    PROVE  IInv'
<1>1. /\ status[k] \notin {"none", "resolved"} /\ Record(k, "admin", "waiting_customer")
      /\ pc[t] = "idle" /\ Goto(t, "send", k)
      /\ UNCHANGED <<fsm, chats, owner>>
      /\ status' = [status EXCEPT ![k] = "waiting_customer"]
    BY DEF ReplyTicket, Writable, Record, Begin
<1>2. /\ messages' \in [Ticket -> Seq(Author)] /\ messages'[k] # <<>>
      /\ messages'[k][Len(messages'[k])] = "admin"
      /\ \A j \in Ticket \ {k} : messages'[j] = messages[j]
      /\ Cardinality(Replies(k)') = Cardinality(Replies(k)) + 1
    BY <1>1, RecordAppends DEF IInv, Author
<1>3. /\ TaskTypes' /\ pc'[t] = "send" /\ on'[t] = k
      /\ \A u \in Task \ {t} : pc'[u] = pc[u] /\ on'[u] = on[u]
    BY <1>1, GotoMoves DEF IInv
<1>4. TypeOK'
  <2>1. \A j \in Ticket : status'[j] = "none" <=> messages'[j] = <<>>
      BY <1>1, <1>2 DEF IInv, TypeOK
  <2>2. /\ status' \in [Ticket -> {"none", "open", "waiting_customer", "resolved"}]
        /\ UNCHANGED <<owner, fsm, shown, confirmed>>
      BY <1>1 DEF IInv, TypeOK, chats
  <2> QED
      BY <1>2, <1>3, <2>1, <2>2 DEF IInv, TypeOK, TaskTypes, Author
<1>5. \A c : Unresolved(c)' = Unresolved(c)
    BY <1>1 DEF IInv, TypeOK, Unresolved
<1>6. OpenTicketsCapped' /\ \A c \in Customer : MayOpen(c) => MayOpen(c)'
    BY <1>5 DEF IInv, OpenTicketsCapped, MayOpen
<1>7. (\A u \in Task : HandlerInv(u))' /\ OneInserter'
    BY <1>3, <1>6, OneMoves DEF HandlerInv
<1>8. StatusTellsTurn'
    BY <1>1, <1>2 DEF IInv, TypeOK, StatusTellsTurn
<1>9. ASSUME NEW j \in Ticket PROVE RepliesInv(j)'
  <2>1. Handlers("confirm", j)' = Handlers("confirm", j)
      BY <1>1, HandlerMoves DEF IInv
  <2>2. shown'[j] = shown[j] /\ confirmed'[j] = confirmed[j]
      BY <1>1 DEF chats
  <2>3. CASE j = k
    <3>1. Cardinality(Handlers("send", k)') = Cardinality(Handlers("send", k)) + 1
        BY <1>1, HandlerMoves DEF IInv
    <3>2. /\ Cardinality(Handlers("send", k)) \in Nat /\ Cardinality(Replies(k)) \in Nat
          /\ shown[k] \in Nat /\ RepliesInv(k)
        BY Countable DEF IInv, TypeOK
    <3> QED
        BY <1>2, <2>1, <2>2, <2>3, <3>1, <3>2 DEF RepliesInv
  <2>4. CASE j # k
    <3>1. Handlers("send", j)' = Handlers("send", j)
        BY <1>1, <2>4, HandlerMoves DEF IInv
    <3>2. Replies(j)' = Replies(j)
        BY <1>2, <2>4 DEF Replies
    <3> QED
        BY <2>1, <2>2, <3>1, <3>2 DEF IInv, RepliesInv
  <2> QED
      BY <2>3, <2>4
<1> QED
    BY <1>4, <1>6, <1>7, <1>8, <1>9 DEF IInv

\* A reply that is sent was recorded and is not confirmed yet.
LEMMA SendReplyInv ==
    ASSUME IInv, NEW t \in Task, SendReply(t)
    PROVE  IInv'
<1>1. pc[t] = "send" /\ on[t] \in Ticket /\ UNCHANGED <<database, fsm, confirmed>>
    BY DEF IInv, HandlerInv, SendReply
<1>2. PICK k \in Ticket : k = on[t]
    BY <1>1
<1>3. PICK step \in {"confirm", "idle"}, x \in {k, None} :
          /\ Goto(t, step, x)
          /\ \/ step = "confirm" /\ x = k /\ shown' = [shown EXCEPT ![k] = @ + 1]
             \/ step = "idle" /\ x = None /\ shown' = shown
    BY <1>1, <1>2 DEF SendReply, Return
<1>4. /\ TaskTypes' /\ pc'[t] = step /\ on'[t] = x
      /\ \A u \in Task \ {t} : pc'[u] = pc[u] /\ on'[u] = on[u]
    BY <1>3, GotoMoves DEF IInv
<1>5. TypeOK'
  <2>1. shown \in [Ticket -> Nat] /\ shown[k] + 1 \in Nat
      BY DEF IInv, TypeOK
  <2>2. shown' = shown \/ shown' = [shown EXCEPT ![k] = shown[k] + 1]
      BY <1>3
  <2>3. shown' \in [Ticket -> Nat]
      BY <2>1, <2>2
  <2>4. TaskTypes' /\ UNCHANGED <<status, owner, messages, fsm, confirmed>>
      BY <1>1, <1>4 DEF database
  <2> QED
      BY <2>3, <2>4 DEF IInv, TypeOK, TaskTypes
<1>6. (\A u \in Task : HandlerInv(u))' /\ OneInserter'
    BY <1>1, <1>3, <1>4, OneMoves DEF HandlerInv, database
<1>7. /\ OpenTicketsCapped' /\ StatusTellsTurn'
      /\ \A j \in Ticket : Replies(j)' = Replies(j)
    BY <1>1, DatabaseStands
<1>8. ASSUME NEW j \in Ticket PROVE RepliesInv(j)'
  <2>1. /\ Cardinality(Handlers("send", j)) \in Nat
        /\ Cardinality(Handlers("confirm", j)) \in Nat
        /\ Cardinality(Replies(j)) \in Nat
        /\ shown[j] \in Nat /\ confirmed[j] \in Nat /\ RepliesInv(j)
      BY Countable DEF IInv, TypeOK
  <2>2. CASE j # k
    <3>1. /\ Handlers("send", j)' = Handlers("send", j)
          /\ Handlers("confirm", j)' = Handlers("confirm", j)
        BY <1>2, <1>3, <2>2, HandlerMoves DEF IInv
    <3>2. shown'[j] = shown[j] /\ confirmed'[j] = confirmed[j]
        BY <1>1, <1>3, <2>2 DEF IInv, TypeOK
    <3> QED
        BY <1>7, <2>1, <3>1, <3>2 DEF RepliesInv
  <2>3. CASE j = k
    <3>1. Cardinality(Handlers("send", k)') = Cardinality(Handlers("send", k)) - 1
        BY <1>1, <1>2, <1>3, HandlerMoves DEF IInv
    <3>2. CASE step = "confirm"
      <4>1. Cardinality(Handlers("confirm", k)') = Cardinality(Handlers("confirm", k)) + 1
          BY <1>1, <1>2, <1>3, <3>2, HandlerMoves DEF IInv
      <4>2. shown'[k] = shown[k] + 1 /\ confirmed'[k] = confirmed[k]
          BY <1>1, <1>3, <3>2 DEF IInv, TypeOK
      <4> QED
          BY <1>7, <2>1, <2>3, <3>1, <4>1, <4>2 DEF RepliesInv
    <3>3. CASE step = "idle"
      <4>1. Handlers("confirm", k)' = Handlers("confirm", k)
          BY <1>1, <1>3, <3>3, HandlerMoves DEF IInv
      <4>2. shown'[k] = shown[k] /\ confirmed'[k] = confirmed[k]
          BY <1>1, <1>3, <3>3
      <4> QED
          BY <1>7, <2>1, <2>3, <3>1, <4>1, <4>2 DEF RepliesInv
    <3> QED
        BY <3>2, <3>3
  <2> QED
      BY <2>2, <2>3
<1> QED
    BY <1>5, <1>6, <1>7, <1>8 DEF IInv

\* The administrator is told once of each reply that was sent.
LEMMA ConfirmReplyInv ==
    ASSUME IInv, NEW t \in Task, ConfirmReply(t)
    PROVE  IInv'
<1>1. pc[t] = "confirm" /\ on[t] \in Ticket /\ Goto(t, "idle", None)
      /\ UNCHANGED <<database, fsm, shown>>
    BY DEF IInv, HandlerInv, ConfirmReply, Return
<1>2. PICK k \in Ticket : k = on[t] /\ confirmed' = [confirmed EXCEPT ![k] = @ + 1]
    BY <1>1 DEF ConfirmReply
<1>3. /\ TaskTypes' /\ pc'[t] = "idle" /\ on'[t] = None
      /\ \A u \in Task \ {t} : pc'[u] = pc[u] /\ on'[u] = on[u]
    BY <1>1, GotoMoves DEF IInv
<1>4. TypeOK'
    BY <1>1, <1>2, <1>3 DEF IInv, TypeOK, TaskTypes, database
<1>5. (\A u \in Task : HandlerInv(u))' /\ OneInserter'
    BY <1>1, <1>3, OneMoves DEF HandlerInv, database
<1>6. /\ OpenTicketsCapped' /\ StatusTellsTurn'
      /\ \A j \in Ticket : Replies(j)' = Replies(j)
    BY <1>1, DatabaseStands
<1>7. ASSUME NEW j \in Ticket PROVE RepliesInv(j)'
  <2>1. /\ Cardinality(Handlers("confirm", j)) \in Nat
        /\ shown[j] \in Nat /\ confirmed[j] \in Nat /\ RepliesInv(j)
      BY Countable DEF IInv, TypeOK
  <2>2. Handlers("send", j)' = Handlers("send", j)
      BY <1>1, HandlerMoves DEF IInv
  <2>3. CASE j # k
    <3>1. Handlers("confirm", j)' = Handlers("confirm", j)
        BY <1>1, <1>2, <2>3, HandlerMoves DEF IInv
    <3>2. confirmed'[j] = confirmed[j]
        BY <1>2, <2>3 DEF IInv, TypeOK
    <3> QED
        BY <1>1, <1>6, <2>1, <2>2, <3>1, <3>2 DEF RepliesInv
  <2>4. CASE j = k
    <3>1. Cardinality(Handlers("confirm", k)') = Cardinality(Handlers("confirm", k)) - 1
        BY <1>1, <1>2, HandlerMoves DEF IInv
    <3>2. confirmed'[k] = confirmed[k] + 1
        BY <1>2 DEF IInv, TypeOK
    <3> QED
        BY <1>1, <1>6, <2>1, <2>2, <2>4, <3>1, <3>2 DEF RepliesInv
  <2> QED
      BY <2>3, <2>4
<1> QED
    BY <1>4, <1>5, <1>6, <1>7 DEF IInv

\* A ticket that is closed leaves room for another.
LEMMA CloseTicketInv ==
    ASSUME IInv, NEW k \in Ticket, CloseTicket(k)
    PROVE  IInv'
<1>1. /\ status[k] # "none" /\ status' = [status EXCEPT ![k] = "resolved"]
      /\ UNCHANGED <<owner, messages, fsm, tasks, chats>>
    BY DEF CloseTicket
<1>2. TypeOK'
    BY <1>1 DEF IInv, TypeOK, tasks, chats
<1>3. ASSUME NEW c \in Customer
      PROVE  /\ Cardinality(Unresolved(c)') <= Cardinality(Unresolved(c))
             /\ Cardinality(Unresolved(c)') \in Nat /\ Cardinality(Unresolved(c)) \in Nat
  <2>1. Unresolved(c)' \subseteq Unresolved(c)
      BY <1>1 DEF IInv, TypeOK, Unresolved
  <2>2. IsFiniteSet(Unresolved(c)) /\ Cardinality(Unresolved(c)) \in Nat
      BY Countable DEF IInv
  <2>3. IsFiniteSet(Unresolved(c)') /\ Cardinality(Unresolved(c)') <= Cardinality(Unresolved(c))
      BY <2>1, <2>2, FS_Subset
  <2> QED
      BY <2>2, <2>3, FS_CardinalityType
<1>4. OpenTicketsCapped' /\ \A c \in Customer : MayOpen(c) => MayOpen(c)'
    BY <1>3 DEF IInv, OpenTicketsCapped, MayOpen
<1>5. (\A t \in Task : HandlerInv(t))' /\ OneInserter'
  <2>1. ASSUME NEW t \in Task PROVE HandlerInv(t)'
    <3>1. HandlerInv(t) /\ pc'[t] = pc[t] /\ on'[t] = on[t]
        BY <1>1 DEF IInv, tasks
    <3>2. CASE pc[t] = "insert"
      <4>1. PICK c \in Customer : c = Owner[on[t]]
          BY <3>1, <3>2 DEF HandlerInv
      <4>2. MayOpen(c)'
          BY <1>4, <3>1, <3>2, <4>1 DEF HandlerInv
      <4> QED
          BY <3>1, <3>2, <4>1, <4>2 DEF HandlerInv, MayOpen, Unresolved
    <3> QED
        BY <3>1, <3>2 DEF HandlerInv
  <2> QED
      BY <1>1, <2>1 DEF IInv, OneInserter, tasks
<1>6. StatusTellsTurn'
    BY <1>1 DEF IInv, TypeOK, StatusTellsTurn
<1>7. \A j \in Ticket : Replies(j)' = Replies(j)
    BY <1>1 DEF Replies
<1>8. \A j \in Ticket : RepliesInv(j)'
    BY <1>1, <1>7, CountsStand
<1> QED
    BY <1>2, <1>4, <1>5, <1>6, <1>8 DEF IInv

\* A handler that stops leaves a reply unsent or unconfirmed, never the reverse.
LEMMA AbortInv ==
    ASSUME IInv, NEW t \in Task, Abort(t)
    PROVE  IInv'
<1>1. Goto(t, "idle", None) /\ UNCHANGED <<database, chats>> /\ fsm' \subseteq Chat
    BY DEF IInv, TypeOK, Abort, Return
<1>2. /\ TaskTypes' /\ pc'[t] = "idle" /\ on'[t] = None
      /\ \A u \in Task \ {t} : pc'[u] = pc[u] /\ on'[u] = on[u]
    BY <1>1, GotoMoves DEF IInv
<1>3. TypeOK'
    BY <1>1, <1>2 DEF IInv, TypeOK, TaskTypes, database, chats
<1>4. (\A u \in Task : HandlerInv(u))' /\ OneInserter'
    BY <1>1, <1>2, OneMoves DEF HandlerInv, database
<1>5. /\ OpenTicketsCapped' /\ StatusTellsTurn'
      /\ \A j \in Ticket : Replies(j)' = Replies(j)
    BY <1>1, DatabaseStands
<1>6. ASSUME NEW j \in Ticket PROVE RepliesInv(j)'
  <2>1. /\ Cardinality(Handlers("send", j)) \in Nat
        /\ Cardinality(Handlers("confirm", j)) \in Nat
        /\ Cardinality(Replies(j)) \in Nat
        /\ shown[j] \in Nat /\ confirmed[j] \in Nat /\ RepliesInv(j)
      BY Countable DEF IInv, TypeOK
  <2>2. \A s \in {"send", "confirm"} :
            \/ Handlers(s, j)' = Handlers(s, j)
            \/ Cardinality(Handlers(s, j)') = Cardinality(Handlers(s, j)) - 1
      BY <1>1, HandlerMoves DEF IInv
  <2>3. /\ Cardinality(Handlers("send", j)') <= Cardinality(Handlers("send", j))
        /\ Cardinality(Handlers("confirm", j)') <= Cardinality(Handlers("confirm", j))
        /\ Cardinality(Handlers("send", j)') \in Int
        /\ Cardinality(Handlers("confirm", j)') \in Int
      BY <2>1, <2>2
  <2>4. shown'[j] = shown[j] /\ confirmed'[j] = confirmed[j]
      BY <1>1 DEF chats
  <2> QED
      BY <1>5, <2>1, <2>3, <2>4 DEF RepliesInv
<1> QED
    BY <1>3, <1>4, <1>5, <1>6 DEF IInv

\* No step whatever breaks the invariant.
LEMMA NextInv ==
    ASSUME IInv, [Next]_vars
    PROVE  IInv'
<1>1. CASE UNCHANGED vars
  <2>1. UNCHANGED <<database, fsm, tasks, chats>>
      BY <1>1 DEF vars
  <2>2. TypeOK'
      BY <2>1 DEF IInv, TypeOK, database, tasks, chats
  <2>3. (\A t \in Task : HandlerInv(t))' /\ OneInserter'
      BY <2>1 DEF IInv, HandlerInv, OneInserter, MayOpen, Unresolved, database, tasks
  <2>4. /\ OpenTicketsCapped' /\ StatusTellsTurn'
        /\ \A k \in Ticket : Replies(k)' = Replies(k)
      BY <2>1, DatabaseStands
  <2>5. \A k \in Ticket : RepliesInv(k)'
      BY <2>1, <2>4, CountsStand
  <2> QED
      BY <2>2, <2>3, <2>4, <2>5 DEF IInv
<1>2. CASE Next
    BY <1>2, ChatStateInv, SupportReceiveInv, CountTicketsInv, InsertTicketInv,
       ClearStateInv, SendReplyInv, ConfirmReplyInv, AbortInv, AddUserReplyInv,
       CloseTicketInv, ReplyTicketInv DEF Next
<1> QED
    BY <1>1, <1>2

-----------------------------------------------------------------------------
(* The theorems.                                                           *)

\* The inductive invariant holds in every reachable state.
THEOREM Invariance == Spec => []IInv
<1>1. Init => IInv
    BY InitInv
<1>2. IInv /\ [Next]_vars => IInv'
    BY NextInv
<1> QED
    BY <1>1, <1>2, PTL DEF Spec

\* The rows, the handlers and the counts keep their types, and a ticket without
\* messages does not exist.
THEOREM TypeCorrect == Spec => []TypeOK
<1>1. IInv => TypeOK
    BY DEF IInv
<1> QED
    BY <1>1, Invariance, PTL

\* The cap on unresolved tickets withstands any number of messages at once.
THEOREM CapIsKept == Spec => []OpenTicketsCapped
<1>1. IInv => OpenTicketsCapped
    BY DEF IInv
<1> QED
    BY <1>1, Invariance, PTL

\* The status of a ticket names the author of its last message.
THEOREM TurnIsTold == Spec => []StatusTellsTurn
<1>1. IInv => StatusTellsTurn
    BY DEF IInv
<1> QED
    BY <1>1, Invariance, PTL

\* Staff is told of a reply only when it was recorded and has been sent.
THEOREM ConfirmedReplies == Spec => []ConfirmedWasShown
<1>1. ASSUME IInv PROVE ConfirmedWasShown
  <2> SUFFICES ASSUME NEW k \in Ticket
               PROVE  confirmed[k] <= shown[k] /\ shown[k] <= Cardinality(Replies(k))
      BY DEF ConfirmedWasShown
  <2>1. /\ Cardinality(Handlers("send", k)) \in Nat
        /\ Cardinality(Handlers("confirm", k)) \in Nat
        /\ Cardinality(Replies(k)) \in Nat
        /\ shown[k] \in Nat /\ confirmed[k] \in Nat /\ RepliesInv(k)
      BY <1>1, Countable DEF IInv, TypeOK
  <2> QED
      BY <2>1 DEF RepliesInv
<1> QED
    BY <1>1, Invariance, PTL

\* Nothing happens to a ticket once it is resolved.
THEOREM ResolvedStays == Spec => ResolvedIsFinal
<1> DEFINE Final == \A k \in Ticket :
                        status[k] = "resolved" =>
                            status'[k] = "resolved" /\ messages'[k] = messages[k]
<1>1. ASSUME IInv, [Next]_vars PROVE [Final]_vars
  <2> SUFFICES ASSUME Next, NEW k \in Ticket, status[k] = "resolved"
               PROVE  status'[k] = "resolved" /\ messages'[k] = messages[k]
      BY <1>1
  <2>1. status \in [Ticket -> {"none", "open", "waiting_customer", "resolved"}]
        /\ DOMAIN messages = Ticket
      BY <1>1 DEF IInv, TypeOK
  <2>2. ASSUME NEW t \in Task, InsertTicket(t)
        PROVE  status'[k] = "resolved" /\ messages'[k] = messages[k]
      BY <2>1, <2>2 DEF InsertTicket
  <2>3. ASSUME NEW j \in Ticket, NEW author, NEW s, Writable(j), Record(j, author, s)
        PROVE  status'[k] = "resolved" /\ messages'[k] = messages[k]
      BY <2>1, <2>3 DEF Writable, Record
  <2>4. ASSUME NEW j \in Ticket, CloseTicket(j)
        PROVE  status'[k] = "resolved" /\ messages'[k] = messages[k]
      BY <2>1, <2>4 DEF CloseTicket
  <2>5. CASE UNCHANGED database
      BY <2>5 DEF database
  <2> QED
      BY <2>2, <2>3, <2>4, <2>5
      DEF Next, SupportStart, Cancel, SupportReceive, CountTickets, ClearState, SendReply,
          ConfirmReply, Abort, AddUserReply, ReplyTicket
<1> QED
    BY <1>1, Invariance, PTL DEF Spec, ResolvedIsFinal
=============================================================================
