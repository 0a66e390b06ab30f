-------------------------------- MODULE Support --------------------------------
(***************************************************************************)
(* Support tickets (app/services/support.py) with the Telegram handlers    *)
(* that call them (app/bot/handlers/support.py and admin.py).              *)
(*                                                                         *)
(* The dispatcher isolates events by user and chat (app/bot/setup.py): the *)
(* handlers of one chat take turns, those of several chats, of one user    *)
(* included, run concurrently.  Opening a ticket locks the user, counts    *)
(* and inserts; answering and closing lock ticket and user in one query.   *)
(* Messages go out after the commit.                                       *)
(***************************************************************************)
EXTENDS Naturals, Sequences, FiniteSets

CONSTANTS
    Customer,    \* users
    Chat,        \* chats in which customers talk to the bot
    Owner,       \* the customer of each chat
    Ticket,      \* public codes of tickets that may be opened
    Task,        \* running handlers
    None,        \* no owner, nothing to work on
    MaxOpen,     \* settings.max_open_tickets_per_user
    MaxMessages  \* bound: messages recorded in a ticket

ASSUME SetsAssumption ==
    /\ IsFiniteSet(Ticket) /\ IsFiniteSet(Task) /\ Owner \in [Chat -> Customer]
    /\ None \notin Customer \cup Chat \cup Ticket /\ Chat \cap Ticket = {}
ASSUME BoundAssumption == MaxOpen \in Nat \ {0} /\ MaxMessages \in Nat \ {0}

VARIABLES
    status,    \* support_tickets.status
    owner,     \* support_tickets.user_id
    messages,  \* authors of each ticket's messages, oldest first
    fsm,       \* chats in the state waiting_message
    pc,        \* the next step of each handler
    on,        \* the chat or the ticket it works on
    shown,     \* replies that have reached the customer, per ticket
    confirmed  \* replies the administrator was told are sent, per ticket

database == <<status, owner, messages>>
tasks    == <<pc, on>>
chats    == <<shown, confirmed>>
vars     == <<database, fsm, tasks, chats>>

TypeOK ==
    /\ status \in [Ticket -> {"none", "open", "waiting_customer", "resolved"}]
    /\ owner \in [Ticket -> Customer \cup {None}]
    /\ messages \in [Ticket -> Seq({"user", "admin"})]
    /\ fsm \subseteq Chat
    /\ pc \in [Task -> {"idle", "create", "insert", "clear", "send", "confirm"}]
    /\ on \in [Task -> Chat \cup Ticket \cup {None}]
    /\ shown \in [Ticket -> Nat]
    /\ confirmed \in [Ticket -> Nat]
    /\ \A k \in Ticket : status[k] = "none" <=> messages[k] = <<>>

Init ==
    /\ status = [k \in Ticket |-> "none"]
    /\ owner = [k \in Ticket |-> None]
    /\ messages = [k \in Ticket |-> <<>>]
    /\ fsm = {}
    /\ pc = [t \in Task |-> "idle"]
    /\ on = [t \in Task |-> None]
    /\ shown = [k \in Ticket |-> 0]
    /\ confirmed = [k \in Ticket |-> 0]

Goto(t, step, x) ==
    /\ pc' = [pc EXCEPT ![t] = step]
    /\ on' = [on EXCEPT ![t] = x]

Begin(t, step, x) == pc[t] = "idle" /\ Goto(t, step, x)

Return(t) == Goto(t, "idle", None)

\* The row of user c is not locked: no ticket of his is being inserted.
UserFree(c) == \A t \in Task : ~(pc[t] = "insert" /\ Owner[on[t]] = c)

Unresolved(c) == {k \in Ticket : owner[k] = c /\ status[k] # "resolved"}

-----------------------------------------------------------------------------
(* The customer.                                                           *)

SupportStart(h) ==
    /\ \A t \in Task : on[t] # h
    /\ fsm' = fsm \cup {h}
    /\ UNCHANGED <<database, tasks, chats>>

Cancel(h) ==
    /\ \A t \in Task : on[t] # h
    /\ fsm' = fsm \ {h}
    /\ UNCHANGED <<database, tasks, chats>>

\* A message that finds its chat in this state opens a ticket.
SupportReceive(t, h) ==
    /\ h \in fsm
    /\ \A u \in Task : on[u] # h
    /\ Begin(t, "create", h)
    /\ UNCHANGED <<database, fsm, chats>>

MayOpen(c) == Cardinality(Unresolved(c)) < MaxOpen

\* A bug the checks must catch: the user is not locked.
CountTicketsUnlocked(t) ==
    /\ pc[t] = "create"
    /\ IF MayOpen(Owner[on[t]]) THEN Goto(t, "insert", on[t]) ELSE Return(t)
    /\ UNCHANGED <<database, fsm, chats>>

\* Refused, the chat stays in its state and the customer may try again.
CountTickets(t) ==
    /\ pc[t] = "create"
    /\ UserFree(Owner[on[t]])
    /\ IF MayOpen(Owner[on[t]]) THEN Goto(t, "insert", on[t]) ELSE Return(t)
    /\ UNCHANGED <<database, fsm, chats>>

InsertTicket(t) ==
    /\ pc[t] = "insert"
    /\ \E k \in Ticket :
          /\ status[k] = "none"
          /\ status' = [status EXCEPT ![k] = "open"]
          /\ owner' = [owner EXCEPT ![k] = Owner[on[t]]]
          /\ messages' = [messages EXCEPT ![k] = <<"user">>]
    /\ Goto(t, "clear", on[t])
    /\ UNCHANGED <<fsm, chats>>

ClearState(t) ==
    /\ pc[t] = "clear"
    /\ fsm' = fsm \ {on[t]}
    /\ Return(t)
    /\ UNCHANGED <<database, chats>>

\* What a new message does to its ticket.
Record(k, author, s) ==
    /\ Len(messages[k]) < MaxMessages
    /\ messages' = [messages EXCEPT ![k] = Append(@, author)]
    /\ status' = [status EXCEPT ![k] = s]
    /\ UNCHANGED owner

\* A ticket that may still be written to.
Writable(k) == status[k] \notin {"none", "resolved"} /\ UserFree(owner[k])

\* A bug the checks must catch: an answer does not reopen the ticket for staff.
AddUserReplyWaiting(k) ==
    /\ Writable(k)
    /\ Record(k, "user", status[k])
    /\ UNCHANGED <<fsm, tasks, chats>>

AddUserReply(k) ==
    /\ Writable(k)
    /\ Record(k, "user", "open")
    /\ UNCHANGED <<fsm, tasks, chats>>

-----------------------------------------------------------------------------
(* The administrator.                                                      *)

\* A bug the checks must catch: a reply reopens a resolved ticket.
ReplyTicketResolved(t, k) ==
    /\ status[k] # "none" /\ UserFree(owner[k])
    /\ Record(k, "admin", "waiting_customer")
    /\ Begin(t, "send", k)
    /\ UNCHANGED <<fsm, chats>>

ReplyTicket(t, k) ==
    /\ Writable(k)
    /\ Record(k, "admin", "waiting_customer")
    /\ Begin(t, "send", k)
    /\ UNCHANGED <<fsm, chats>>

\* A bug the checks must catch: failures to send are passed over, as they are
\* when staff is notified.
SendReplyUnnoticed(t) ==
    /\ pc[t] = "send"
    /\ UNCHANGED shown \/ shown' = [shown EXCEPT ![on[t]] = @ + 1]
    /\ Goto(t, "confirm", on[t])
    /\ UNCHANGED <<database, fsm, confirmed>>

\* An exception ends the handler: the reply stays recorded and unsent.
SendReply(t) ==
    /\ pc[t] = "send"
    /\ \/ shown' = [shown EXCEPT ![on[t]] = @ + 1] /\ Goto(t, "confirm", on[t])
       \/ UNCHANGED shown /\ Return(t)
    /\ UNCHANGED <<database, fsm, confirmed>>

ConfirmReply(t) ==
    /\ pc[t] = "confirm"
    /\ confirmed' = [confirmed EXCEPT ![on[t]] = @ + 1]
    /\ Return(t)
    /\ UNCHANGED <<database, fsm, shown>>

CloseTicket(k) ==
    /\ status[k] # "none" /\ UserFree(owner[k])
    /\ status' = [status EXCEPT ![k] = "resolved"]
    /\ UNCHANGED <<owner, messages, fsm, tasks, chats>>

\* A restart or a lost connection; a transaction under way rolls back.  Kept in
\* memory, the states of the chats are forgotten at a restart.
Abort(t) ==
    /\ pc[t] # "idle"
    /\ Return(t)
    /\ UNCHANGED <<database, chats>>
    /\ fsm' \in {fsm, {}}

Next ==
    \/ \E h \in Chat : SupportStart(h) \/ Cancel(h)
    \/ \E t \in Task, h \in Chat : SupportReceive(t, h)
    \/ \E t \in Task :
          \/ CountTickets(t) \/ InsertTicket(t) \/ ClearState(t)
          \/ SendReply(t) \/ ConfirmReply(t)
          \/ Abort(t)
    \/ \E k \in Ticket : AddUserReply(k) \/ CloseTicket(k)
    \/ \E t \in Task, k \in Ticket : ReplyTicket(t, k)

Spec == Init /\ [][Next]_vars

-----------------------------------------------------------------------------
(* Properties.                                                             *)

\* However many messages are handled at once, a customer has no more than
\* max_open_tickets_per_user unresolved tickets.
OpenTicketsCapped == \A c \in Customer : Cardinality(Unresolved(c)) <= MaxOpen

\* The status tells whose turn it is: a ticket waits for the customer exactly
\* when the last word is the shop's, whatever order replies commit in.
StatusTellsTurn ==
    \A k \in Ticket :
        /\ status[k] = "open" => messages[k][Len(messages[k])] = "user"
        /\ status[k] = "waiting_customer" => messages[k][Len(messages[k])] = "admin"

\* A resolved ticket stays resolved and takes no message, not even from a reply
\* typed while it was being closed.
ResolvedIsFinal ==
    [][\A k \in Ticket :
          status[k] = "resolved" =>
              status'[k] = "resolved" /\ messages'[k] = messages[k]]_vars

Replies(k) == {i \in DOMAIN messages[k] : messages[k][i] = "admin"}

\* The administrator reads "Resposta enviada." (admin.py:107) only for a reply
\* that was recorded and has reached the customer.
ConfirmedWasShown ==
    \A k \in Ticket :
        /\ confirmed[k] <= shown[k]
        /\ shown[k] <= Cardinality(Replies(k))

-----------------------------------------------------------------------------
(* The inductive invariant behind the safety properties.                   *)

\* The row lock of the user is what keeps the count true until the insertion.
HandlerInv(t) ==
    /\ pc[t] \in {"create", "insert", "clear"} => on[t] \in Chat
    /\ pc[t] \in {"send", "confirm"} => on[t] \in Ticket
    /\ pc[t] = "insert" => MayOpen(Owner[on[t]])

OneInserter ==
    \A t, u \in Task :
        t # u /\ pc[t] = "insert" /\ pc[u] = "insert" => Owner[on[t]] # Owner[on[u]]

\* Every reply that is on its way was recorded, and is confirmed at most once.
Handlers(step, k) == {t \in Task : pc[t] = step /\ on[t] = k}

RepliesInv(k) ==
    /\ confirmed[k] + Cardinality(Handlers("confirm", k)) <= shown[k]
    /\ shown[k] + Cardinality(Handlers("send", k)) <= Cardinality(Replies(k))

IInv ==
    /\ TypeOK
    /\ \A t \in Task : HandlerInv(t)
    /\ OneInserter
    /\ OpenTicketsCapped
    /\ StatusTellsTurn
    /\ \A k \in Ticket : RepliesInv(k)
=============================================================================
