---------------------------- MODULE MessengerInbox ----------------------------
(***************************************************************************)
(* The Messenger conversation of one customer with one Page: Meta's        *)
(* webhook calls (facebook-messenger.webhook.ts) store what the customer   *)
(* writes and the echoes of what the Page writes, staff reply              *)
(* (message.service.ts, sendOutboundMessage), and the inbox marks the      *)
(* conversation read or unread or deletes it (conversation.service.ts).    *)
(*                                                                         *)
(* A message is its id at Meta.  Meta may deliver an event any number of   *)
(* times, in any order and in several calls at once.  A MongoDB            *)
(* transaction is one step.  Texts, media, previews and lastMessageAt are  *)
(* left out; the bot is off in these conversations.                        *)
(***************************************************************************)
EXTENDS Naturals, Sequences, FiniteSets

CONSTANTS
  Calls,    \* calls of the webhook
  Inbound,  \* messages of the customer
  Replies,  \* requests of staff to send, and the messages they become
  MaxBatch, \* bound: events in one call
  MaxConvs  \* bound: how often the conversation is created

ASSUME MessagesAssumption == Inbound \cap Replies = {} /\ IsFiniteSet(Inbound)
ASSUME MessengerBounds == MaxBatch \in Nat /\ MaxConvs \in Nat

VARIABLES
  connected, \* FacebookPageConnection: the Page belongs to an owner
  conv,      \* the Conversation document: its serial number, 0 for none
  row,       \* the Message documents: the conversation they are in, 0 for none
  call,      \* a webhook call: its control point and the events left to store
  send,      \* a request to send: its control point and its conversation
  accepted,  \* replies that Meta took
  \* history: what the last read mark covered, whether it was an unread mark,
  \* and what a deletion of the conversation removed
  covered, marked, erased

messengerMarks == <<covered, marked, erased>>
messengerVars == <<connected, conv, row, call, send, accepted, messengerMarks>>

TheMessages == Inbound \cup Replies
NoConv == [id |-> 0, unread |-> 0, made |-> 0]
CallPoints == {"new", "owner", "store", "over"}
SendPoints == {"new", "pause", "check", "deliver", "persist", "lookup", "sent", "failed"}
Batches ==
  UNION {{s \in [1..n -> TheMessages] : \A i, j \in 1..n : s[i] = s[j] => i = j} : n \in 1..MaxBatch}

\* The types of the documents and of the requests.
MessengerTypeOK ==
  /\ connected \in BOOLEAN
  /\ conv \in [id : 0..MaxConvs, unread : 0..(Cardinality(Inbound) + 1), made : 0..MaxConvs]
  /\ row \in [TheMessages -> 0..MaxConvs]
  /\ call \in [Calls -> [at : CallPoints, queue : Seq(TheMessages)]]
  /\ send \in [Replies -> [at : SendPoints, conv : 0..MaxConvs]]
  /\ accepted \subseteq Replies
  /\ covered \subseteq Inbound
  /\ marked \in BOOLEAN
  /\ erased \subseteq TheMessages

MessengerInit ==
  /\ connected = TRUE
  /\ conv = NoConv
  /\ row = [m \in TheMessages |-> 0]
  /\ call = [k \in Calls |-> [at |-> "new", queue |-> <<>>]]
  /\ send = [r \in Replies |-> [at |-> "new", conv |-> 0]]
  /\ accepted = {}
  /\ covered = {}
  /\ marked = FALSE
  /\ erased = {}

In(c) == {m \in TheMessages : row[m] = c}
-----------------------------------------------------------------------------
(* The webhook.                                                             *)

CallGoto(k, point, queue) == call' = [call EXCEPT ![k] = [at |-> point, queue |-> queue]]
CallEnds(k) == CallGoto(k, "over", <<>>)

\* POST of some events: echoes only of what Meta accepted.
ReceiveCall(k) ==
  /\ call[k].at = "new"
  /\ \E queue \in Batches :
       /\ \A i \in DOMAIN queue : queue[i] \in Inbound \cup accepted
       /\ CallGoto(k, "owner", queue)
  /\ UNCHANGED <<connected, conv, row, send, accepted, messengerMarks>>

\* resolveOwner, once a call: without an owner the events are dropped.
ResolveOwner(k) ==
  /\ call[k].at = "owner"
  /\ \/ connected /\ CallGoto(k, "store", call[k].queue)
     \/ CallEnds(k)
  /\ UNCHANGED <<connected, conv, row, send, accepted, messengerMarks>>

IsNew(m) == row[m] = 0

\* As a mutant of CountsAsUnread: an echo counts like any message.
CountsAll(m) == m \in TheMessages

CountsAsUnread(m) == m \in Inbound

\* The upsert of the conversation.
MayUpsert == conv.id # 0 \/ conv.made < MaxConvs
Upserted == IF conv.id # 0 THEN conv
            ELSE [id |-> conv.made + 1, unread |-> 0, made |-> conv.made + 1]

NextEvent(k) ==
  IF Len(call[k].queue) = 1 THEN CallEnds(k) ELSE CallGoto(k, "store", Tail(call[k].queue))

\* persistMessengerMessage: the transaction stores a new message and counts it,
\* and a duplicate is ignored.  Its answer may be lost after it was committed;
\* an error ends the call, for Meta to try again.
StoreEvent(k) ==
  LET m == Head(call[k].queue) IN
  /\ call[k].at = "store"
  /\ \/ /\ IsNew(m) /\ MayUpsert
        /\ row' = [row EXCEPT ![m] = Upserted.id]
        /\ conv' = [Upserted EXCEPT !.unread = IF CountsAsUnread(m) THEN @ + 1 ELSE @]
        /\ NextEvent(k) \/ CallEnds(k)
        /\ IF conv.id = 0 THEN covered' = {} /\ marked' = FALSE ELSE UNCHANGED <<covered, marked>>
     \/ ~IsNew(m) /\ NextEvent(k) /\ UNCHANGED <<conv, row, covered, marked>>
     \/ CallEnds(k) /\ UNCHANGED <<conv, row, covered, marked>>
  /\ UNCHANGED <<connected, send, accepted, erased>>

\* The Page is removed, or connected again (FacebookPages).
PageChanges ==
  /\ connected' = ~connected
  /\ UNCHANGED <<conv, row, call, send, accepted, messengerMarks>>
-----------------------------------------------------------------------------
(* sendOutboundMessage.                                                     *)

SendGoto(r, point) == send' = [send EXCEPT ![r].at = point]

\* Access to a conversation that exists.
AskSend(r) ==
  /\ send[r].at = "new" /\ conv.id # 0
  /\ send' = [send EXCEPT ![r] = [at |-> "pause", conv |-> conv.id]]
  /\ UNCHANGED <<connected, conv, row, call, accepted, messengerMarks>>

\* pauseBot (BotReply), which may find the conversation busy.
PauseForSend(r) ==
  /\ send[r].at = "pause"
  /\ SendGoto(r, "check") \/ SendGoto(r, "failed")
  /\ UNCHANGED <<connected, conv, row, call, accepted, messengerMarks>>

\* The customer has written in the last 24 hours and the Page is connected.
CheckWindow(r) ==
  /\ send[r].at = "check"
  /\ \/ connected /\ In(send[r].conv) \cap Inbound # {} /\ SendGoto(r, "deliver")
     \/ SendGoto(r, "failed")
  /\ UNCHANGED <<connected, conv, row, call, accepted, messengerMarks>>

\* Meta takes the reply and answers; or it does not, or the answer is lost.
DeliverReply(r) ==
  /\ send[r].at = "deliver"
  /\ \/ accepted' = accepted \cup {r} /\ (SendGoto(r, "persist") \/ SendGoto(r, "failed"))
     \/ UNCHANGED accepted /\ SendGoto(r, "failed")
  /\ UNCHANGED <<connected, conv, row, call, messengerMarks>>

\* persistFacebookOutboundMessage and the update of the conversation: a new
\* row, or the row of the echo; either write may fail.
PersistReply(r) ==
  /\ send[r].at = "persist"
  /\ \/ /\ row[r] = 0
        /\ row' = [row EXCEPT ![r] = send[r].conv]
        /\ SendGoto(r, "sent") \/ SendGoto(r, "failed")
     \/ row[r] # 0 /\ SendGoto(r, "lookup") /\ UNCHANGED row
     \/ SendGoto(r, "failed") /\ UNCHANGED row
  /\ UNCHANGED <<connected, conv, call, accepted, messengerMarks>>

\* The row that made the insert fail, if it is still there.
FindEcho(r) ==
  /\ send[r].at = "lookup"
  /\ \/ row[r] # 0 /\ SendGoto(r, "sent")
     \/ SendGoto(r, "failed")
  /\ UNCHANGED <<connected, conv, row, call, accepted, messengerMarks>>
-----------------------------------------------------------------------------
(* The inbox.                                                               *)

\* markConversationRead and the bulk action "read"; the bulk action "unread".
MarkRead ==
  /\ conv.id # 0
  /\ conv' = [conv EXCEPT !.unread = 0]
  /\ covered' = In(conv.id) \cap Inbound
  /\ marked' = FALSE
  /\ UNCHANGED <<connected, row, call, send, accepted, erased>>

MarkUnread ==
  /\ conv.id # 0
  /\ conv' = [conv EXCEPT !.unread = 1]
  /\ covered' = In(conv.id) \cap Inbound
  /\ marked' = TRUE
  /\ UNCHANGED <<connected, row, call, send, accepted, erased>>

\* The bulk action "delete": messages, notes, claims and conversation in one
\* transaction.
DeleteThread ==
  /\ conv.id # 0
  /\ conv' = [conv EXCEPT !.id = 0, !.unread = 0]
  /\ row' = [m \in TheMessages |-> IF row[m] = conv.id THEN 0 ELSE row[m]]
  /\ erased' = erased \cup In(conv.id)
  /\ UNCHANGED <<connected, call, send, accepted, covered, marked>>

WebhookStep(k) == ReceiveCall(k) \/ ResolveOwner(k) \/ StoreEvent(k)

SendStep(r) ==
  \/ AskSend(r) \/ PauseForSend(r) \/ CheckWindow(r) \/ DeliverReply(r)
  \/ PersistReply(r) \/ FindEcho(r)

MessengerNext ==
  \/ \E k \in Calls : WebhookStep(k)
  \/ \E r \in Replies : SendStep(r)
  \/ MarkRead \/ MarkUnread \/ DeleteThread \/ PageChanges

MessengerSpec == MessengerInit /\ [][MessengerNext]_messengerVars
-----------------------------------------------------------------------------
(* What must hold.                                                          *)

\* facebook-messenger.webhook.ts:29: the badge counts the customer's messages
\* since the last mark exactly, however often Meta delivers an event, whatever
\* fails and whoever deletes the conversation in between.
UnreadIsExact ==
  conv.id # 0 =>
    conv.unread = (IF marked THEN 1 ELSE 0)
                  + Cardinality((In(conv.id) \cap Inbound) \ covered)

\* message.service.ts:363: a reply reported as sent was taken by Meta and is in
\* the inbox, whether its own row or its echo came first, unless it was deleted
\* since; and no reply is in the inbox that Meta did not take.
RepliesAreTrue ==
  /\ \A r \in Replies : send[r].at = "sent" => row[r] # 0 \/ r \in erased
  /\ \A r \in Replies : row[r] # 0 => r \in accepted
=============================================================================
