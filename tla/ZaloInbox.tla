------------------------------- MODULE ZaloInbox -------------------------------
(***************************************************************************)
(* The Zalo personal conversations of one owner with one customer: what    *)
(* the native listener delivers (zalo-personal.service.ts) and what staff  *)
(* send (message.service.ts, sendOutboundMessage), while the owner leaves  *)
(* one Zalo account and signs in to another (ZaloLifecycle).               *)
(*                                                                         *)
(* Zalo numbers its threads for each account, so a thread of the customer  *)
(* is here the account it belongs to, and a message is known by the        *)
(* account that stored it and its id.  An account may have a friend of the *)
(* customer's name, who is somebody else.  The listener may hand over an   *)
(* event again, and the echoes of what the account sends (selfListen).     *)
(* Texts, media, profiles and previews are left out, and so are groups,    *)
(* conversations older than the field zaloAccountId and what a namesake    *)
(* writes.                                                                 *)
(***************************************************************************)
EXTENDS Naturals, FiniteSets

CONSTANTS
  Deliveries,  \* events handed over by the listener
  Accounts,    \* Zalo accounts of the owner
  NoAccount,
  Heard,       \* messages of the customer
  Said,        \* requests of staff to send, and the messages they become
  MaxTalks     \* bound: conversations ever stored

ASSUME ZaloMessagesAssumption == Heard # {} /\ Heard \cap Said = {} /\ NoAccount \notin Accounts
ASSUME ZaloBounds == MaxTalks \in Nat

VARIABLES
  listener,  \* the account whose native listener runs in this process
  session,   \* ZaloPersonalSession: the account of the connected row
  talk,      \* the Conversation documents: thread, zaloAccountId, unreadCount
  talks,     \* how many there were
  stored,    \* the Message documents by idempotency key: their conversation, or 0
  inbound,   \* those whose senderType is "customer"
  event,     \* a delivery: its control point and what it has read
  reply,     \* a request to send: its control point and what it has read
  record,    \* deliveryStatus of the Message document of a request
  \* history: the account that received or sent a message, the messages whose
  \* count failed, and the conversations ever filed under another account than
  \* their thread's
  origin, slipped, crossed

zaloHistory == <<origin, slipped, crossed>>
zaloDocs == <<talk, talks, stored, inbound>>
zaloVars == <<listener, session, zaloDocs, event, reply, record, zaloHistory>>

Talks == 1..MaxTalks
ZaloMessages == Heard \cup Said
MaybeAccount == Accounts \cup {NoAccount}

\* An account's threads with the customer and with a friend of the same name.
Namesake(account) == <<account, "namesake">>
ThreadsOf(account) == {account, Namesake(account)}
MaybeThread == MaybeAccount \cup {Namesake(a) : a \in Accounts}

ASSUME ThreadsAssumption == NoAccount \notin {Namesake(a) : a \in Accounts}
NoTalk == [thread |-> NoAccount, account |-> NoAccount, unread |-> 0]
FreshEvent == [at |-> "new", m |-> CHOOSE m \in Heard : TRUE, account |-> NoAccount, talk |-> 0]
FreshReply == [at |-> "new", talk |-> 0, thread |-> NoAccount, account |-> NoAccount, via |-> NoAccount]
EventPoints == {"new", "attach", "ingest", "exists", "upsert", "create", "count", "over"}
ReplyPoints == {"new", "client", "resolve", "remap", "deliver", "persist", "refuse", "note", "over"}

\* The types of the documents and of what is under way.
ZaloTypeOK ==
  /\ listener \in MaybeAccount /\ session \in MaybeAccount
  /\ talk \in [Talks -> [thread : MaybeThread, account : MaybeAccount, unread : Nat]]
  /\ talks \in 0..MaxTalks
  /\ stored \in [Accounts \X ZaloMessages -> 0..MaxTalks]
  /\ inbound \subseteq Accounts \X ZaloMessages
  /\ event \in [Deliveries -> [at : EventPoints, m : ZaloMessages, account : MaybeAccount, talk : 0..MaxTalks]]
  /\ reply \in [Said -> [at : ReplyPoints, talk : 0..MaxTalks, thread : MaybeThread,
                         account : MaybeAccount, via : MaybeAccount]]
  /\ record \in [Said -> {"none", "sent", "failed", "pending"}]
  /\ origin \in [ZaloMessages -> MaybeAccount]
  /\ slipped \subseteq Accounts \X ZaloMessages
  /\ crossed \subseteq Talks

ZaloInit ==
  /\ listener = NoAccount /\ session = NoAccount
  /\ talk = [t \in Talks |-> NoTalk] /\ talks = 0
  /\ stored = [key \in Accounts \X ZaloMessages |-> 0] /\ inbound = {}
  /\ event = [d \in Deliveries |-> FreshEvent]
  /\ reply = [r \in Said |-> FreshReply]
  /\ record = [r \in Said |-> "none"]
  /\ origin = [m \in ZaloMessages |-> NoAccount]
  /\ slipped = {} /\ crossed = {}

Keys(t) == {key \in Accounts \X ZaloMessages : stored[key] = t}
TalkOf(thread) == {t \in Talks : talk[t].thread = thread}
-----------------------------------------------------------------------------
(* The session (ZaloLifecycle): the listener of a new login runs before its  *)
(* row is written, a restored one with its row; a logout stops the listener  *)
(* first and then deletes the row.                                           *)

SessionUnchanged == UNCHANGED <<zaloDocs, event, reply, record, zaloHistory>>

StartListening(a) ==
  /\ listener = NoAccount /\ session \in {NoAccount, a}
  /\ listener' = a
  /\ UNCHANGED session /\ SessionUnchanged

SaveSession ==
  /\ listener # NoAccount /\ session = NoAccount
  /\ session' = listener
  /\ UNCHANGED listener /\ SessionUnchanged

StopListening ==
  /\ listener # NoAccount
  /\ listener' = NoAccount
  /\ UNCHANGED session /\ SessionUnchanged

DeleteSession ==
  /\ listener = NoAccount /\ session # NoAccount
  /\ session' = NoAccount
  /\ UNCHANGED listener /\ SessionUnchanged
-----------------------------------------------------------------------------
(* The listener.                                                            *)

EventGoto(d, point) == event' = [event EXCEPT ![d].at = point]
EventEnds(d) == event' = [event EXCEPT ![d] = [FreshEvent EXCEPT !.at = "over"]]
ListenerUnchanged == UNCHANGED <<listener, session, reply, record>>

\* The callback of onMessage: a message of the customer, or an echo.
HandOver(d) ==
  /\ event[d].at = "new" /\ listener # NoAccount
  /\ \E m \in ZaloMessages :
       /\ (m \in Heard /\ origin[m] = NoAccount) \/ origin[m] = listener
       /\ origin' = [origin EXCEPT ![m] = listener]
       /\ event' = [event EXCEPT ![d].at = "attach", ![d].m = m]
  /\ ListenerUnchanged /\ UNCHANGED <<zaloDocs, slipped, crossed>>

\* normalizeZaloPersonalMessage: the sender is the account of the session.
IsSelf(m) == m \in Said /\ origin[m] = session

\* The session is read, and what the account itself wrote is left alone.
Attach(d) ==
  /\ event[d].at = "attach"
  /\ IF session = NoAccount \/ IsSelf(event[d].m) THEN EventEnds(d) ELSE EventGoto(d, "ingest")
  /\ ListenerUnchanged /\ UNCHANGED <<zaloDocs, zaloHistory>>

\* ingestZaloPersonalMessage reads the session again.
ReadSession(d) ==
  /\ event[d].at = "ingest"
  /\ IF session = NoAccount
     THEN EventEnds(d)
     ELSE event' = [event EXCEPT ![d].at = "exists", ![d].account = session]
  /\ ListenerUnchanged /\ UNCHANGED <<zaloDocs, zaloHistory>>

\* The idempotency key; no step of another key sees the message.
Key(d) == <<event[d].account, event[d].m>>

SkipReplay(d) ==
  /\ event[d].at = "exists"
  /\ IF stored[Key(d)] # 0 THEN EventEnds(d) ELSE EventGoto(d, "upsert")
  /\ ListenerUnchanged /\ UNCHANGED <<zaloDocs, zaloHistory>>

\* The thread of an event.
ThreadOf(m) == IF m \in Heard THEN origin[m] ELSE reply[m].thread

\* The upsert by platform, thread and owner, which files the conversation under
\* the account that was read.
UpsertTalk(d) ==
  LET thread == ThreadOf(event[d].m)
      account == event[d].account
      Files(t) ==
        /\ event' = [event EXCEPT ![d].at = "create", ![d].talk = t]
        /\ crossed' = IF thread \in ThreadsOf(account) THEN crossed ELSE crossed \cup {t}
  IN /\ event[d].at = "upsert"
  /\ \/ \E t \in TalkOf(thread) :
          Files(t) /\ talk' = [talk EXCEPT ![t].account = account] /\ UNCHANGED talks
     \/ /\ TalkOf(thread) = {} /\ talks < MaxTalks
        /\ talks' = talks + 1
        /\ talk' = [talk EXCEPT ![talks'] = [thread |-> thread, account |-> account, unread |-> 0]]
        /\ Files(talks')
     \/ EventEnds(d) /\ UNCHANGED <<talk, talks, crossed>>
  /\ ListenerUnchanged /\ UNCHANGED <<stored, inbound, origin, slipped>>

\* As a mutant of CreateMessage: the unique index is not there.
CreateAgain(d) ==
  /\ event[d].at = "create"
  /\ stored' = [stored EXCEPT ![Key(d)] = event[d].talk]
  /\ inbound' = inbound \cup {Key(d)}
  /\ EventGoto(d, "count")
  /\ ListenerUnchanged /\ UNCHANGED <<talk, talks, zaloHistory>>

\* Message.create: the unique index stops a replay that passed the first check.
CreateMessage(d) ==
  /\ event[d].at = "create"
  /\ \/ /\ stored[Key(d)] = 0
        /\ stored' = [stored EXCEPT ![Key(d)] = event[d].talk]
        /\ inbound' = inbound \cup {Key(d)}
        /\ EventGoto(d, "count")
     \/ EventEnds(d) /\ UNCHANGED <<stored, inbound>>
  /\ ListenerUnchanged /\ UNCHANGED <<talk, talks, zaloHistory>>

\* The update of the conversation, if it is still there; it may fail.  After it
\* the bot is asked (BotReply), whose errors are swallowed.
CountMessage(d) ==
  LET t == event[d].talk IN
  /\ event[d].at = "count"
  /\ \/ /\ talk[t].thread # NoAccount
        /\ talk' = [talk EXCEPT ![t].unread = @ + 1]
        /\ EventEnds(d) /\ UNCHANGED slipped
     \/ /\ EventEnds(d)
        /\ slipped' = IF stored[Key(d)] = t THEN slipped \cup {Key(d)} ELSE slipped
        /\ UNCHANGED talk
  /\ ListenerUnchanged /\ UNCHANGED <<talks, stored, inbound, origin, crossed>>

-----------------------------------------------------------------------------
(* sendOutboundMessage.                                                     *)

ReplyGoto(r, point) == reply' = [reply EXCEPT ![r].at = point]
ReplyUnchanged == UNCHANGED <<listener, session, event, slipped>>

\* The conversation is read, then the bot paused, which may fail.
AskReply(r) ==
  /\ reply[r].at = "new"
  /\ \E t \in Talks :
       /\ talk[t].thread # NoAccount
       /\ reply' = [reply EXCEPT ![r] = [at |-> "client", talk |-> t, thread |-> talk[t].thread,
                                         account |-> talk[t].account, via |-> NoAccount]]
  /\ ReplyUnchanged /\ UNCHANGED <<zaloDocs, record, origin, crossed>>

\* getActiveZaloPersonalClient and getAccountInfo: without a client the request
\* is refused; the account may not answer.
TakeClient(r) ==
  /\ reply[r].at = "client"
  /\ \/ /\ listener # NoAccount /\ session = listener
        /\ reply' = [reply EXCEPT ![r].at = "resolve", ![r].via = listener]
     \/ ReplyGoto(r, "refuse")
     \/ ReplyGoto(r, "note")
  /\ ReplyUnchanged /\ UNCHANGED <<zaloDocs, record, origin, crossed>>

\* As a mutant of BelongsTo: the account of the conversation is not looked at.
BelongsToAny(r, account) == account \in Accounts /\ reply[r].at = "resolve"

\* The conversation is of the account that will send.
BelongsTo(r, account) == reply[r].account = account

\* Another account may have one friend of the customer's name; else the request
\* is refused.
ResolveAccount(r) ==
  /\ reply[r].at = "resolve"
  /\ IF BelongsTo(r, reply[r].via)
     THEN ReplyGoto(r, "deliver")
     ELSE \E point \in {"remap", "refuse", "note"} : ReplyGoto(r, point)
  /\ ReplyUnchanged /\ UNCHANGED <<zaloDocs, record, origin, crossed>>

\* findUserIdByName has compared display names, no more.  The conversation moves
\* to the thread of the friend who was found, unless another conversation has it
\* (the unique index).
Remap(r) ==
  LET t == reply[r].talk
      via == reply[r].via
  IN
  /\ reply[r].at = "remap"
  /\ \E found \in ThreadsOf(via) :
       IF TalkOf(found) \subseteq {t}
       THEN /\ reply' = [reply EXCEPT ![r].at = "deliver", ![r].thread = found]
            /\ talk' = IF talk[t].thread = NoAccount THEN talk
                       ELSE [talk EXCEPT ![t].thread = found, ![t].account = via]
       ELSE ReplyGoto(r, "note") /\ UNCHANGED talk
  /\ ReplyUnchanged /\ UNCHANGED <<talks, stored, inbound, record, origin, crossed>>

\* Zalo takes the message and answers; or it does not, or the answer is lost.
DeliverOut(r) ==
  /\ reply[r].at = "deliver"
  /\ \/ origin' = [origin EXCEPT ![r] = reply[r].via] /\ (ReplyGoto(r, "persist") \/ ReplyGoto(r, "note"))
     \/ UNCHANGED origin /\ ReplyGoto(r, "note")
  /\ ReplyUnchanged /\ UNCHANGED <<zaloDocs, record, crossed>>

\* As a mutant of OutcomeUnknown: an error of the connector counts as a refusal.
OutcomeFailed == "failed"

\* message.service.ts:294: nobody knows whether Zalo took it.
OutcomeUnknown == "pending"

\* The row of a request that did not succeed, which may fail to be written.
NoteOutcome(r) ==
  /\ reply[r].at \in {"refuse", "note"}
  /\ \/ record' = [record EXCEPT ![r] = IF reply[r].at = "refuse" THEN "failed" ELSE OutcomeUnknown]
     \/ UNCHANGED record
  /\ ReplyGoto(r, "over")
  /\ ReplyUnchanged /\ UNCHANGED <<zaloDocs, origin, crossed>>

\* persistZaloOutboundMessage: the row, or the row of an echo taken for a
\* message of the customer; the write may fail.
PersistOut(r) ==
  LET key == <<reply[r].via, r>> IN
  /\ reply[r].at = "persist"
  /\ ReplyGoto(r, "over")
  /\ \/ /\ record' = [record EXCEPT ![r] = "sent"]
        /\ stored' = [stored EXCEPT ![key] = IF @ = 0 THEN reply[r].talk ELSE @]
     \/ UNCHANGED <<record, stored>>
  /\ ReplyUnchanged /\ UNCHANGED <<talk, talks, inbound, origin, crossed>>
-----------------------------------------------------------------------------
\* The bulk action "delete", in one transaction (conversation.service.ts).
DeleteTalk(t) ==
  /\ talk[t].thread # NoAccount
  /\ talk' = [talk EXCEPT ![t] = NoTalk]
  /\ stored' = [key \in DOMAIN stored |-> IF stored[key] = t THEN 0 ELSE stored[key]]
  /\ inbound' = inbound \ Keys(t) /\ slipped' = slipped \ Keys(t)
  /\ UNCHANGED <<talks, listener, session, event, reply, record, origin, crossed>>

DeliveryStep(d) ==
  \/ HandOver(d) \/ Attach(d) \/ ReadSession(d) \/ SkipReplay(d)
  \/ UpsertTalk(d) \/ CreateMessage(d) \/ CountMessage(d)

ReplyStep(r) ==
  \/ AskReply(r) \/ TakeClient(r) \/ ResolveAccount(r) \/ Remap(r)
  \/ DeliverOut(r) \/ NoteOutcome(r) \/ PersistOut(r)

ZaloNext ==
  \/ \E a \in Accounts : StartListening(a)
  \/ SaveSession \/ StopListening \/ DeleteSession
  \/ \E d \in Deliveries : DeliveryStep(d)
  \/ \E r \in Said : ReplyStep(r)
  \/ \E t \in Talks : DeleteTalk(t)

ZaloSpec == ZaloInit /\ [][ZaloNext]_zaloVars
-----------------------------------------------------------------------------
(* What must hold.                                                          *)

BeingCounted(t) == {Key(d) : d \in {d \in Deliveries : event[d].at = "count" /\ event[d].talk = t}}

\* zalo-personal.service.ts:545: the badge counts each stored message once, but
\* for those being counted and those whose count failed.
ZaloUnreadIsExact ==
  \A t \in Talks : talk[t].thread # NoAccount =>
    talk[t].unread = Cardinality(((Keys(t) \cap inbound) \ slipped) \ BeingCounted(t))

\* message.service.ts:123 and :294: a request stored as sent was taken by Zalo
\* and one stored as failed was not.
RecordsAreTrue ==
  \A r \in Said :
    /\ record[r] = "sent" => origin[r] # NoAccount
    /\ record[r] = "failed" => origin[r] = NoAccount

\* message.service.ts:241: what is sent goes to a thread of the account that
\* sends it, whichever account was signed in when the conversation was read:
\* the customer's, or that of the one friend who bears the customer's name.  That
\* it is the customer's is false of the code, which compares display names.
AddresseeIsRight ==
  \A r \in Said : origin[r] # NoAccount =>
    reply[r].thread \in ThreadsOf(origin[r]) \/ reply[r].talk \in crossed
=============================================================================
