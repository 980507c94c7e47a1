----------------------------- MODULE TelegramBot -----------------------------
(***************************************************************************)
(* The Telegram bot of the installation (telegram.service.ts): its         *)
(* registration, and the updates its webhook brings to one chat.           *)
(*                                                                         *)
(* An update is stored in steps without a transaction; Telegram delivers   *)
(* it again until a call ends well.  What follows the call of the bot is   *)
(* BotReply.  The deletion of the conversation is in MessengerInbox.       *)
(***************************************************************************)
EXTENDS Naturals, FiniteSets

CONSTANTS
  Updates,  \* updates with a message of the chat
  BotCalls, \* calls of the webhook, and requests to register or disconnect
  Admins,   \* who may register the bot
  NoUpdate, \* no update, and no owner
  MaxNumber \* bound: bot tokens that are stored

ASSUME UpdateAssumption == NoUpdate \notin Updates \cup Admins /\ IsFiniteSet(Updates)
ASSUME BotBounds == MaxNumber \in Nat

VARIABLES
  secret,  \* the ProviderSecret document: its number, 0 for none, and its owner
  webhook, \* Telegram calls us
  chat,    \* the Conversation document
  kept,    \* the Message documents
  bot,     \* a call or request: its control point, and what it remembers
  effect   \* history: how often an update was counted, and went to the bot

registrationVars == <<secret, webhook>>
botVars == <<registrationVars, chat, kept, bot, effect>>

NoSecret == [number |-> 0, owner |-> NoUpdate, last |-> 0]
NoWork == [at |-> "new", update |-> NoUpdate, owner |-> NoUpdate, number |-> 0]
IngestPoints == {"exists", "registration", "upsert", "create", "count", "answer"}
BotPoints == IngestPoints \cup {"new", "setWebhook", "removeWebhook", "deleteSecret", "over"}

\* The types of the documents and of the calls.
BotTypeOK ==
  /\ secret \in [number : 0..MaxNumber, owner : Admins \cup {NoUpdate}, last : 0..MaxNumber]
  /\ webhook \in BOOLEAN
  /\ chat \in [known : BOOLEAN, owner : Admins \cup {NoUpdate}, unread : 0..Cardinality(Updates)]
  /\ kept \subseteq Updates
  /\ bot \in [BotCalls -> [at : BotPoints, update : Updates \cup {NoUpdate},
                           owner : Admins \cup {NoUpdate}, number : 0..MaxNumber]]
  /\ effect \in [Updates -> [counted : Nat, answered : Nat]]

BotInit ==
  /\ secret = NoSecret
  /\ webhook = FALSE
  /\ chat = [known |-> FALSE, owner |-> NoUpdate, unread |-> 0]
  /\ kept = {}
  /\ bot = [k \in BotCalls |-> NoWork]
  /\ effect = [u \in Updates |-> [counted |-> 0, answered |-> 0]]

BotGoto(k, point) == bot' = [bot EXCEPT ![k].at = point]
-----------------------------------------------------------------------------
(* Registration.                                                            *)

\* registerTelegramChannel: the token is stored, unless there is one; then
\* Telegram is told.  A failure in between leaves the token.
Register(k, a) ==
  /\ bot[k].at = "new"
  /\ \/ /\ secret.number = 0 /\ secret.last < MaxNumber
        /\ secret' = [number |-> secret.last + 1, owner |-> a, last |-> secret.last + 1]
        /\ BotGoto(k, "setWebhook")
     \/ BotGoto(k, "over") /\ UNCHANGED secret
  /\ UNCHANGED <<webhook, chat, kept, effect>>

SetWebhook(k) ==
  /\ bot[k].at = "setWebhook"
  /\ webhook' \in {TRUE, webhook}
  /\ BotGoto(k, "over")
  /\ UNCHANGED <<secret, chat, kept, effect>>

\* disconnectTelegramChannel: Telegram first, then the token that was read.
Disconnect(k) ==
  /\ bot[k].at = "new"
  /\ secret.number # 0
  /\ bot' = [bot EXCEPT ![k].at = "removeWebhook", ![k].number = secret.number]
  /\ UNCHANGED <<registrationVars, chat, kept, effect>>

RemoveWebhook(k) ==
  /\ bot[k].at = "removeWebhook"
  /\ \/ webhook' = FALSE /\ (BotGoto(k, "deleteSecret") \/ BotGoto(k, "over"))
     \/ UNCHANGED webhook /\ BotGoto(k, "over")
  /\ UNCHANGED <<secret, chat, kept, effect>>

DeleteSecret(k) ==
  /\ bot[k].at = "deleteSecret"
  /\ \/ secret.number = bot[k].number /\ secret' = [NoSecret EXCEPT !.last = secret.last]
     \/ UNCHANGED secret
  /\ BotGoto(k, "over")
  /\ UNCHANGED <<webhook, chat, kept, effect>>
-----------------------------------------------------------------------------
(* ingestTelegramUpdate.                                                    *)

\* An update that was under way when the webhook was removed still comes.
Ingest(k, u) ==
  /\ bot[k].at = "new"
  /\ webhook \/ chat.known
  /\ bot' = [bot EXCEPT ![k].at = "exists", ![k].update = u]
  /\ UNCHANGED <<registrationVars, chat, kept, effect>>

LookForUpdate(k) ==
  /\ bot[k].at = "exists"
  /\ BotGoto(k, IF bot[k].update \in kept THEN "over" ELSE "registration")
  /\ UNCHANGED <<registrationVars, chat, kept, effect>>

ReadRegistration(k) ==
  /\ bot[k].at = "registration"
  /\ bot' = [bot EXCEPT ![k].at = "upsert", ![k].owner = secret.owner]
  /\ UNCHANGED <<registrationVars, chat, kept, effect>>

\* The customer, and the conversation, which keeps the owner it began with.
UpsertChat(k) ==
  /\ bot[k].at = "upsert"
  /\ LET owner == IF chat.known THEN chat.owner ELSE bot[k].owner IN
       /\ chat' = [chat EXCEPT !.known = TRUE, !.owner = owner]
       /\ bot' = [bot EXCEPT ![k].at = "create", ![k].owner = owner]
  /\ UNCHANGED <<registrationVars, kept, effect>>

\* As a mutant of MayCreate: the unique index is not there.
MayCreateAgain(u) == u \in Updates

\* The unique index on the platform and the message's id.
MayCreate(u) == u \notin kept

CreateUpdate(k) ==
  /\ bot[k].at = "create"
  /\ \/ MayCreate(bot[k].update) /\ kept' = kept \cup {bot[k].update} /\ BotGoto(k, "count")
     \/ ~MayCreate(bot[k].update) /\ BotGoto(k, "over") /\ UNCHANGED kept
  /\ UNCHANGED <<registrationVars, chat, effect>>

\* $inc, and the events.
CountUpdate(k) ==
  /\ bot[k].at = "count"
  /\ chat' = [chat EXCEPT !.unread = @ + 1]
  /\ effect' = [effect EXCEPT ![bot[k].update].counted = @ + 1]
  /\ BotGoto(k, IF bot[k].owner # NoUpdate THEN "answer" ELSE "over")
  /\ UNCHANGED <<registrationVars, kept>>

\* processTelegramCustomerMessage, whose errors do not come back.
AnswerUpdate(k) ==
  /\ bot[k].at = "answer"
  /\ effect' = [effect EXCEPT ![bot[k].update].answered = @ + 1]
  /\ BotGoto(k, "over")
  /\ UNCHANGED <<registrationVars, chat, kept>>

\* A query fails, done or not, or the process dies.
IngestFails(k) ==
  /\ bot[k].at \in IngestPoints
  /\ BotGoto(k, "over")
  /\ UNCHANGED <<registrationVars, chat, kept, effect>>

ReadChat ==
  /\ chat.unread # 0
  /\ chat' = [chat EXCEPT !.unread = 0]
  /\ UNCHANGED <<registrationVars, kept, bot, effect>>

RegistrationStep(k) ==
  \/ \E a \in Admins : Register(k, a)
  \/ SetWebhook(k) \/ Disconnect(k) \/ RemoveWebhook(k) \/ DeleteSecret(k)

IngestStep(k) ==
  \/ \E u \in Updates : Ingest(k, u)
  \/ LookForUpdate(k) \/ ReadRegistration(k) \/ UpsertChat(k) \/ CreateUpdate(k)
  \/ CountUpdate(k) \/ AnswerUpdate(k) \/ IngestFails(k)

BotNext == (\E k \in BotCalls : RegistrationStep(k) \/ IngestStep(k)) \/ ReadChat

BotSpec == BotInit /\ [][BotNext]_botVars
-----------------------------------------------------------------------------
\* telegram.service.ts:22: an update is stored before the bot is called, and
\* however often Telegram delivers it, in however many calls at once, it is
\* counted and answered at most once, for the owner of the conversation.
UpdatesAreHandledOnce ==
  /\ \A u \in Updates :
       /\ effect[u].counted <= 1
       /\ effect[u].answered <= effect[u].counted
       /\ effect[u].counted > 0 => u \in kept
       /\ effect[u].answered > 0 => chat.owner # NoUpdate
  /\ chat.unread <= Cardinality(kept)
=============================================================================
