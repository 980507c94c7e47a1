-------------------------------- MODULE MCInbox --------------------------------
(***************************************************************************)
(* The inbox: three channels that store what customers write, and the two  *)
(* halves of the page that shows it.  As in MCConnections, one component   *)
(* moves and the others stay in their initial state.                       *)
(***************************************************************************)
EXTENDS MessengerInbox, TelegramBot, ZaloInbox, WebThread, WebUnread, TLC

VARIABLE part \* the component that moves

inboxVars == <<part, messengerVars, botVars, zaloVars, threadVars, listVars>>

InboxInit ==
  /\ part \in {"messenger", "bot", "zalo", "thread", "list"}
  /\ MessengerInit /\ BotInit /\ ZaloInit /\ ThreadInit /\ ListInit

InboxNext ==
  /\ UNCHANGED part
  /\ \/ /\ part = "messenger" /\ MessengerNext
        /\ UNCHANGED <<botVars, zaloVars, threadVars, listVars>>
     \/ /\ part = "bot" /\ BotNext
        /\ UNCHANGED <<messengerVars, zaloVars, threadVars, listVars>>
     \/ /\ part = "zalo" /\ ZaloNext
        /\ UNCHANGED <<messengerVars, botVars, threadVars, listVars>>
     \/ /\ part = "thread" /\ ThreadNext
        /\ UNCHANGED <<messengerVars, botVars, zaloVars, listVars>>
     \/ /\ part = "list" /\ ListNext
        /\ UNCHANGED <<messengerVars, botVars, zaloVars, threadVars>>

InboxSpec == InboxInit /\ [][InboxNext]_inboxVars

\* The variables of the component that moves keep their types.
InboxTypeOK ==
  /\ part = "messenger" => MessengerTypeOK
  /\ part = "bot" => BotTypeOK
  /\ part = "zalo" => ZaloTypeOK
  /\ part = "thread" => ThreadTypeOK
  /\ part = "list" => ListTypeOK

\* facebook-messenger.webhook.ts:29, telegram.service.ts:22,
\* zalo-personal.service.ts:545, message.service.ts:363: however often a platform
\* delivers a message and whatever fails in between, it is stored, counted and
\* answered once, and a reply in the inbox was sent: to the customer it was
\* written to or, after a change of the Zalo account, to a friend of the new
\* account who bears the customer's name.
InboxIsTrue ==
  /\ InboxTypeOK
  /\ UnreadIsExact /\ RepliesAreTrue
  /\ UpdatesAreHandledOnce
  /\ ZaloUnreadIsExact /\ RecordsAreTrue /\ AddresseeIsRight

\* InboxPage.tsx:53 and :234, inbox-pins.ts:44: a late answer neither shows what
\* belongs to another conversation nor undoes what an event has shown since.
ViewIsTrue == [][ViewIsOfActive' /\ LoadsRespectPins /\ NewsIsKept]_<<threadVars, listVars>>

Symmetry == Permutations(Calls) \cup Permutations(Chats)
=============================================================================
