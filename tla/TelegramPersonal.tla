-------------------------- MODULE TelegramPersonal --------------------------
(***************************************************************************)
(* The personal Telegram account of one owner: telegram-personal.service.ts *)
(* keeps QR logins and clients in the maps of the process and the session  *)
(* in MongoDB, and every attached client brings the account's messages.    *)
(*                                                                         *)
(* A client belongs to one QR login or to one restore; a login is known by *)
(* its client.  Telegram hands every client of the account every message.  *)
(* Owners share nothing but the ids of messages (see the README), so there *)
(* is one.  The queries that only decorate a message, the profile pictures *)
(* and the events that follow a stored message are left out.               *)
(***************************************************************************)
EXTENDS Naturals, FiniteSets

CONSTANTS
  Clients,      \* Telegram clients, each of one login or restore
  NoClient,
  Messages,     \* Telegram messages of one conversation
  FromCustomer, \* those a customer wrote; the others the owner wrote on a phone
  MaxHandlers   \* bound: handlers at work at a time

ASSUME ClientsAssumption == NoClient \notin Clients /\ FromCustomer \subseteq Messages
                            /\ MaxHandlers \in Nat

VARIABLES
  session,  \* the TelegramPersonalSession document: who saved it, and its status
  pending,  \* pendingQrLogins
  login,    \* the login object of a client
  active,   \* activePersonalClients of this owner
  link,     \* the connection of a client
  attached, \* clients with the message handler
  task,     \* where the login or the restore of a client is
  logout,   \* where the logout is, and the clients it saw
  handler,  \* where a client's handler is with a message
  inbox,    \* the conversation: whether we have it, and what is stored
  taken,    \* history: how often a message took effect, and went to the bot
  voided,   \* history: logins taken from the map before they were connected
  writing   \* history: those of them whose session was being written then

loginVars == <<pending, login>>
clientVars == <<active, link, attached>>
messageVars == <<handler, inbox, taken>>
droppedVars == <<voided, writing>>
telegramVars ==
  <<session, loginVars, clientVars, task, logout, messageVars, droppedVars>>

NewLogin == [status |-> "none", prompt |-> FALSE]
Unsaved == {"scan", "password", "verify", "signed", "avatar"}
Saving == {"save", "finish"}
TaskPoints == Unsaved \cup Saving \cup {"idle", "connect", "lookup", "reconnect",
                                         "authorize", "refresh", "over"}
HandlerPoints == {"account", "exists", "create", "count", "bot", "idle"}

\* The types of the maps, the document and the tasks.
TelegramTypeOK ==
  /\ session \in [by : Clients \cup {NoClient},
                  status : {"none", "active", "disconnected"}]
  /\ pending \subseteq Clients
  /\ login \in [Clients -> [status : {"none", "waiting", "password_required",
                                      "connected", "failed"}, prompt : BOOLEAN]]
  /\ active \in Clients \cup {NoClient}
  /\ link \in [Clients -> {"new", "open", "closed"}]
  /\ attached \subseteq Clients
  /\ task \in [Clients -> TaskPoints]
  /\ logout \in [at : {"idle", "drop", "forget", "delete", "disable", "out"},
                 pending : SUBSET Clients, clients : SUBSET Clients]
  /\ handler \in [Clients -> [Messages -> HandlerPoints]]
  /\ inbox \in [stored : SUBSET Messages, known : BOOLEAN]
  /\ taken \in [Messages -> [applied : Nat, bot : Nat]]
  /\ voided \subseteq Clients /\ writing \subseteq voided

NoSession == [by |-> NoClient, status |-> "none"]
NoLogout == [at |-> "idle", pending |-> {}, clients |-> {}]

TelegramInit ==
  /\ session = NoSession
  /\ pending = {}
  /\ login = [c \in Clients |-> NewLogin]
  /\ active = NoClient
  /\ link = [c \in Clients |-> "new"]
  /\ attached = {}
  /\ task = [c \in Clients |-> "idle"]
  /\ logout = NoLogout
  /\ handler = [c \in Clients |-> [m \in Messages |-> "idle"]]
  /\ inbox = [stored |-> {}, known |-> FALSE]
  /\ taken = [m \in Messages |-> [applied |-> 0, bot |-> 0]]
  /\ voided = {} /\ writing = {}

To(c, point) == task' = [task EXCEPT ![c] = point]
SetLogin(c, status, prompt) ==
  login' = [login EXCEPT ![c] = [status |-> status, prompt |-> prompt]]
Links(cs, state) == link' = [c \in Clients |-> IF c \in cs THEN state ELSE link[c]]

\* Logins leave the map.  One that is being saved does not look there again.
Drop(cs) ==
  /\ pending' = pending \ cs
  /\ voided' = voided \cup {c \in cs : task[c] \in Unsaved \cup Saving}
  /\ writing' = writing \cup {c \in cs : task[c] \in Saving}
-----------------------------------------------------------------------------
(* The QR login.                                                            *)

Unfinished == {c \in pending : login[c].status \in {"waiting", "password_required"}}

\* startPersonalQrLogin.  A login that waits for its code is handed out again,
\* one that waits for a password is replaced; the disconnect may fail.
StartLogin(c) ==
  /\ task[c] = "idle"
  /\ \/ Unfinished = {} /\ UNCHANGED <<pending, link, droppedVars>>
     \/ \E old \in Unfinished :
          /\ login[old].status = "password_required"
          /\ Drop({old})
          /\ Links({old}, "closed") \/ UNCHANGED link
  /\ To(c, "connect")
  /\ UNCHANGED <<session, login, active, attached, logout, messageVars>>

ConnectLogin(c) ==
  /\ task[c] = "connect"
  /\ \/ /\ Links({c}, "open")
        /\ SetLogin(c, "waiting", FALSE)
        /\ pending' = pending \cup {c}
        /\ To(c, "scan")
     \/ To(c, "over") /\ UNCHANGED <<link, loginVars>>
  /\ UNCHANGED <<session, active, attached, logout, messageVars, droppedVars>>

\* The code was scanned, and the account has a 2FA password.
AskPassword(c) ==
  /\ task[c] = "scan"
  /\ SetLogin(c, "password_required", TRUE)
  /\ To(c, "password")
  /\ UNCHANGED <<session, pending, clientVars, logout, messageVars, droppedVars>>

SubmitPassword(c) ==
  /\ c \in pending
  /\ login[c] = [status |-> "password_required", prompt |-> TRUE]
  /\ SetLogin(c, "password_required", FALSE)
  /\ To(c, "verify")
  /\ UNCHANGED <<session, pending, clientVars, logout, messageVars, droppedVars>>

\* A wrong password: Telegram asks again.
AskAgain(c) ==
  /\ task[c] = "verify"
  /\ SetLogin(c, "password_required", TRUE)
  /\ To(c, "password")
  /\ UNCHANGED <<session, pending, clientVars, logout, messageVars, droppedVars>>

SignIn(c) ==
  /\ task[c] \in {"scan", "verify"}
  /\ To(c, "signed")
  /\ UNCHANGED <<session, loginVars, clientVars, logout, messageVars, droppedVars>>

\* onError, or the catch at the end of the sign-in.
LoginFails(c) ==
  /\ task[c] \in {"scan", "verify", "save"}
  /\ SetLogin(c, "failed", login[c].prompt)
  /\ Links({c}, "closed") \/ UNCHANGED link
  /\ To(c, "over")
  /\ UNCHANGED <<session, pending, active, attached, logout, messageVars, droppedVars>>

\* As a mutant of StillPending: the map is not consulted.
Believed(c) == login[c].status # "none"

StillPending(c) == c \in pending

\* The map is consulted before the profile picture is fetched and after it.
CheckLogin(c) ==
  /\ task[c] \in {"signed", "avatar"}
  /\ IF StillPending(c)
     THEN To(c, IF task[c] = "signed" THEN "avatar" ELSE "save") /\ UNCHANGED link
     ELSE To(c, "over") /\ (Links({c}, "closed") \/ UNCHANGED link)
  /\ UNCHANGED <<session, loginVars, active, attached, logout, messageVars, droppedVars>>

SaveSession(c) ==
  /\ task[c] = "save"
  /\ session' = [by |-> c, status |-> "active"]
  /\ To(c, "finish")
  /\ UNCHANGED <<loginVars, clientVars, logout, messageVars, droppedVars>>

Attach(c) == active' = c /\ attached' = attached \cup {c}

FinishLogin(c) ==
  /\ task[c] = "finish"
  /\ SetLogin(c, "connected", login[c].prompt)
  /\ Attach(c)
  /\ To(c, "over")
  /\ UNCHANGED <<session, pending, link, logout, messageVars, droppedVars>>
-----------------------------------------------------------------------------
(* Restoring a stored session, at the start or for a message to be sent.    *)

AskClient(c) ==
  /\ task[c] = "idle"
  /\ active = NoClient
  /\ To(c, "lookup")
  /\ UNCHANGED <<session, loginVars, clientVars, logout, messageVars, droppedVars>>

LookUpSession(c) ==
  /\ task[c] = "lookup"
  /\ To(c, IF session.status = "active" THEN "reconnect" ELSE "over")
  /\ UNCHANGED <<session, loginVars, clientVars, logout, messageVars, droppedVars>>

Reconnect(c) ==
  /\ task[c] = "reconnect"
  /\ \/ Links({c}, "open") /\ To(c, "authorize")
     \/ To(c, "over") /\ UNCHANGED link
  /\ UNCHANGED <<session, loginVars, active, attached, logout, messageVars, droppedVars>>

\* checkAuthorization: true, false, or an error, which leaves the link open.
Authorize(c) ==
  /\ task[c] = "authorize"
  /\ \/ To(c, "refresh") /\ UNCHANGED link
     \/ To(c, "over") /\ (Links({c}, "closed") \/ UNCHANGED link)
  /\ UNCHANGED <<session, loginVars, active, attached, logout, messageVars, droppedVars>>

\* Once the profile picture has been fetched, when it was missing.
FinishRestore(c) ==
  /\ task[c] = "refresh"
  /\ Attach(c)
  /\ To(c, "over")
  /\ UNCHANGED <<session, loginVars, link, logout, messageVars, droppedVars>>
-----------------------------------------------------------------------------
(* logoutPersonalSession.                                                   *)

StartLogout ==
  /\ logout.at \in {"idle", "out"}
  /\ logout' = [at |-> "drop", pending |-> pending,
                clients |-> (pending \cup {active}) \ {NoClient}]
  /\ UNCHANGED <<session, loginVars, clientVars, task, messageVars, droppedVars>>

\* After the query that looks for a session.  One disconnect that fails ends
\* the logout with 503; the others take place all the same.
DropLogins ==
  /\ logout.at = "drop"
  /\ Drop(logout.pending)
  /\ login' = [c \in Clients |-> IF c \in logout.pending
                                 THEN [login[c] EXCEPT !.status = "failed"] ELSE login[c]]
  /\ \/ Links(logout.clients, "closed") /\ logout' = [logout EXCEPT !.at = "forget"]
     \/ /\ \E cs \in SUBSET logout.clients : cs # logout.clients /\ Links(cs, "closed")
        /\ logout' = NoLogout
  /\ UNCHANGED <<session, active, attached, task, messageVars>>

ForgetClient ==
  /\ logout.at = "forget"
  /\ active' = NoClient
  /\ logout' = [logout EXCEPT !.at = "delete"]
  /\ UNCHANGED <<session, loginVars, link, attached, task, messageVars, droppedVars>>

DeleteSession ==
  /\ logout.at = "delete"
  /\ \/ session' = NoSession /\ logout' = [logout EXCEPT !.at = "out", !.pending = {}]
     \/ logout' = [logout EXCEPT !.at = "disable"] /\ UNCHANGED session
  /\ UNCHANGED <<loginVars, clientVars, task, messageVars, droppedVars>>

\* The deletion failed: the session is at least not restored again.
DisableSession ==
  /\ logout.at = "disable"
  /\ \/ session # NoSession /\ session' = [session EXCEPT !.status = "disconnected"]
     \/ UNCHANGED session
  /\ logout' = NoLogout
  /\ UNCHANGED <<loginVars, clientVars, task, messageVars, droppedVars>>
-----------------------------------------------------------------------------
(* The message handler.                                                     *)

At(c, m, point) == handler' = [handler EXCEPT ![c][m] = point]

Busy == {x \in Clients \X Messages : handler[x[1]][x[2]] # "idle"}

\* Telegram may bring a message again.
Receive(c, m) ==
  /\ c \in attached
  /\ link[c] = "open"
  /\ handler[c][m] = "idle"
  /\ Cardinality(Busy) < MaxHandlers
  /\ At(c, m, "account")
  /\ UNCHANGED <<inbox, taken>>

CheckAccount(c, m) ==
  /\ handler[c][m] = "account"
  /\ At(c, m, IF session.status = "active" THEN "exists" ELSE "idle")
  /\ UNCHANGED <<inbox, taken>>

\* A replay; or the owner's own message in a conversation we do not have.
CheckReplay(c, m) ==
  /\ handler[c][m] = "exists"
  /\ At(c, m, IF m \in inbox.stored \/ (m \notin FromCustomer /\ ~inbox.known)
              THEN "idle" ELSE "create")
  /\ UNCHANGED <<inbox, taken>>

\* As a mutant of MayStore: the index forgets a message that did not take
\* effect yet.
MayStoreUncounted(m) == taken[m].applied = 0

\* The unique index on the platform and the external id of a message.
MayStore(m) == m \notin inbox.stored

\* The upsert of the conversation, and the message.
StoreMessage(c, m) ==
  /\ handler[c][m] = "create"
  /\ IF MayStore(m)
     THEN /\ inbox' = [stored |-> inbox.stored \cup {m}, known |-> TRUE]
          /\ At(c, m, "count")
     ELSE /\ inbox' = [inbox EXCEPT !.known = TRUE]
          /\ At(c, m, "idle")
  /\ UNCHANGED taken

\* A customer's message adds to the unread count; the owner's pauses the bot.
CountMessage(c, m) ==
  /\ handler[c][m] = "count"
  /\ taken' = [taken EXCEPT ![m].applied = @ + 1]
  /\ At(c, m, IF m \in FromCustomer THEN "bot" ELSE "idle")
  /\ UNCHANGED inbox

CallBot(c, m) ==
  /\ handler[c][m] = "bot"
  /\ taken' = [taken EXCEPT ![m].bot = @ + 1]
  /\ At(c, m, "idle")
  /\ UNCHANGED inbox
\* A query fails: the handler throws, and Telegram does not bring the message
\* again on its own.
HandlerThrows(c, m) ==
  /\ handler[c][m] # "idle"
  /\ At(c, m, "idle")
  /\ UNCHANGED <<inbox, taken>>
-----------------------------------------------------------------------------
\* The process dies: maps, clients and everything under way are gone.
CrashTelegram ==
  /\ \E c \in Clients : task[c] # "idle"
  /\ pending' = {}
  /\ active' = NoClient
  /\ attached' = {}
  /\ Links({c \in Clients : task[c] # "idle"}, "closed")
  /\ task' = [c \in Clients |-> IF task[c] = "idle" THEN "idle" ELSE "over"]
  /\ logout' = NoLogout
  /\ handler' = [c \in Clients |-> [m \in Messages |-> "idle"]]
  /\ UNCHANGED <<session, login, inbox, taken, droppedVars>>

LoginStep(c) ==
  \/ StartLogin(c) \/ ConnectLogin(c) \/ AskPassword(c) \/ SubmitPassword(c)
  \/ AskAgain(c) \/ SignIn(c) \/ LoginFails(c) \/ CheckLogin(c) \/ SaveSession(c)
  \/ FinishLogin(c)

RestoreStep(c) ==
  \/ AskClient(c) \/ LookUpSession(c) \/ Reconnect(c) \/ Authorize(c) \/ FinishRestore(c)

LogoutStep ==
  StartLogout \/ DropLogins \/ ForgetClient \/ DeleteSession \/ DisableSession

HandlerStep(c, m) ==
  /\ \/ Receive(c, m) \/ CheckAccount(c, m) \/ CheckReplay(c, m)
     \/ StoreMessage(c, m) \/ CountMessage(c, m)
     \/ CallBot(c, m) \/ HandlerThrows(c, m)
  /\ UNCHANGED <<session, loginVars, clientVars, task, logout, droppedVars>>

TelegramNext ==
  \/ \E c \in Clients : LoginStep(c) \/ RestoreStep(c)
  \/ LogoutStep
  \/ \E c \in Clients, m \in Messages : HandlerStep(c, m)
  \/ CrashTelegram

TelegramSpec == TelegramInit /\ [][TelegramNext]_telegramVars
-----------------------------------------------------------------------------
(* What must hold.                                                          *)

\* telegram-personal.service.ts:306,360: however many clients bring a message,
\* and however often, it takes effect once and starts the bot once, after it was
\* stored.
TakenOnce ==
  \A m \in Messages :
    /\ taken[m].applied <= 1
    /\ taken[m].bot <= taken[m].applied
    /\ taken[m].applied > 0 => m \in inbox.stored

\* Neither the session nor the client is one the logout found: nothing brings
\* back the account that was logged out.
NothingComesBack(cs) == session.by \notin cs /\ active \notin cs

\* telegram-personal.service.ts:142, :149 and :217: a login that a logout or a
\* newer login took from the map writes no session and becomes no listener,
\* even when the customer's phone confirms it later; and after a logout that
\* answered 204 nothing it found comes back.  Both except for logins whose
\* session was being written when they were dropped: line 154 does not look at the
\* map after that write, and what line 217 says of a logout is false of them.
VoidedLoginIsSilent ==
  /\ \A c \in voided \ writing : session.by # c /\ active # c /\ c \notin attached
  /\ logout.at = "out" => NothingComesBack(logout.clients \ writing)
=============================================================================
