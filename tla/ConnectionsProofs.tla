---------------------------- MODULE ConnectionsProofs ----------------------------
(***************************************************************************)
(* The safety of the components of MCConnections and of the two dialogs of *)
(* MCDialogs: TelegramPersonal for any number of clients and messages,     *)
(* ServerLifecycle for any number of signals and attempts to connect, the  *)
(* dialogs for any number of requests at once.  FacebookPages is proved in *)
(* FacebookPagesProofs.                                                    *)
(***************************************************************************)
EXTENDS MCConnections, MCDialogs, FacebookPagesProofs

-----------------------------------------------------------------------------
(* The personal Telegram account.                                           *)

USE ClientsAssumption

(* A login's life is told by its task: before it is saved the client is     *)
(* unknown to the rest, and once it was taken from the map before that, it  *)
(* stays unsaved or is over.  What a logout found is, from then on, over or *)
(* among the dropped, and is taken out of the map, the client and the       *)
(* session one after the other.                                             *)

Unknown(c) == session.by # c /\ active # c /\ c \notin attached

Begun(c) == task[c] \in Unsaved \cup Saving \cup {"over"}

LoginOK(c) ==
  /\ task[c] \in Unsaved \cup {"idle", "connect"} => Unknown(c)
  /\ c \in pending => Begun(c)
  /\ active = c => task[c] = "over"
  /\ c \in voided => Begun(c)
  /\ c \in voided \ writing =>
       Unknown(c) /\ c \notin pending /\ task[c] \in Unsaved \cup {"over"}
  /\ c \in pending /\ login[c] = [status |-> "password_required", prompt |-> TRUE]
       => task[c] = "password"

LoginInv == \A c \in Clients : LoginOK(c)

LogoutOK(c) ==
  /\ c \in logout.clients => Begun(c)
  /\ logout.at = "drop" /\ c \in logout.clients \ logout.pending => task[c] = "over"
  /\ logout.at \in {"forget", "delete", "out"} /\ c \in logout.clients =>
       c \in voided \/ task[c] = "over"
  /\ logout.at \in {"delete", "out"} /\ c \in logout.clients \ writing => active # c
  /\ logout.at = "out" /\ c \in logout.clients \ writing => session.by # c

LogoutInv == \A c \in Clients : LogoutOK(c)

(* One handler at most is between the storing of a message and its end.     *)

Taking(c, m) == handler[c][m] \in {"count", "bot"}

MessageOK(m) ==
  /\ taken[m].bot <= taken[m].applied /\ taken[m].applied <= 1
  /\ m \notin inbox.stored => taken[m].applied = 0 /\ \A c \in Clients : ~Taking(c, m)
  /\ \A c \in Clients : handler[c][m] = "count" => taken[m].applied = 0
  /\ \A c \in Clients : handler[c][m] = "bot" => taken[m].applied = 1 /\ taken[m].bot = 0
  /\ \A c, d \in Clients : Taking(c, m) /\ Taking(d, m) => c = d

MessageInv == \A m \in Messages : MessageOK(m)

TelegramInv == TelegramTypeOK /\ LoginInv /\ LogoutInv /\ MessageInv
-----------------------------------------------------------------------------
(* Types.                                                                   *)

Logins == [status : {"none", "waiting", "password_required", "connected", "failed"},
           prompt : BOOLEAN]

LoginTypes ==
  /\ session \in [by : Clients \cup {NoClient}, status : {"none", "active", "disconnected"}]
  /\ pending \subseteq Clients
  /\ login \in [Clients -> Logins]
  /\ active \in Clients \cup {NoClient}
  /\ link \in [Clients -> {"new", "open", "closed"}]
  /\ attached \subseteq Clients
  /\ task \in [Clients -> TaskPoints]
  /\ logout \in [at : {"idle", "drop", "forget", "delete", "disable", "out"},
                 pending : SUBSET Clients, clients : SUBSET Clients]
  /\ voided \subseteq Clients /\ writing \subseteq voided

MessageTypes ==
  /\ handler \in [Clients -> [Messages -> HandlerPoints]]
  /\ inbox \in [stored : SUBSET Messages, known : BOOLEAN]
  /\ taken \in [Messages -> [applied : Nat, bot : Nat]]

LEMMA TypesSplit == TelegramTypeOK <=> LoginTypes /\ MessageTypes
  BY DEF TelegramTypeOK, LoginTypes, MessageTypes, Logins

LEMMA LoginTypesStep ==
  ASSUME LoginTypes, TelegramNext
  PROVE  LoginTypes'
<1>0. \A c \in Clients :
        /\ login[c].prompt \in BOOLEAN
        /\ \A status \in {"waiting", "password_required", "connected", "failed"}, b \in BOOLEAN :
             SetLogin(c, status, b) => login' \in [Clients -> Logins]
  BY DEF LoginTypes, SetLogin, Logins
<1>. USE DEF LoginTypes, TaskPoints, Unsaved, Saving, To, Links, Drop, loginVars, clientVars,
           droppedVars
<1>1. ASSUME NEW c \in Clients, LoginStep(c) PROVE LoginTypes'
  <2>1. CASE StartLogin(c)
    BY <2>1 DEF StartLogin, Unfinished
  <2>2. CASE ConnectLogin(c)
    BY <1>0, <2>2 DEF ConnectLogin
  <2>3. CASE AskPassword(c) \/ SubmitPassword(c) \/ AskAgain(c)
    BY <1>0, <2>3 DEF AskPassword, SubmitPassword, AskAgain
  <2>4. CASE SignIn(c)
    BY <2>4 DEF SignIn
  <2>5. CASE LoginFails(c)
    BY <1>0, <2>5 DEF LoginFails
  <2>6. CASE CheckLogin(c)
    BY <2>6 DEF CheckLogin
  <2>7. CASE SaveSession(c)
    BY <2>7 DEF SaveSession
  <2>8. CASE FinishLogin(c)
    BY <1>0, <2>8 DEF FinishLogin, Attach
  <2>. QED BY <1>1, <2>1, <2>2, <2>3, <2>4, <2>5, <2>6, <2>7, <2>8 DEF LoginStep
<1>2. ASSUME NEW c \in Clients, RestoreStep(c) PROVE LoginTypes'
  <2>1. CASE AskClient(c) \/ LookUpSession(c)
    BY <2>1 DEF AskClient, LookUpSession
  <2>2. CASE Reconnect(c) \/ Authorize(c)
    BY <2>2 DEF Reconnect, Authorize
  <2>3. CASE FinishRestore(c)
    BY <2>3 DEF FinishRestore, Attach
  <2>. QED BY <1>2, <2>1, <2>2, <2>3 DEF RestoreStep
<1>3. CASE LogoutStep
  <2>1. CASE StartLogout
    <3>1. logout' \in [at : {"drop"}, pending : SUBSET Clients, clients : SUBSET Clients]
      BY <2>1 DEF StartLogout
    <3>. QED BY <2>1, <3>1 DEF StartLogout
  <2>2. CASE DropLogins
    <3>1. login' \in [Clients -> Logins]
      BY <2>2 DEF DropLogins, Logins
    <3>2. link' \in [Clients -> {"new", "open", "closed"}]
      BY <2>2 DEF DropLogins
    <3>3. logout' \in [at : {"idle", "forget"}, pending : SUBSET Clients, clients : SUBSET Clients]
      BY <2>2 DEF DropLogins, NoLogout
    <3>. QED BY <2>2, <3>1, <3>2, <3>3 DEF DropLogins
  <2>3. CASE ForgetClient
    BY <2>3 DEF ForgetClient
  <2>4. CASE DeleteSession
    <3>1. logout' \in [at : {"out", "disable"}, pending : SUBSET Clients, clients : SUBSET Clients]
      BY <2>4 DEF DeleteSession
    <3>. QED BY <2>4, <3>1 DEF DeleteSession, NoSession
  <2>5. CASE DisableSession
    BY <2>5 DEF DisableSession, NoLogout
  <2>. QED BY <1>3, <2>1, <2>2, <2>3, <2>4, <2>5 DEF LogoutStep
<1>4. ASSUME NEW c \in Clients, NEW m \in Messages, HandlerStep(c, m) PROVE LoginTypes'
  BY <1>4 DEF HandlerStep
<1>5. CASE CrashTelegram
  BY <1>5 DEF CrashTelegram, NoLogout
<1>. QED BY <1>1, <1>2, <1>3, <1>4, <1>5 DEF TelegramNext
-----------------------------------------------------------------------------
(* Messages.                                                                *)

\* Handlers move alone, and a crash stops them all.
LEMMA HandlersFrame ==
  ASSUME TelegramNext
  PROVE  \/ UNCHANGED messageVars
         \/ CrashTelegram
         \/ \E c \in Clients, m \in Messages : HandlerStep(c, m)
<1>1. ASSUME NEW c \in Clients, LoginStep(c) PROVE UNCHANGED messageVars
  BY <1>1 DEF LoginStep, StartLogin, ConnectLogin, AskPassword, SubmitPassword, AskAgain, SignIn,
              LoginFails, CheckLogin, SaveSession, FinishLogin
<1>2. ASSUME NEW c \in Clients, RestoreStep(c) PROVE UNCHANGED messageVars
  BY <1>2 DEF RestoreStep, AskClient, LookUpSession, Reconnect, Authorize, FinishRestore
<1>3. CASE LogoutStep
  BY <1>3 DEF LogoutStep, StartLogout, DropLogins, ForgetClient, DeleteSession, DisableSession
<1>. QED BY <1>1, <1>2, <1>3 DEF TelegramNext

LEMMA AtMoves ==
  ASSUME MessageTypes, NEW c \in Clients, NEW m \in Messages, NEW point \in HandlerPoints,
         At(c, m, point)
  PROVE  /\ handler' \in [Clients -> [Messages -> HandlerPoints]]
         /\ handler'[c][m] = point
         /\ \A d \in Clients, n \in Messages : d # c \/ n # m => handler'[d][n] = handler[d][n]
<1>1. [handler[c] EXCEPT ![m] = point] \in [Messages -> HandlerPoints]
  BY DEF MessageTypes
<1>2. handler' = [handler EXCEPT ![c] = [handler[c] EXCEPT ![m] = point]]
  BY DEF At
<1>. QED BY <1>1, <1>2 DEF MessageTypes

\* A message that is not the handler's own is not touched.
LEMMA OthersUntouched ==
  ASSUME MessageTypes, MessageInv, NEW c \in Clients, NEW m \in Messages,
         NEW point \in HandlerPoints, At(c, m, point),
         NEW n \in Messages, n # m, taken'[n] = taken[n],
         n \in inbox'.stored <=> n \in inbox.stored
  PROVE  MessageOK(n)'
<1>1. \A d \in Clients : handler'[d][n] = handler[d][n]
  BY AtMoves
<1>2. MessageOK(n)
  BY DEF MessageInv
<1>. QED BY <1>1, <1>2 DEF MessageOK, Taking

LEMMA MessageStep ==
  ASSUME MessageTypes, MessageInv, TelegramNext
  PROVE  MessageTypes' /\ MessageInv'
<1>1. CASE UNCHANGED messageVars
  BY <1>1 DEF messageVars, MessageTypes, MessageInv, MessageOK, Taking
<1>2. CASE CrashTelegram
  <2>1. /\ handler' = [c \in Clients |-> [m \in Messages |-> "idle"]]
        /\ UNCHANGED <<inbox, taken>>
    BY <1>2 DEF CrashTelegram
  <2>. QED BY <2>1 DEF MessageTypes, HandlerPoints, MessageInv, MessageOK, Taking
<1>3. ASSUME NEW c \in Clients, NEW m \in Messages, HandlerStep(c, m)
      PROVE  MessageTypes' /\ MessageInv'
  <2>1. ASSUME NEW point \in HandlerPoints, At(c, m, point)
        PROVE  /\ handler' \in [Clients -> [Messages -> HandlerPoints]]
               /\ handler'[c][m] = point
               /\ \A d \in Clients \ {c} : handler'[d][m] = handler[d][m]
    BY <2>1, AtMoves
  <2>2. MessageOK(m)
    BY DEF MessageInv
  <2>3. ASSUME NEW point \in HandlerPoints, At(c, m, point), point \notin {"count", "bot"},
               UNCHANGED taken, inbox' \in [stored : SUBSET Messages, known : BOOLEAN],
               inbox'.stored = inbox.stored
        PROVE  MessageTypes' /\ MessageInv'
    <3>1. MessageTypes'
      BY <2>1, <2>3 DEF MessageTypes
    <3>2. MessageOK(m)'
      BY <2>1, <2>2, <2>3 DEF MessageOK, Taking
    <3>. QED BY <2>3, <3>1, <3>2, OthersUntouched DEF MessageInv
  <2>. USE DEF HandlerPoints
  <2>4. CASE Receive(c, m) \/ CheckAccount(c, m) \/ CheckReplay(c, m) \/ HandlerThrows(c, m)
    <3>1. UNCHANGED <<inbox, taken>>
      BY <2>4 DEF Receive, CheckAccount, CheckReplay, HandlerThrows
    <3>2. \E point \in HandlerPoints \ {"count", "bot"} : At(c, m, point)
      BY <2>4 DEF Receive, CheckAccount, CheckReplay, HandlerThrows
    <3>. QED BY <2>3, <3>1, <3>2 DEF MessageTypes
  <2>5. CASE StoreMessage(c, m)
    <3>1. CASE MayStore(m)
      <4>1. /\ inbox' = [stored |-> inbox.stored \cup {m}, known |-> TRUE]
            /\ At(c, m, "count") /\ taken' = taken
        BY <2>5, <3>1 DEF StoreMessage
      <4>2. MessageTypes'
        BY <2>1, <4>1 DEF MessageTypes
      <4>3. MessageOK(m)'
        BY <2>1, <2>2, <3>1, <4>1 DEF MessageOK, Taking, MayStore, MessageTypes
      <4>4. \A n \in Messages : n # m => MessageOK(n)'
        BY <4>1, OthersUntouched
      <4>. QED BY <4>2, <4>3, <4>4 DEF MessageInv
    <3>2. CASE ~MayStore(m)
      <4>1. inbox' = [inbox EXCEPT !.known = TRUE] /\ At(c, m, "idle") /\ UNCHANGED taken
        BY <2>5, <3>2 DEF StoreMessage
      <4>. QED BY <2>3, <4>1 DEF MessageTypes
    <3>. QED BY <3>1, <3>2
  <2>6. CASE CountMessage(c, m)
    <3>1. PICK point \in {"bot", "idle"} : At(c, m, point)
      BY <2>6 DEF CountMessage
    <3>2. handler[c][m] = "count" /\ inbox' = inbox /\ taken' = [taken EXCEPT ![m].applied = @ + 1]
      BY <2>6 DEF CountMessage
    <3>3. /\ taken' \in [Messages -> [applied : Nat, bot : Nat]]
          /\ taken'[m].applied = taken[m].applied + 1 /\ taken'[m].bot = taken[m].bot
          /\ \A n \in Messages : n # m => taken'[n] = taken[n]
      BY <3>2 DEF MessageTypes
    <3>4. MessageTypes'
      BY <2>1, <3>1, <3>2, <3>3 DEF MessageTypes
    <3>5. taken[m].applied = 0 /\ taken[m].bot \in Nat /\ taken[m].bot <= 0
      BY <2>2, <3>2 DEF MessageOK, MessageTypes
    <3>6. m \in inbox.stored /\ \A d \in Clients \ {c} : ~Taking(d, m)
      BY <2>2, <3>2 DEF MessageOK, Taking
    <3>7. MessageOK(m)'
      BY <2>1, <3>1, <3>2, <3>3, <3>5, <3>6 DEF MessageOK, Taking
    <3>8. \A n \in Messages : n # m => MessageOK(n)'
      BY <3>1, <3>2, <3>3, OthersUntouched
    <3>. QED BY <3>4, <3>7, <3>8 DEF MessageInv
  <2>7. CASE CallBot(c, m)
    <3>1. /\ At(c, m, "idle") /\ handler[c][m] = "bot" /\ inbox' = inbox
          /\ taken' = [taken EXCEPT ![m].bot = @ + 1]
      BY <2>7 DEF CallBot
    <3>2. /\ taken' \in [Messages -> [applied : Nat, bot : Nat]]
          /\ taken'[m].bot = taken[m].bot + 1 /\ taken'[m].applied = taken[m].applied
          /\ \A n \in Messages : n # m => taken'[n] = taken[n]
      BY <3>1 DEF MessageTypes
    <3>3. MessageTypes'
      BY <2>1, <3>1, <3>2 DEF MessageTypes
    <3>4. taken[m].applied = 1 /\ taken[m].bot = 0 /\ m \in inbox.stored
          /\ \A d \in Clients \ {c} : ~Taking(d, m)
      BY <2>2, <3>1 DEF MessageOK, Taking
    <3>5. MessageOK(m)'
      BY <2>1, <3>1, <3>2, <3>4 DEF MessageOK, Taking
    <3>6. \A n \in Messages : n # m => MessageOK(n)'
      BY <3>1, <3>2, OthersUntouched
    <3>. QED BY <3>3, <3>5, <3>6 DEF MessageInv
  <2>. QED BY <1>3, <2>4, <2>5, <2>6, <2>7 DEF HandlerStep
<1>. QED BY <1>1, <1>2, <1>3, HandlersFrame
-----------------------------------------------------------------------------
(* Logins.                                                                  *)

\* What an action of one client does to the others: nothing, but for a login
\* that a new one replaces.
LEMMA OtherLoginsStay ==
  ASSUME LoginTypes, LoginInv, NEW c \in Clients, NEW d \in Clients \ {c},
         task'[d] = task[d], login'[d] = login[d],
         session' = session \/ session'.by = c,
         active' \in {active, c}, d \in attached' <=> d \in attached,
         d \in pending' <=> d \in pending, d \in voided' <=> d \in voided,
         d \in writing' <=> d \in writing
  PROVE  LoginOK(d)'
  BY DEF LoginInv, LoginOK, Unknown, Begun

LEMMA LoginStepOK ==
  ASSUME LoginTypes, LoginInv, NEW c \in Clients, LoginStep(c)
  PROVE  LoginInv'
<1>. SUFFICES ASSUME NEW d \in Clients PROVE LoginOK(d)'
  BY DEF LoginInv, LoginOK
<1>0. LoginOK(d) /\ LoginOK(c)
  BY DEF LoginInv, LoginOK
<1>. USE DEF LoginTypes, To, loginVars, clientVars, droppedVars, Begun, Saving
<1>1. CASE StartLogin(c)
  <2>1. CASE UNCHANGED <<pending, voided, writing>>
    BY <1>0, <1>1, <2>1 DEF StartLogin, LoginOK, Unknown, Unsaved
  <2>2. ASSUME NEW old \in Unfinished, Drop({old}) PROVE LoginOK(d)'
    <3>1. UNCHANGED <<session, login, active, attached>> /\ task' = [task EXCEPT ![c] = "connect"]
          /\ task[c] = "idle"
      BY <1>1 DEF StartLogin
    <3>2. /\ pending' = pending \ {old}
          /\ voided' = voided \cup {x \in {old} : task[x] \in Unsaved \cup Saving}
          /\ writing' = writing \cup {x \in {old} : task[x] \in Saving}
      BY <2>2 DEF Drop
    <3>3. CASE d = c
      BY <1>0, <3>1, <3>2, <3>3 DEF LoginOK, Unknown, Unsaved
    <3>4. CASE d # c
      BY <1>0, <3>1, <3>2, <3>4 DEF LoginOK, Unknown
    <3>. QED BY <3>3, <3>4
  <2>. QED BY <1>1, <2>1, <2>2 DEF StartLogin
<1>2. CASE ConnectLogin(c)
  <2>1. CASE d = c
    BY <1>0, <1>2, <2>1 DEF ConnectLogin, SetLogin, LoginOK, Unknown, Unsaved
  <2>2. CASE d # c
    BY <1>2, <2>2, OtherLoginsStay DEF ConnectLogin, SetLogin
  <2>. QED BY <2>1, <2>2
<1>3. CASE AskPassword(c) \/ AskAgain(c)
  <2>1. CASE d = c
    BY <1>0, <1>3, <2>1 DEF AskPassword, AskAgain, SetLogin, LoginOK, Unknown, Unsaved
  <2>2. CASE d # c
    BY <1>3, <2>2, OtherLoginsStay DEF AskPassword, AskAgain, SetLogin
  <2>. QED BY <2>1, <2>2
<1>4. CASE SubmitPassword(c)
  <2>1. CASE d = c
    BY <1>0, <1>4, <2>1 DEF SubmitPassword, SetLogin, LoginOK, Unknown, Unsaved
  <2>2. CASE d # c
    BY <1>4, <2>2, OtherLoginsStay DEF SubmitPassword, SetLogin
  <2>. QED BY <2>1, <2>2
<1>5. CASE SignIn(c)
  <2>1. CASE d = c
    BY <1>0, <1>5, <2>1 DEF SignIn, LoginOK, Unknown, Unsaved
  <2>2. CASE d # c
    BY <1>5, <2>2, OtherLoginsStay DEF SignIn
  <2>. QED BY <2>1, <2>2
<1>6. CASE LoginFails(c)
  <2>1. CASE d = c
    BY <1>0, <1>6, <2>1 DEF LoginFails, SetLogin, LoginOK, Unknown, Unsaved
  <2>2. CASE d # c
    BY <1>6, <2>2, OtherLoginsStay DEF LoginFails, SetLogin
  <2>. QED BY <2>1, <2>2
<1>7. CASE CheckLogin(c)
  <2>1. CASE d = c
    BY <1>0, <1>7, <2>1 DEF CheckLogin, StillPending, LoginOK, Unknown, Unsaved
  <2>2. CASE d # c
    BY <1>7, <2>2, OtherLoginsStay DEF CheckLogin
  <2>. QED BY <2>1, <2>2
<1>8. CASE SaveSession(c)
  <2>1. CASE d = c
    BY <1>0, <1>8, <2>1 DEF SaveSession, LoginOK, Unknown, Unsaved
  <2>2. CASE d # c
    BY <1>8, <2>2, OtherLoginsStay DEF SaveSession
  <2>. QED BY <2>1, <2>2
<1>9. CASE FinishLogin(c)
  <2>1. CASE d = c
    BY <1>0, <1>9, <2>1 DEF FinishLogin, SetLogin, Attach, LoginOK, Unknown, Unsaved
  <2>2. CASE d # c
    BY <1>9, <2>2, OtherLoginsStay DEF FinishLogin, SetLogin, Attach
  <2>. QED BY <2>1, <2>2
<1>. QED BY <1>1, <1>2, <1>3, <1>4, <1>5, <1>6, <1>7, <1>8, <1>9 DEF LoginStep

LEMMA RestoreStepOK ==
  ASSUME LoginTypes, LoginInv, NEW c \in Clients, RestoreStep(c)
  PROVE  LoginInv'
<1>. SUFFICES ASSUME NEW d \in Clients PROVE LoginOK(d)'
  BY DEF LoginInv, LoginOK
<1>0. LoginOK(d)
  BY DEF LoginInv, LoginOK
<1>. USE DEF LoginTypes, To, loginVars, clientVars, droppedVars, Begun, Saving
<1>1. CASE AskClient(c) \/ LookUpSession(c) \/ Reconnect(c) \/ Authorize(c)
  <2>1. UNCHANGED <<session, loginVars, active, attached, droppedVars>>
    BY <1>1 DEF AskClient, LookUpSession, Reconnect, Authorize
  <2>2. task[c] \in {"idle", "lookup", "reconnect", "authorize"}
        /\ \E point \in {"lookup", "reconnect", "authorize", "refresh", "over"} :
             task' = [task EXCEPT ![c] = point]
    BY <1>1 DEF AskClient, LookUpSession, Reconnect, Authorize
  <2>3. CASE d = c
    BY <1>0, <2>1, <2>2, <2>3 DEF LoginOK, Unknown, Unsaved
  <2>4. CASE d # c
    BY <2>1, <2>2, <2>4, OtherLoginsStay
  <2>. QED BY <2>3, <2>4
<1>2. CASE FinishRestore(c)
  <2>1. CASE d = c
    BY <1>0, <1>2, <2>1 DEF FinishRestore, Attach, LoginOK, Unknown, Unsaved
  <2>2. CASE d # c
    BY <1>2, <2>2, OtherLoginsStay DEF FinishRestore, Attach
  <2>. QED BY <2>1, <2>2
<1>. QED BY <1>1, <1>2 DEF RestoreStep

LEMMA LoginInvStep ==
  ASSUME LoginTypes, LoginInv, TelegramNext
  PROVE  LoginInv'
<1>1. ASSUME NEW c \in Clients, LoginStep(c) \/ RestoreStep(c) PROVE LoginInv'
  BY <1>1, LoginStepOK, RestoreStepOK
<1>. SUFFICES ASSUME NEW d \in Clients PROVE LoginOK(d)'
  BY DEF LoginInv, LoginOK
<1>0. LoginOK(d)
  BY DEF LoginInv, LoginOK
<1>. USE DEF LoginTypes, loginVars, clientVars, droppedVars, Begun, Saving
<1>2. CASE LogoutStep
  <2>1. CASE DropLogins
    BY <1>0, <2>1 DEF DropLogins, Drop, LoginOK, Unknown
  <2>2. CASE StartLogout \/ ForgetClient \/ DeleteSession \/ DisableSession
    <3>1. UNCHANGED <<loginVars, attached, task, droppedVars>>
      BY <2>2 DEF StartLogout, ForgetClient, DeleteSession, DisableSession
    <3>2. active' \in {active, NoClient} /\ session'.by \in {session.by, NoClient}
      BY <2>2 DEF StartLogout, ForgetClient, DeleteSession, DisableSession, NoSession
    <3>. QED BY <1>0, <3>1, <3>2 DEF LoginOK, Unknown
  <2>. QED BY <1>2, <2>1, <2>2 DEF LogoutStep
<1>3. ASSUME NEW c \in Clients, NEW m \in Messages, HandlerStep(c, m) PROVE LoginOK(d)'
  BY <1>0, <1>3 DEF HandlerStep, LoginOK, Unknown
<1>4. CASE CrashTelegram
  <2>1. /\ pending' = {} /\ active' = NoClient /\ attached' = {}
        /\ task'[d] = IF task[d] = "idle" THEN "idle" ELSE "over"
        /\ UNCHANGED <<session, login, droppedVars>>
    BY <1>4 DEF CrashTelegram
  <2>. QED BY <1>0, <2>1 DEF LoginOK, Unknown, Unsaved
<1>. QED BY <1>1, <1>2, <1>3, <1>4 DEF TelegramNext, LoginInv, LoginOK
-----------------------------------------------------------------------------
(* Logouts.                                                                 *)

\* A step that leaves the logout alone: whoever becomes the client or the
\* session now was about to.
LEMMA LogoutKept ==
  ASSUME LoginTypes, NEW d \in Clients, LoginOK(d), LogoutOK(d), logout' = logout,
         Begun(d) => Begun(d)', task[d] = "over" => task'[d] = "over",
         d \in voided => d \in voided', d \in writing => d \in writing',
         active' = d => active = d \/ task[d] \in {"finish", "refresh"},
         session'.by = d => session.by = d \/ task[d] = "save"
  PROVE  LogoutOK(d)'
  BY DEF LoginTypes, LoginOK, LogoutOK, Begun, Unsaved, Saving

LEMMA LogoutInvStep ==
  ASSUME LoginTypes, LoginInv, LogoutInv, TelegramNext
  PROVE  LogoutInv'
<1>. SUFFICES ASSUME NEW d \in Clients PROVE LogoutOK(d)'
  BY DEF LogoutInv
<1>0. LoginOK(d) /\ LogoutOK(d)
  BY DEF LoginInv, LogoutInv
<1>. USE DEF LoginTypes, loginVars, clientVars, droppedVars, Begun, Unsaved, Saving, To
<1>1. ASSUME NEW c \in Clients, LoginStep(c) PROVE LogoutOK(d)'
  <2>1. CASE StartLogin(c)
    BY <1>0, <2>1, LogoutKept DEF StartLogin, Drop
  <2>2. CASE ConnectLogin(c) \/ AskPassword(c) \/ AskAgain(c) \/ SignIn(c)
             \/ LoginFails(c) \/ CheckLogin(c)
    BY <1>0, <2>2, LogoutKept
       DEF ConnectLogin, AskPassword, AskAgain, SignIn, LoginFails, CheckLogin
  <2>3. CASE SubmitPassword(c)
    <3>1. task[c] = "password"
      BY <2>3 DEF SubmitPassword, LoginInv, LoginOK
    <3>. QED BY <1>0, <2>3, <3>1, LogoutKept DEF SubmitPassword
  <2>4. CASE SaveSession(c)
    BY <1>0, <2>4, LogoutKept DEF SaveSession
  <2>5. CASE FinishLogin(c)
    BY <1>0, <2>5, LogoutKept DEF FinishLogin, Attach
  <2>. QED BY <1>1, <2>1, <2>2, <2>3, <2>4, <2>5 DEF LoginStep
<1>2. ASSUME NEW c \in Clients, RestoreStep(c) PROVE LogoutOK(d)'
  <2>1. CASE AskClient(c) \/ LookUpSession(c) \/ Reconnect(c) \/ Authorize(c)
    BY <1>0, <2>1, LogoutKept DEF AskClient, LookUpSession, Reconnect, Authorize
  <2>2. CASE FinishRestore(c)
    BY <1>0, <2>2, LogoutKept DEF FinishRestore, Attach
  <2>. QED BY <1>2, <2>1, <2>2 DEF RestoreStep
<1>3. CASE LogoutStep
  <2>1. CASE StartLogout
    <3>1. /\ logout' = [at |-> "drop", pending |-> pending,
                        clients |-> (pending \cup {active}) \ {NoClient}]
          /\ UNCHANGED <<session, active, pending, task, voided, writing>>
      BY <2>1 DEF StartLogout
    <3>. QED BY <1>0, <3>1 DEF LoginOK, LogoutOK
  <2>2. CASE DropLogins
    <3>1. /\ logout.at = "drop" /\ UNCHANGED <<session, active, task>>
          /\ voided' = voided \cup {c \in logout.pending : task[c] \in Unsaved \cup Saving}
          /\ writing' = writing \cup {c \in logout.pending : task[c] \in Saving}
      BY <2>2 DEF DropLogins, Drop
    <3>2. CASE logout' = [logout EXCEPT !.at = "forget"]
      <4>1. /\ logout'.at = "forget" /\ logout'.clients = logout.clients
            /\ logout'.pending = logout.pending
        BY <3>2
      <4>2. d \in logout.clients => d \in voided' \/ task[d] = "over"
        BY <1>0, <3>1 DEF LogoutOK
      <4>3. d \in logout.clients => Begun(d)
        BY <1>0 DEF LogoutOK
      <4>. QED BY <3>1, <4>1, <4>2, <4>3 DEF LogoutOK
    <3>3. CASE logout' = NoLogout
      BY <3>3 DEF LogoutOK, NoLogout
    <3>. QED BY <2>2, <3>2, <3>3 DEF DropLogins
  <2>3. CASE ForgetClient
    <3>1. /\ logout.at = "forget" /\ logout'.at = "delete" /\ logout'.clients = logout.clients
          /\ active' = NoClient /\ UNCHANGED <<task, voided, writing>>
      BY <2>3 DEF ForgetClient
    <3>. QED BY <1>0, <3>1 DEF LogoutOK
  <2>4. CASE DeleteSession
    <3>1. /\ logout.at = "delete" /\ logout'.clients = logout.clients
          /\ UNCHANGED <<active, task, voided, writing>>
          /\ \/ session' = NoSession /\ logout'.at = "out"
             \/ logout'.at = "disable"
      BY <2>4 DEF DeleteSession
    <3>. QED BY <1>0, <3>1 DEF LogoutOK, NoSession
  <2>5. CASE DisableSession
    BY <2>5 DEF DisableSession, NoLogout, LogoutOK
  <2>. QED BY <1>3, <2>1, <2>2, <2>3, <2>4, <2>5 DEF LogoutStep
<1>4. ASSUME NEW c \in Clients, NEW m \in Messages, HandlerStep(c, m) PROVE LogoutOK(d)'
  BY <1>0, <1>4, LogoutKept DEF HandlerStep
<1>5. CASE CrashTelegram
  BY <1>5 DEF CrashTelegram, NoLogout, LogoutOK
<1>. QED BY <1>1, <1>2, <1>3, <1>4, <1>5 DEF TelegramNext
-----------------------------------------------------------------------------
(* The theorems.                                                            *)

LEMMA TelegramInitOK == TelegramInit => TelegramInv
<1>. SUFFICES ASSUME TelegramInit PROVE TelegramInv
  OBVIOUS
<1>1. LoginTypes /\ MessageTypes
  BY DEF TelegramInit, LoginTypes, MessageTypes, Logins, NoSession, NoLogout, NewLogin,
         TaskPoints, HandlerPoints
<1>2. LoginInv
  BY DEF TelegramInit, LoginInv, LoginOK, Unknown, NoSession, Unsaved
<1>3. LogoutInv
  BY DEF TelegramInit, LogoutInv, LogoutOK, NoLogout
<1>4. MessageInv
  BY DEF TelegramInit, MessageInv, MessageOK, Taking
<1>. QED BY <1>1, <1>2, <1>3, <1>4, TypesSplit DEF TelegramInv

LEMMA TelegramStepOK == TelegramInv /\ [TelegramNext]_telegramVars => TelegramInv'
<1>. SUFFICES ASSUME TelegramInv, [TelegramNext]_telegramVars PROVE TelegramInv'
  OBVIOUS
<1>1. LoginTypes /\ MessageTypes /\ LoginInv /\ LogoutInv /\ MessageInv
  BY TypesSplit DEF TelegramInv
<1>2. CASE TelegramNext
  <2>1. LoginTypes' /\ MessageTypes' /\ LoginInv' /\ LogoutInv' /\ MessageInv'
    BY <1>1, <1>2, LoginTypesStep, MessageStep, LoginInvStep, LogoutInvStep
  <2>2. TelegramTypeOK'
    BY <2>1 DEF TelegramTypeOK, LoginTypes, MessageTypes, Logins
  <2>. QED BY <2>1, <2>2 DEF TelegramInv
<1>3. CASE UNCHANGED telegramVars
  BY <1>3 DEF TelegramInv, TelegramTypeOK, LoginInv, LoginOK, LogoutInv, LogoutOK, Begun,
              Unknown, MessageInv, MessageOK, Taking, telegramVars, loginVars, clientVars,
              messageVars, droppedVars
<1>. QED BY <1>2, <1>3

\* The maps, the document and the tasks keep their types, messages are taken
\* in order, voided logins stay silent and a logout empties the maps: the
\* invariant, in every state.
THEOREM TelegramInductive == TelegramSpec => []TelegramInv
  BY TelegramInitOK, TelegramStepOK, PTL DEF TelegramSpec

\* telegram-personal.service.ts:306 and :360: a message takes effect once and
\* starts the bot once, after it was stored.
THEOREM MessagesAreTakenOnce == TelegramSpec => []TakenOnce
<1>1. TelegramInv => TakenOnce
  <2>. SUFFICES ASSUME TelegramInv, NEW m \in Messages
       PROVE /\ taken[m].applied <= 1
             /\ taken[m].bot <= taken[m].applied
             /\ taken[m].applied > 0 => m \in inbox.stored
    BY DEF TakenOnce
  <2>1. MessageOK(m)
    BY DEF TelegramInv, MessageInv
  <2>. QED BY <2>1 DEF MessageOK
<1>. QED BY <1>1, TelegramInductive, PTL

\* telegram-personal.service.ts:142, :149 and :217: a login taken from the map
\* before its session was being written writes no session and becomes no
\* listener, and after a logout nothing it found comes back but a login whose
\* session was being written when it was dropped.
THEOREM VoidedLoginsStaySilent == TelegramSpec => []VoidedLoginIsSilent
<1>1. TelegramInv => VoidedLoginIsSilent
  <2>. SUFFICES ASSUME TelegramInv PROVE VoidedLoginIsSilent
    OBVIOUS
  <2>1. voided \subseteq Clients /\ logout.clients \subseteq Clients
    BY DEF TelegramInv, TelegramTypeOK
  <2>2. \A c \in voided \ writing : Unknown(c)
    BY <2>1 DEF TelegramInv, LoginInv, LoginOK
  <2>3. logout.at = "out" => NothingComesBack(logout.clients \ writing)
    BY <2>1 DEF TelegramInv, LogoutInv, LogoutOK, NothingComesBack
  <2>. QED BY <2>2, <2>3 DEF VoidedLoginIsSilent, Unknown
<1>. QED BY <1>1, TelegramInductive, PTL
-----------------------------------------------------------------------------
(* The server.                                                              *)

AttemptPoints == {"new", "scheduled", "connecting", "opened", "rejected", "ok", "failed", "over"}

ClientInv ==
  /\ closer = "closed" =>
       client = "closed" \/ (client = "ready" /\ \E a \in Attempts : attempt[a].raw = "opened")
  /\ client = "ready" =>
       \E a \in Attempts : \/ attempt[a].raw = "opened"
                           \/ ~attempt[a].invalidated /\ attempt[a].raw \in {"ok", "over"}

ServerInv == ServerTypeOK /\ ClientInv

LEMMA ServerStarts == ServerInit => ServerInv
  BY DEF ServerInit, ServerInv, ServerTypeOK, ClientInv, BootPoints, StopPoints, NewAttempt

\* What a step of the store does to one attempt.
BecomesAttempt(a, raw, invalidated) ==
  /\ attempt' \in [Attempts -> [raw : AttemptPoints, invalidated : BOOLEAN]]
  /\ attempt'[a].raw = raw /\ attempt'[a].invalidated = invalidated
  /\ \A b \in Attempts : b # a => attempt'[b] = attempt[b]

\* What a step of the store does to an attempt, in terms of the parts of it.
LEMMA AttemptChanges ==
  ASSUME ServerTypeOK, NEW a \in Attempts
  PROVE  /\ \A raw \in AttemptPoints :
              attempt' = [attempt EXCEPT ![a].raw = raw] => BecomesAttempt(a, raw, attempt[a].invalidated)
         /\ attempt' = [attempt EXCEPT ![a].invalidated = TRUE] =>
              BecomesAttempt(a, attempt[a].raw, TRUE)
         /\ attempt' = [attempt EXCEPT ![a] = [raw |-> "over", invalidated |-> TRUE]] =>
              BecomesAttempt(a, "over", TRUE)
<1>1. attempt \in [Attempts -> [raw : AttemptPoints, invalidated : BOOLEAN]]
  BY DEF ServerTypeOK, AttemptPoints
<1>2. "over" \in AttemptPoints
  BY DEF AttemptPoints
<1>3. ASSUME NEW raw \in AttemptPoints, attempt' = [attempt EXCEPT ![a].raw = raw]
      PROVE  BecomesAttempt(a, raw, attempt[a].invalidated)
  <2>. DEFINE x == [attempt[a] EXCEPT !.raw = raw]
  <2>1. /\ x \in [raw : AttemptPoints, invalidated : BOOLEAN]
        /\ x.raw = raw /\ x.invalidated = attempt[a].invalidated
        /\ attempt' = [attempt EXCEPT ![a] = x]
    BY <1>1, <1>3
  <2>. HIDE DEF x
  <2>. QED BY <1>1, <2>1 DEF BecomesAttempt
<1>4. ASSUME attempt' = [attempt EXCEPT ![a].invalidated = TRUE]
      PROVE  BecomesAttempt(a, attempt[a].raw, TRUE)
  <2>. DEFINE x == [attempt[a] EXCEPT !.invalidated = TRUE]
  <2>1. /\ x \in [raw : AttemptPoints, invalidated : BOOLEAN]
        /\ x.raw = attempt[a].raw /\ x.invalidated = TRUE
        /\ attempt' = [attempt EXCEPT ![a] = x]
    BY <1>1, <1>4
  <2>. HIDE DEF x
  <2>. QED BY <1>1, <2>1 DEF BecomesAttempt
<1>5. ASSUME attempt' = [attempt EXCEPT ![a] = [raw |-> "over", invalidated |-> TRUE]]
      PROVE  BecomesAttempt(a, "over", TRUE)
  BY <1>1, <1>2, <1>5 DEF BecomesAttempt
<1>. QED BY <1>3, <1>4, <1>5

StoreTypes ==
  /\ client \in {"closed", "opening", "ready"}
  /\ attempt \in [Attempts -> [raw : AttemptPoints, invalidated : BOOLEAN]]
  /\ current \in Attempts \cup {NoAttempt}
  /\ closer \in {"open", "waiting", "quit", "destroy", "closed"}

\* A client is ready by an attempt that has just opened it or that stands, and
\* after the close only by one that is about to end.
LEMMA AttemptSteps ==
  ASSUME ServerInv, NEW a \in Attempts,
         \/ Connect(a) \/ RawConnect(a) \/ SocketOpens(a) \/ RawEnds(a) \/ AttemptEnds(a)
         \/ AttemptTimesOut(a)
  PROVE  StoreTypes' /\ ClientInv'
<1>. USE DEF ServerInv
<1>0. StoreTypes /\ ServerTypeOK
  BY DEF ServerTypeOK, StoreTypes, AttemptPoints
<1>1. CASE Connect(a)
  <2>1. BecomesAttempt(a, "scheduled", attempt[a].invalidated)
    BY <1>0, <1>1, AttemptChanges DEF Connect, AttemptPoints
  <2>. QED BY <1>0, <1>1, <2>1 DEF Connect, BecomesAttempt, StoreTypes, ClientInv
<1>2. CASE RawConnect(a)
  <2>1. CASE MayOpen
    <3>1. BecomesAttempt(a, "connecting", attempt[a].invalidated)
      BY <1>0, <1>2, <2>1, AttemptChanges DEF RawConnect, AttemptPoints
    <3>. QED BY <1>0, <1>2, <2>1, <3>1 DEF RawConnect, MayOpen, BecomesAttempt, StoreTypes,
                ClientInv
  <2>2. CASE ~MayOpen
    <3>1. BecomesAttempt(a, "rejected", attempt[a].invalidated)
      BY <1>0, <1>2, <2>2, AttemptChanges DEF RawConnect, AttemptPoints
    <3>. QED BY <1>0, <1>2, <2>2, <3>1 DEF RawConnect, BecomesAttempt, StoreTypes, ClientInv
  <2>. QED BY <2>1, <2>2
<1>3. CASE SocketOpens(a)
  <2>1. \/ client' = "ready" /\ BecomesAttempt(a, "opened", attempt[a].invalidated)
        \/ client' = "closed" /\ BecomesAttempt(a, "rejected", attempt[a].invalidated)
    BY <1>0, <1>3, AttemptChanges DEF SocketOpens, AttemptPoints
  <2>. QED BY <1>0, <1>3, <2>1 DEF SocketOpens, BecomesAttempt, StoreTypes, ClientInv
<1>4. CASE RawEnds(a)
  <2>. DEFINE raw == IF attempt[a].invalidated THEN "over"
                     ELSE IF attempt[a].raw = "opened" THEN "ok" ELSE "failed"
  <2>1. raw \in AttemptPoints /\ (~attempt[a].invalidated /\ attempt[a].raw = "opened" => raw = "ok")
    BY DEF AttemptPoints
  <2>2. attempt' = [attempt EXCEPT ![a].raw = raw]
    BY <1>4 DEF RawEnds
  <2>. HIDE DEF raw
  <2>3. BecomesAttempt(a, raw, attempt[a].invalidated)
    BY <1>0, <2>1, <2>2, AttemptChanges
  <2>4. CASE MustDestroy(a)
    <3>1. client' = "closed" /\ UNCHANGED <<current, closer>>
      BY <1>4, <2>4 DEF RawEnds
    <3>. QED BY <1>0, <2>3, <3>1 DEF BecomesAttempt, StoreTypes, ClientInv
  <2>5. CASE ~MustDestroy(a)
    <3>1. client' = client /\ UNCHANGED <<current, closer>> /\ ~attempt[a].invalidated /\ closer = "open"
          /\ attempt[a].raw \in {"opened", "rejected"}
      BY <1>4, <2>5 DEF RawEnds, MustDestroy
    <3>. QED BY <1>0, <2>1, <2>3, <3>1 DEF BecomesAttempt, StoreTypes, ClientInv
  <2>. QED BY <2>4, <2>5
<1>5. CASE AttemptEnds(a)
  <2>1. current' \in Attempts \cup {NoAttempt} /\ closer' = closer
    BY <1>0, <1>5 DEF AttemptEnds, Forget, StoreTypes
  <2>2. CASE attempt[a].raw = "ok" /\ closer = "open" /\ client' = client
             /\ attempt' = [attempt EXCEPT ![a].raw = "over"]
    <3>1. BecomesAttempt(a, "over", attempt[a].invalidated)
      BY <1>0, <2>2, AttemptChanges DEF AttemptPoints
    <3>. QED BY <1>0, <2>1, <2>2, <3>1 DEF BecomesAttempt, StoreTypes, ClientInv
  <2>3. CASE client' = "closed" /\ attempt' = [attempt EXCEPT ![a] = [raw |-> "over", invalidated |-> TRUE]]
    <3>1. BecomesAttempt(a, "over", TRUE)
      BY <1>0, <2>3, AttemptChanges
    <3>. QED BY <1>0, <2>1, <2>3, <3>1 DEF BecomesAttempt, StoreTypes, ClientInv
  <2>. QED BY <1>5, <2>2, <2>3 DEF AttemptEnds
<1>6. CASE AttemptTimesOut(a)
  <2>1. BecomesAttempt(a, attempt[a].raw, TRUE)
    BY <1>0, <1>6, AttemptChanges DEF AttemptTimesOut
  <2>2. current' \in Attempts \cup {NoAttempt} /\ closer' = closer /\ client' = "closed"
    BY <1>0, <1>6 DEF AttemptTimesOut, Forget, StoreTypes
  <2>. QED BY <1>0, <2>1, <2>2 DEF BecomesAttempt, StoreTypes, ClientInv
<1>. QED BY <1>1, <1>2, <1>3, <1>4, <1>5, <1>6

ProcessTypes ==
  /\ boot \in BootPoints
  /\ stop \in [Signals -> StopPoints]
  /\ parts \subseteq {"db", "lock", "http", "sockets", "scheduler"}
  /\ zalo \in {"no", "find", "acquire", "login", "listening", "over"}

LEMMA ServerTypesSplit == ServerTypeOK <=> ProcessTypes /\ StoreTypes
  BY DEF ServerTypeOK, ProcessTypes, StoreTypes, AttemptPoints

\* The invariant of the server: types and ClientInv.
LEMMA ServerSteps ==
  ASSUME ServerInv, [ServerNext]_serverVars
  PROVE  ServerInv'
<1>0. ServerTypeOK /\ ClientInv /\ ProcessTypes /\ StoreTypes
  BY ServerTypesSplit DEF ServerInv
<1>1. ASSUME UNCHANGED storeVars PROVE StoreTypes' /\ ClientInv'
  BY <1>0, <1>1 DEF storeVars, StoreTypes, ClientInv
<1>2. ASSUME UNCHANGED <<bootVars, stop, zalo>> PROVE ProcessTypes'
  BY <1>0, <1>2 DEF bootVars, ProcessTypes
<1>3. ASSUME \/ ConnectDatabase \/ Hydrate \/ SetUpLock \/ CleanUp \/ Listen
             \/ TelegramRestored \/ ZaloRestored \/ RestoreZalo
      PROVE  ProcessTypes' /\ UNCHANGED storeVars
  <2>1. CASE ConnectDatabase \/ Hydrate \/ SetUpLock \/ CleanUp \/ Listen
    BY <1>0, <2>1 DEF ConnectDatabase, Hydrate, SetUpLock, CleanUp, Listen, Boots, ProcessTypes,
                      BootPoints, StopPoints
  <2>2. CASE TelegramRestored \/ ZaloRestored \/ RestoreZalo
    BY <1>0, <2>2 DEF TelegramRestored, ZaloRestored, RestoreZalo, bootVars, ProcessTypes,
       BootPoints
  <2>. QED BY <1>3, <2>1, <2>2
<1>4. ASSUME NEW s \in Signals, ShutdownStep(s) PROVE ProcessTypes' /\ StoreTypes' /\ ClientInv'
  <2>. USE DEF Stops, StopPoints
  <2>1. CASE CloseStore(s)
    <3>1. ProcessTypes'
      BY <1>0, <2>1 DEF CloseStore, bootVars, ProcessTypes
    <3>2. /\ client' \in {client, "closed"} /\ UNCHANGED <<attempt, current>>
          /\ closer' = closer \/ (closer = "open" /\ closer' = "waiting")
      BY <2>1 DEF CloseStore
    <3>. QED BY <1>0, <3>1, <3>2 DEF StoreTypes, ClientInv
  <2>2. CASE Signal(s) \/ StopZalo(s) \/ StoreClosed(s)
    <3>1. ProcessTypes' /\ UNCHANGED storeVars
      BY <1>0, <2>2 DEF Signal, StopZalo, StoreClosed, bootVars, ProcessTypes, BootPoints
    <3>. QED BY <1>1, <3>1
  <2>3. CASE \/ StopPart(s, "sockets", "sockets", "lock") \/ StopPart(s, "lock", "lock", "store")
             \/ StopPart(s, "http", "http", "db") \/ StopPart(s, "db", "db", "down")
    <3>1. ProcessTypes' /\ UNCHANGED storeVars
      BY <1>0, <2>3 DEF StopPart, ProcessTypes
    <3>. QED BY <1>1, <3>1
  <2>. QED BY <1>4, <2>1, <2>2, <2>3 DEF ShutdownStep
<1>5. ASSUME NEW a \in Attempts,
             \/ Connect(a) \/ RawConnect(a) \/ SocketOpens(a) \/ RawEnds(a) \/ AttemptEnds(a)
             \/ AttemptTimesOut(a)
      PROVE  ProcessTypes' /\ StoreTypes' /\ ClientInv'
  <2>1. UNCHANGED <<bootVars, stop, zalo>>
    BY <1>5 DEF Connect, RawConnect, SocketOpens, RawEnds, AttemptEnds, AttemptTimesOut,
       StoreUnchanged
  <2>. QED BY <1>2, <1>5, <2>1, AttemptSteps
<1>6. ASSUME AwaitAttempt \/ Quit \/ Destroy \/ LoseRedis
      PROVE  ProcessTypes' /\ StoreTypes' /\ ClientInv'
  <2>1. /\ client' \in {client, "closed"} /\ UNCHANGED <<attempt, current, bootVars, stop, zalo>>
        /\ closer' \in {closer, "quit", "destroy"} \/ (client' = "closed" /\ closer' = "closed")
    BY <1>6 DEF AwaitAttempt, Quit, Destroy, LoseRedis, StoreUnchanged
  <2>2. StoreTypes' /\ ClientInv'
    BY <1>0, <2>1 DEF StoreTypes, ClientInv
  <2>. QED BY <1>2, <2>1, <2>2
<1>7. ASSUME UNCHANGED serverVars PROVE ProcessTypes' /\ StoreTypes' /\ ClientInv'
  BY <1>1, <1>2, <1>7 DEF serverVars
<1>8. ProcessTypes' /\ StoreTypes' /\ ClientInv'
  BY <1>1, <1>3, <1>4, <1>5, <1>6, <1>7 DEF ServerNext, StoreStep
<1>9. ServerTypeOK'
  BY <1>8 DEF ServerTypeOK, ProcessTypes, StoreTypes, AttemptPoints
<1>. QED BY <1>8, <1>9 DEF ServerInv

\* What it says of the store.
LEMMA StoreCloses == ServerInv => StoreStaysClosed
  BY DEF ServerInv, ClientInv, StoreStaysClosed, ActiveConnects
-----------------------------------------------------------------------------
(* The dialog with the QR code and the account's card.                      *)

Now == IF linked THEN "yes" ELSE "no"

CardKnows ==
  /\ ~belated => \A l, k \in Loads : loads[l] # "none" /\ loads[k] # "none" => l = k
  /\ ~belated /\ ~unheard =>
       /\ \A l \in Loads : loads[l] \in {"none", "sent", Now}
       /\ (\A l \in Loads : loads[l] = "none") => card = Now

LoginsKnown ==
  /\ Len(attempts) <= MaxAttempts
  /\ qr.status \in Unended => qr.id \in DOMAIN attempts
  /\ \A f \in QrSlots :
       \/ calls[f].kind \in {"none", "off"}
       \/ calls[f].kind = "start" /\ calls[f].said = ""
       \/ calls[f].id \in DOMAIN attempts

QrInv == QrTypeOK /\ LoginsKnown /\ CardKnows

CardTypes ==
  /\ {linked, unheard, belated} \subseteq BOOLEAN
  /\ card \in {"none", "yes", "no"}
  /\ loads \in [Loads -> {"none", "sent", "yes", "no"}]
QrCalls == [kind : {"none", "start", "poll", "password", "off"},
            id : 0..MaxAttempts, said : Statuses \cup {""}, mine : BOOLEAN]
Qrs == [id : 0..MaxAttempts, status : Statuses \cup {"none"}]
DialogTypes ==
  /\ attempts \in Seq(Statuses)
  /\ opened \in BOOLEAN
  /\ qr \in Qrs
  /\ calls \in [QrSlots -> QrCalls]

LEMMA QrTypesSplit == QrTypeOK <=> CardTypes /\ DialogTypes
  BY DEF QrTypeOK, CardTypes, DialogTypes, QrCalls, Qrs

-----------------------------------------------------------------------------
(* The card.                                                                *)

\* Whatever was unheard, a new request will tell, if it is the only one.
LEMMA LoadStatusKeeps ==
  ASSUME CardTypes, LoadStatus, linked' = linked, card' = card, unheard' \in BOOLEAN
  PROVE  CardTypes' /\ CardKnows'
<1>1. PICK l \in Loads :
        /\ loads[l] = "none" /\ loads' = [loads EXCEPT ![l] = "sent"]
        /\ belated' = \E k \in Loads : loads[k] # "none"
  BY DEF LoadStatus
<1>. QED BY <1>1 DEF CardTypes, CardKnows

\* An answer that reloads the card may be heard: the request it starts will tell.
LEMMA TellKeeps ==
  ASSUME CardTypes, CardKnows, linked' = linked, card' = card, NEW STATE connected,
         connected \in BOOLEAN, Tell(connected)
  PROVE  CardTypes' /\ CardKnows'
<1>1. CASE connected
  BY <1>1, LoadStatusKeeps DEF Tell, CardTypes
<1>2. CASE ~connected
  <2>1. UNCHANGED <<loads, belated>> /\ unheard' = unheard
    BY <1>2 DEF Tell, CardTypes
  <2>. QED BY <2>1 DEF CardTypes, CardKnows, Now
<1>. QED BY <1>1, <1>2

\* Of one request for the card, the answer is what the server has, unless it
\* changed that unheard.
LEMMA CardSteps ==
  ASSUME CardTypes, CardKnows, [QrNext]_qrVars
  PROVE  CardTypes' /\ CardKnows'
<1>. USE DEF cardVars, attemptVars
<1>0. ASSUME UNCHANGED <<card, loads, belated>>, linked' \in BOOLEAN, unheard' \in BOOLEAN,
             linked' # linked \/ unheard' # unheard => unheard'
      PROVE  CardTypes' /\ CardKnows'
  BY <1>0 DEF CardTypes, CardKnows, Now
<1>1. ASSUME Refresh PROVE CardTypes' /\ CardKnows'
  BY <1>1, LoadStatusKeeps DEF Refresh, CardTypes
<1>2. ASSUME NEW l \in Loads, ServeLoad(l) PROVE CardTypes' /\ CardKnows'
  <2>1. PICK fails \in BOOLEAN :
          /\ loads' = [loads EXCEPT ![l] = IF linked /\ ~fails THEN "yes" ELSE "no"]
          /\ unheard' = (unheard /\ fails)
          /\ belated' = (belated \/ fails)
    BY <1>2 DEF ServeLoad
  <2>2. CardTypes'
    BY <1>2, <2>1 DEF ServeLoad, CardTypes
  <2>3. CASE fails
    BY <1>2, <2>1, <2>2, <2>3 DEF ServeLoad, CardTypes, CardKnows
  <2>4. CASE ~fails
    <3>1. loads[l] = "sent" /\ loads' = [loads EXCEPT ![l] = Now] /\ UNCHANGED <<linked, card>>
          /\ belated' = belated
      BY <1>2, <2>1, <2>4 DEF ServeLoad, Now, CardTypes
    <3>. QED BY <2>2, <3>1 DEF CardTypes, CardKnows, Now
  <2>. QED BY <2>3, <2>4
<1>3. ASSUME NEW l \in Loads, Loaded(l) PROVE CardTypes' /\ CardKnows'
  BY <1>3 DEF Loaded, CardTypes, CardKnows, Now
<1>4. ASSUME OpenDialog \/ CloseDialog \/ LeaveProvider PROVE CardTypes' /\ CardKnows'
  BY <1>0, <1>4 DEF OpenDialog, CloseDialog, LeaveProvider, CardTypes
<1>5. ASSUME NEW i \in 1..MaxAttempts, Advance(i) PROVE CardTypes' /\ CardKnows'
  <2>1. PICK s \in {"password_required", "connected", "failed"} :
          /\ linked' = (linked \/ s = "connected") /\ unheard' = (unheard \/ s = "connected")
          /\ UNCHANGED <<card, loads, belated>>
    BY <1>5 DEF Advance
  <2>. QED BY <1>0, <2>1 DEF CardTypes
<1>6. ASSUME NEW f \in QrSlots, Start(f) \/ Poll(f) \/ SendPassword(f) \/ Deactivate(f)
      PROVE  CardTypes' /\ CardKnows'
  <2>1. UNCHANGED <<linked, card, loads, belated, unheard>>
    BY <1>6 DEF Start, Poll, SendPassword, Deactivate, Call
  <2>. QED BY <1>0, <2>1 DEF CardTypes
<1>7. ASSUME NEW f \in QrSlots, ServeStart(f) \/ ServeLogin(f) \/ CallLost(f)
      PROVE  CardTypes' /\ CardKnows'
  <2>1. UNCHANGED <<linked, card, loads, belated, unheard>>
    BY <1>7 DEF ServeStart, ServeLogin, CallLost
  <2>. QED BY <1>0, <2>1 DEF CardTypes
<1>8. ASSUME NEW f \in QrSlots, ServeOff(f) PROVE CardTypes' /\ CardKnows'
  BY <1>0, <1>8 DEF ServeOff, CardTypes
<1>9. ASSUME NEW f \in QrSlots, LoginAnswered(f) PROVE CardTypes' /\ CardKnows'
  <2>1. Tell(calls[f].kind = "poll" /\ calls[f].said = "connected") /\ UNCHANGED <<linked, card>>
    BY <1>9 DEF LoginAnswered
  <2>. QED BY <2>1, TellKeeps
<1>10. ASSUME NEW f \in QrSlots, OffAnswered(f) PROVE CardTypes' /\ CardKnows'
  <2>1. Tell(TRUE) /\ UNCHANGED <<linked, card>>
    BY <1>10 DEF OffAnswered
  <2>. QED BY <2>1, TellKeeps
<1>11. ASSUME UNCHANGED qrVars PROVE CardTypes' /\ CardKnows'
  BY <1>0, <1>11 DEF qrVars, CardTypes
<1>. QED BY <1>1, <1>2, <1>3, <1>4, <1>5, <1>6, <1>7, <1>8, <1>9, <1>10, <1>11 DEF QrNext

-----------------------------------------------------------------------------
(* The dialog.                                                              *)

BecomesCall(f, kind, id, said) ==
  /\ calls' \in [QrSlots -> QrCalls]
  /\ calls'[f].kind = kind /\ calls'[f].id = id /\ calls'[f].said = said
  /\ \A g \in QrSlots : g # f => calls'[g] = calls[g]

\* A free slot and a closed dialog.
LEMMA NoCallIs ==
  /\ NoCall \in QrCalls /\ NoCall.kind = "none" /\ NoCall.id = 0 /\ NoCall.said = ""
  /\ NoQr \in Qrs /\ NoQr.status = "none" /\ 0 \in 0..MaxAttempts
<1>1. 0 \in 0..MaxAttempts
  BY AttemptsBound
<1>. QED BY <1>1 DEF NoCall, QrCalls, NoQr, Qrs

\* What a step does to one slot.
LEMMA CallsChange ==
  ASSUME DialogTypes, NEW f \in QrSlots
  PROVE  /\ \A kind \in {"start", "poll", "password", "off"} : \A id \in 0..MaxAttempts :
              calls' = [calls EXCEPT ![f] = [kind |-> kind, id |-> id, said |-> "", mine |-> TRUE]]
                => BecomesCall(f, kind, id, "")
         /\ \A id \in 0..MaxAttempts : \A said \in Statuses :
              Says(f, id, said) => BecomesCall(f, calls[f].kind, id, said)
         /\ Return(f) => BecomesCall(f, "none", 0, "")
<1>0. calls \in [QrSlots -> QrCalls] /\ MaxAttempts \in Nat
  BY AttemptsBound DEF DialogTypes
<1>1. ASSUME NEW kind \in {"start", "poll", "password", "off"}, NEW id \in 0..MaxAttempts,
             calls' = [calls EXCEPT ![f] = [kind |-> kind, id |-> id, said |-> "", mine |-> TRUE]]
      PROVE  BecomesCall(f, kind, id, "")
  <2>. DEFINE x == [kind |-> kind, id |-> id, said |-> "", mine |-> TRUE]
  <2>1. x \in QrCalls /\ x.kind = kind /\ x.id = id /\ x.said = ""
    BY DEF QrCalls
  <2>. HIDE DEF x
  <2>2. calls' = [calls EXCEPT ![f] = x]
    BY <1>1 DEF x
  <2>. QED BY <1>0, <2>1, <2>2 DEF BecomesCall
<1>2. ASSUME NEW id \in 0..MaxAttempts, NEW said \in Statuses, Says(f, id, said)
      PROVE  BecomesCall(f, calls[f].kind, id, said)
  <2>. DEFINE x == [calls[f] EXCEPT !.id = id, !.said = said]
  <2>1. x \in QrCalls /\ x.kind = calls[f].kind /\ x.id = id /\ x.said = said
    BY <1>0 DEF QrCalls
  <2>2. calls' = [calls EXCEPT ![f] = x]
    BY <1>0, <1>2 DEF Says
  <2>. HIDE DEF x
  <2>. QED BY <1>0, <2>1, <2>2 DEF BecomesCall
<1>3. ASSUME Return(f) PROVE BecomesCall(f, "none", 0, "")
  <2>1. calls' = [calls EXCEPT ![f] = NoCall]
    BY <1>3 DEF Return
  <2>. QED BY <1>0, <2>1, NoCallIs DEF BecomesCall
<1>. QED BY <1>1, <1>2, <1>3

LEMMA AttemptsAre ==
  ASSUME DialogTypes, LoginsKnown
  PROVE  /\ DOMAIN attempts = 1..Len(attempts) /\ Len(attempts) \in Nat /\ MaxAttempts \in Nat
         /\ DOMAIN attempts \subseteq 0..MaxAttempts
         /\ \A i \in DOMAIN attempts : attempts[i] \in Statuses
         /\ Abandoned \in Seq(Statuses) /\ Len(Abandoned) = Len(attempts)
<1>1. /\ DOMAIN attempts = 1..Len(attempts) /\ Len(attempts) \in Nat /\ MaxAttempts \in Nat
      /\ \A i \in DOMAIN attempts : attempts[i] \in Statuses
  BY AttemptsBound DEF DialogTypes
<1>2. DOMAIN attempts \subseteq 0..MaxAttempts
  <2>1. Len(attempts) <= MaxAttempts
    BY DEF LoginsKnown
  <2>. QED BY <1>1, <2>1
<1>3. "gone" \in Statuses
  BY DEF Statuses
<1>4. Abandoned \in [1..Len(attempts) -> Statuses]
  BY <1>1, <1>3 DEF Abandoned
<1>. QED BY <1>1, <1>2, <1>4

DialogOK == DialogTypes' /\ LoginsKnown'

\* What the dialog shows and asks about is a login that was begun.
LEMMA DialogSteps ==
  ASSUME DialogTypes, LoginsKnown, [QrNext]_qrVars
  PROVE  DialogOK
<1>. USE DEF cardVars, attemptVars
<1>0. /\ DOMAIN attempts = 1..Len(attempts) /\ Len(attempts) \in Nat /\ MaxAttempts \in Nat
      /\ DOMAIN attempts \subseteq 0..MaxAttempts
      /\ \A i \in DOMAIN attempts : attempts[i] \in Statuses
      /\ Abandoned \in Seq(Statuses) /\ Len(Abandoned) = Len(attempts)
      /\ attempts \in Seq(Statuses) /\ opened \in BOOLEAN /\ qr \in Qrs /\ calls \in [QrSlots -> QrCalls]
  BY AttemptsAre DEF DialogTypes
<1>1. ASSUME UNCHANGED <<attempts, opened, qr, calls>> PROVE DialogOK
  BY <1>1 DEF DialogOK, DialogTypes, LoginsKnown
<1>2. ASSUME Refresh \/ (\E l \in Loads : ServeLoad(l) \/ Loaded(l)) \/ UNCHANGED qrVars
      PROVE  DialogOK
  BY <1>1, <1>2 DEF Refresh, ServeLoad, Loaded, qrVars
<1>3. ASSUME OpenDialog \/ LeaveProvider PROVE DialogOK
  <2>1. NoQr \in Qrs /\ NoQr.status \notin Unended
    BY NoCallIs DEF Unended
  <2>. QED BY <1>0, <1>3, <2>1 DEF OpenDialog, LeaveProvider, DialogOK, DialogTypes, LoginsKnown
<1>4. ASSUME CloseDialog PROVE DialogOK
  <2>1. NoQr \in Qrs /\ NoQr.status = "none" /\ NoCall \in QrCalls /\ NoCall.kind = "none"
    BY NoCallIs
  <2>2. \A f \in QrSlots : LET x == [calls[f] EXCEPT !.mine = FALSE] IN
          x \in QrCalls /\ x.kind = calls[f].kind /\ x.id = calls[f].id /\ x.said = calls[f].said
    BY <1>0 DEF QrCalls
  <2>3. /\ calls' \in [QrSlots -> QrCalls]
        /\ \A f \in QrSlots : calls'[f].kind = "none"
             \/ (calls'[f].kind = calls[f].kind /\ calls'[f].id = calls[f].id /\ calls'[f].said = calls[f].said)
    BY <1>4, <2>1, <2>2 DEF CloseDialog
  <2>. QED BY <1>0, <1>4, <2>1, <2>3 DEF CloseDialog, DialogOK, DialogTypes, LoginsKnown, Unended
<1>5. ASSUME NEW i \in 1..MaxAttempts, Advance(i) PROVE DialogOK
  <2>1. PICK s \in {"password_required", "connected", "failed"} : attempts' = [attempts EXCEPT ![i] = s]
    BY <1>5 DEF Advance
  <2>2. s \in Statuses
    BY DEF Statuses, Unended
  <2>3. attempts' \in Seq(Statuses) /\ DOMAIN attempts' = DOMAIN attempts /\ Len(attempts') = Len(attempts)
    <3>1. attempts' \in [1..Len(attempts) -> Statuses]
      BY <1>0, <2>1, <2>2
    <3>. QED BY <1>0, <3>1
  <2>. QED BY <1>0, <1>5, <2>3 DEF Advance, DialogOK, DialogTypes, LoginsKnown
<1>6. ASSUME NEW f \in QrSlots, NEW kind \in {"start", "poll", "password", "off"}, NEW id \in 0..MaxAttempts,
             Call(f, kind, id), kind \in {"poll", "password"} => id \in DOMAIN attempts
      PROVE  DialogOK
  <2>1. BecomesCall(f, kind, id, "") /\ UNCHANGED <<attempts, opened, qr>>
    BY <1>6, CallsChange DEF Call
  <2>. QED BY <1>0, <1>6, <2>1 DEF BecomesCall, DialogOK, DialogTypes, LoginsKnown
<1>7. ASSUME NEW f \in QrSlots, Start(f) \/ Poll(f) \/ SendPassword(f) \/ Deactivate(f)
      PROVE  DialogOK
  <2>1. qr.status \in Unended => qr.id \in DOMAIN attempts
    BY DEF LoginsKnown
  <2>2. qr.id \in 0..MaxAttempts /\ 0 \in 0..MaxAttempts /\ "password_required" \in Unended
    BY <1>0 DEF Qrs, Unended
  <2>. QED BY <1>6, <1>7, <2>1, <2>2 DEF Start, Poll, SendPassword, Deactivate
<1>8. ASSUME NEW f \in QrSlots, ServeStart(f) PROVE DialogOK
  <2>. DEFINE waiting == {i \in DOMAIN attempts : attempts[i] = "waiting"}
  <2>0. "waiting" \in Statuses
    BY DEF Statuses, Unended
  <2>1. CASE waiting # {}
    <3>1. PICK i \in waiting : Says(f, i, "waiting") /\ UNCHANGED <<attempts, opened, qr>>
      BY <1>8, <2>1 DEF ServeStart
    <3>2. BecomesCall(f, calls[f].kind, i, "waiting")
      BY <1>0, <2>0, <3>1, CallsChange
    <3>. QED BY <1>0, <3>1, <3>2 DEF BecomesCall, DialogOK, DialogTypes, LoginsKnown
  <2>2. CASE waiting = {}
    <3>1. /\ Len(attempts) < MaxAttempts /\ attempts' = Append(Abandoned, "waiting")
          /\ Says(f, Len(attempts) + 1, "waiting") /\ UNCHANGED <<opened, qr>>
      BY <1>8, <2>2 DEF ServeStart
    <3>2. /\ attempts' \in Seq(Statuses) /\ Len(attempts') = Len(attempts) + 1
          /\ DOMAIN attempts' = 1..(Len(attempts) + 1)
      BY <1>0, <2>0, <3>1
    <3>3. /\ Len(attempts) + 1 \in 0..MaxAttempts /\ Len(attempts) + 1 \in DOMAIN attempts'
          /\ DOMAIN attempts \subseteq DOMAIN attempts' /\ Len(attempts') <= MaxAttempts
      BY <1>0, <3>1, <3>2
    <3>4. BecomesCall(f, calls[f].kind, Len(attempts) + 1, "waiting")
      BY <2>0, <3>1, <3>3, CallsChange
    <3>. QED BY <1>0, <3>1, <3>2, <3>3, <3>4 DEF BecomesCall, DialogOK, DialogTypes, LoginsKnown
  <2>. QED BY <2>1, <2>2
<1>9. ASSUME NEW f \in QrSlots, ServeLogin(f) PROVE DialogOK
  <2>. DEFINE i == calls[f].id
              accepted == calls[f].kind = "password" /\ attempts[i] = "password_required"
              said == IF calls[f].kind = "password" /\ ~accepted THEN "gone"
                      ELSE IF attempts[i] = "verifying" THEN "password_required" ELSE attempts[i]
  <2>1. i \in DOMAIN attempts
    BY <1>9 DEF ServeLogin, LoginsKnown
  <2>2. said \in Statuses /\ "verifying" \in Statuses
    BY <1>0, <2>1 DEF Statuses, Unended
  <2>3. /\ Says(f, i, said) /\ UNCHANGED <<opened, qr>>
        /\ attempts' = IF accepted THEN [attempts EXCEPT ![i] = "verifying"] ELSE attempts
    BY <1>9 DEF ServeLogin
  <2>. HIDE DEF said, accepted, i
  <2>4. BecomesCall(f, calls[f].kind, i, said)
    BY <1>0, <2>1, <2>2, <2>3, CallsChange
  <2>5. attempts' \in Seq(Statuses) /\ DOMAIN attempts' = DOMAIN attempts /\ Len(attempts') = Len(attempts)
    <3>0. attempts \in [1..Len(attempts) -> Statuses]
      BY <1>0
    <3>1. attempts' \in [1..Len(attempts) -> Statuses]
      BY ONLY <3>0, <2>2, <2>3
    <3>. QED BY <1>0, <3>1
  <2>. QED BY <1>0, <2>1, <2>3, <2>4, <2>5 DEF BecomesCall, DialogOK, DialogTypes, LoginsKnown
<1>10. ASSUME NEW f \in QrSlots, ServeOff(f) PROVE DialogOK
  <2>1. calls[f].kind = "off" /\ attempts' = Abandoned /\ Says(f, 0, "gone") /\ UNCHANGED <<opened, qr>>
    BY <1>10 DEF ServeOff
  <2>2. BecomesCall(f, "off", 0, "gone")
    <3>1. "gone" \in Statuses
      BY DEF Statuses
    <3>. QED BY <2>1, <3>1, CallsChange, NoCallIs
  <2>3. DOMAIN attempts' = DOMAIN attempts
    BY <1>0, <2>1 DEF Abandoned
  <2>. QED BY <1>0, <2>1, <2>2, <2>3 DEF BecomesCall, DialogOK, DialogTypes, LoginsKnown
<1>11. ASSUME NEW f \in QrSlots, LoginAnswered(f) PROVE DialogOK
  <2>. DEFINE x == [id |-> calls[f].id, status |-> calls[f].said]
  <2>1. calls[f].kind \in {"start", "poll", "password"} /\ calls[f].said # "" /\ calls[f] \in QrCalls
    BY <1>0, <1>11 DEF LoginAnswered
  <2>2. x \in Qrs /\ x.id = calls[f].id /\ calls[f].id \in DOMAIN attempts
    BY <2>1 DEF QrCalls, Qrs, LoginsKnown
  <2>3. qr' \in {qr, x} /\ UNCHANGED <<attempts, opened>>
    BY <1>11 DEF LoginAnswered
  <2>. HIDE DEF x
  <2>4. BecomesCall(f, "none", 0, "")
    BY <1>11, CallsChange DEF LoginAnswered
  <2>. QED BY <1>0, <2>2, <2>3, <2>4 DEF BecomesCall, DialogOK, DialogTypes, LoginsKnown
<1>12. ASSUME NEW f \in QrSlots, OffAnswered(f) \/ CallLost(f) PROVE DialogOK
  <2>1. BecomesCall(f, "none", 0, "") /\ UNCHANGED <<attempts, opened, qr>>
    BY <1>12, CallsChange DEF OffAnswered, CallLost
  <2>. QED BY <1>0, <2>1 DEF BecomesCall, DialogOK, DialogTypes, LoginsKnown
<1>. QED BY <1>2, <1>3, <1>4, <1>5, <1>7, <1>8, <1>9, <1>10, <1>11, <1>12 DEF QrNext

LEMMA QrStarts == QrInit => QrInv
<1>. SUFFICES ASSUME QrInit PROVE QrInv
  OBVIOUS
<1>1. CardTypes /\ CardKnows
  BY DEF QrInit, CardTypes, CardKnows
<1>2. /\ qr = NoQr /\ opened = FALSE /\ calls = [f \in QrSlots |-> NoCall]
      /\ attempts \in Seq(Statuses) /\ Len(attempts) = 0 /\ 0 <= MaxAttempts
  BY AttemptsBound DEF QrInit
<1>3. NoQr.status \notin Unended
  BY NoCallIs DEF Unended
<1>4. DialogTypes
  BY <1>2, NoCallIs DEF DialogTypes
<1>5. LoginsKnown
  BY <1>2, <1>3, NoCallIs DEF LoginsKnown
<1>. QED BY <1>1, <1>4, <1>5, QrTypesSplit DEF QrInv

\* The invariant of the QR dialog and the account's card.
LEMMA QrSteps ==
  ASSUME QrInv, [QrNext]_qrVars
  PROVE  QrInv'
<1>1. CardTypes' /\ CardKnows' /\ DialogTypes' /\ LoginsKnown'
  BY QrTypesSplit, CardSteps, DialogSteps DEF QrInv, DialogOK
<1>2. QrTypeOK'
  BY <1>1 DEF QrTypeOK, CardTypes, DialogTypes, QrCalls, Qrs
<1>. QED BY <1>1, <1>2 DEF QrInv

LEMMA CardTells == QrInv => AccountCardIsCurrent
  BY DEF QrInv, CardKnows, Now, AccountCardIsCurrent
-----------------------------------------------------------------------------
(* The dialog with the Pages and the Page's card.                           *)

PageNow == IF paged THEN "yes" ELSE "no"

PageCardKnows ==
  ~pageNews =>
    /\ newest \in PageLoads
    /\ pageLoads[newest] \in {"none", "sent", PageNow, "error"}
    /\ pageLoads[newest] = "none" => pageCard \in {PageNow, "error"}

\* Requests on which the picker depends.
Choosing(f) == pageCalls[f].mine /\ pageCalls[f].kind \in {"list", "choose"}

PickerKnows ==
  /\ addressed => shownStep = "login" /\ \A f \in PageSlots : pageCalls[f] = NoPageCall
  /\ \A f, g \in PageSlots : Choosing(f) /\ Choosing(g) => f = g
  /\ ~pickerLate /\ told => shownStep # "selecting" /\ \A f \in PageSlots : ~Choosing(f)

PageLoginInv == PageLoginTypeOK /\ PageCardKnows /\ PickerKnows

PageCardTypes ==
  /\ {paged, pageNews} \subseteq BOOLEAN
  /\ pageCard \in {"none", "yes", "no", "error"}
  /\ pageLoads \in [PageLoads -> {"none", "sent", "yes", "no", "error"}]
  /\ newest \in PageLoads \cup {0}
PageCalls == [kind : {"none", "oauth", "list", "choose", "manual", "remove"},
              said : {"", "ok", "error", "over"}, mine : BOOLEAN]
PickerTypes ==
  /\ {addressed, told, pickerLate} \subseteq BOOLEAN
  /\ offer \in {"none", "live", "over"}
  /\ shownStep \in Steps \cup {"closed"}
  /\ pageCalls \in [PageSlots -> PageCalls]

LEMMA PageTypesSplit == PageLoginTypeOK <=> PageCardTypes /\ PickerTypes
  BY DEF PageLoginTypeOK, PageCardTypes, PageCalls, PickerTypes

\* A new request for the card makes all before it void.
LEMMA LoadPageKeeps ==
  ASSUME PageCardTypes, LoadPage, paged' = paged, pageNews' \in BOOLEAN
  PROVE  PageCardTypes' /\ PageCardKnows'
<1>1. PICK l \in PageLoads :
        pageLoads' = [pageLoads EXCEPT ![l] = "sent"] /\ newest' = l /\ pageCard' = "none"
  BY DEF LoadPage
<1>. QED BY <1>1 DEF PageCardTypes, PageCardKnows

PageCardOK == PageCardTypes' /\ PageCardKnows'

\* An answer reloads the card or leaves it.
LEMMA ReturnedKeeps ==
  ASSUME PageCardTypes, PageCardKnows, NEW f \in PageSlots, NEW STATE success, success \in BOOLEAN,
         Returned(f, success)
  PROVE  PageCardOK
<1>1. CASE success
  BY <1>1, LoadPageKeeps DEF Returned, PageCardTypes, PageCardOK
<1>2. CASE ~success
  <2>1. UNCHANGED <<pageCard, pageLoads, newest, paged>> /\ pageNews' = pageNews
    BY <1>2 DEF Returned, pageCardVars, PageCardTypes
  <2>. QED BY <2>1 DEF PageCardTypes, PageCardKnows, PageNow, PageCardOK
<1>. QED BY <1>1, <1>2

\* The newest request tells what the server has, unless that changed unheard.
LEMMA PageCardSteps ==
  ASSUME PageCardTypes, PageCardKnows, [PageLoginNext]_pageLoginVars
  PROVE  PageCardOK
<1>. USE DEF pageCardVars
<1>0. ASSUME UNCHANGED <<pageCard, pageLoads, newest, paged, pageNews>> PROVE PageCardOK
  BY <1>0 DEF PageCardTypes, PageCardKnows, PageNow, PageCardOK
<1>1. ASSUME RefreshPage PROVE PageCardOK
  BY <1>1, LoadPageKeeps DEF RefreshPage, PageCardTypes, PageCardOK
<1>2. ASSUME ExpireOffer \/ OpenPages \/ ClosePages \/ UNCHANGED pageLoginVars PROVE PageCardOK
  BY <1>0, <1>2 DEF ExpireOffer, OpenPages, ClosePages, pageLoginVars
<1>3. ASSUME NEW l \in PageLoads, ServePage(l) PROVE PageCardOK
  <2>1. PICK says \in {"error", PageNow} :
          /\ pageLoads' = [pageLoads EXCEPT ![l] = says]
          /\ pageNews' = (pageNews /\ (says = "error" \/ l # newest))
    BY <1>3 DEF ServePage, PageNow
  <2>2. pageLoads[l] = "sent" /\ UNCHANGED <<pageCard, newest, paged>>
    BY <1>3 DEF ServePage
  <2>. QED BY <2>1, <2>2 DEF PageCardTypes, PageCardKnows, PageNow, PageCardOK
<1>4. ASSUME NEW l \in PageLoads, PageLoaded(l) PROVE PageCardOK
  BY <1>4 DEF PageLoaded, IsNewest, PageCardTypes, PageCardKnows, PageNow, PageCardOK
<1>5. ASSUME NEW f \in PageSlots,
             AskPages(f) \/ BeginOAuth(f) \/ ChoosePage(f) \/ ConnectByHand(f) \/ RemovePage(f)
      PROVE  PageCardOK
  BY <1>0, <1>5 DEF AskPages, BeginOAuth, ChoosePage, ConnectByHand, RemovePage, PageCall
<1>6. ASSUME NEW f \in PageSlots, Serve(f) PROVE PageCardOK
  <2>1. paged' \in BOOLEAN /\ pageNews' = (pageNews \/ paged' # paged)
        /\ UNCHANGED <<pageCard, pageLoads, newest>>
    BY <1>6 DEF Serve, PageCardTypes
  <2>. QED BY <2>1 DEF PageCardTypes, PageCardKnows, PageNow, PageCardOK
<1>7. ASSUME NEW f \in PageSlots, LeaveForFacebook(f) PROVE PageCardOK
  BY <1>7 DEF LeaveForFacebook, PageCardTypes, PageCardKnows, PageCardOK
<1>8. ASSUME NEW f \in PageSlots,
             \/ OAuthFailed(f) \/ PagesAnswered(f) \/ ChoiceAnswered(f) \/ ConnectionAnswered(f)
             \/ PageCallLost(f)
      PROVE  PageCardOK
  <2>1. Returned(f, FALSE) \/ Returned(f, pageCalls[f].said = "ok")
    BY <1>8 DEF OAuthFailed, PagesAnswered, ChoiceAnswered, ConnectionAnswered, PageCallLost
  <2>. QED BY <2>1, ReturnedKeeps
<1>. QED BY <1>1, <1>2, <1>3, <1>4, <1>5, <1>6, <1>7, <1>8 DEF PageLoginNext

-----------------------------------------------------------------------------
(* The picker.                                                              *)

BecomesPageCall(f, kind, said, mine) ==
  /\ pageCalls' \in [PageSlots -> PageCalls]
  /\ pageCalls'[f].kind = kind /\ pageCalls'[f].said = said /\ pageCalls'[f].mine = mine
  /\ \A g \in PageSlots : g # f => pageCalls'[g] = pageCalls[g]

\* What a step does to one slot.
LEMMA PageCallsChange ==
  ASSUME PickerTypes, NEW f \in PageSlots
  PROVE  /\ \A kind \in {"oauth", "list", "choose", "manual", "remove"} :
              PageCall(f, kind) => BecomesPageCall(f, kind, "", TRUE)
         /\ \A said \in {"", "ok", "error", "over"} :
              pageCalls' = [pageCalls EXCEPT ![f].said = said]
                => BecomesPageCall(f, pageCalls[f].kind, said, pageCalls[f].mine)
         /\ \A success : Returned(f, success) => BecomesPageCall(f, "none", "", FALSE)
<1>0. pageCalls \in [PageSlots -> PageCalls]
  BY DEF PickerTypes
<1>1. ASSUME NEW kind \in {"oauth", "list", "choose", "manual", "remove"}, PageCall(f, kind)
      PROVE  BecomesPageCall(f, kind, "", TRUE)
  <2>. DEFINE x == [kind |-> kind, said |-> "", mine |-> TRUE]
  <2>1. x \in PageCalls /\ x.kind = kind /\ x.said = "" /\ x.mine = TRUE
    BY DEF PageCalls
  <2>2. pageCalls' = [pageCalls EXCEPT ![f] = x]
    BY <1>1 DEF PageCall
  <2>. HIDE DEF x
  <2>. QED BY <1>0, <2>1, <2>2 DEF BecomesPageCall
<1>2. ASSUME NEW said \in {"", "ok", "error", "over"}, pageCalls' = [pageCalls EXCEPT ![f].said = said]
      PROVE  BecomesPageCall(f, pageCalls[f].kind, said, pageCalls[f].mine)
  <2>. DEFINE x == [pageCalls[f] EXCEPT !.said = said]
  <2>1. /\ x \in PageCalls /\ x.kind = pageCalls[f].kind /\ x.said = said /\ x.mine = pageCalls[f].mine
        /\ pageCalls' = [pageCalls EXCEPT ![f] = x]
    BY <1>0, <1>2 DEF PageCalls
  <2>. HIDE DEF x
  <2>. QED BY <1>0, <2>1 DEF BecomesPageCall
<1>3. ASSUME NEW success, Returned(f, success) PROVE BecomesPageCall(f, "none", "", FALSE)
  <2>1. NoPageCall \in PageCalls /\ NoPageCall.kind = "none" /\ NoPageCall.said = "" /\ NoPageCall.mine = FALSE
    BY DEF NoPageCall, PageCalls
  <2>2. pageCalls' = [pageCalls EXCEPT ![f] = NoPageCall]
    BY <1>3 DEF Returned
  <2>. QED BY <1>0, <2>1, <2>2 DEF BecomesPageCall
<1>. QED BY <1>1, <1>2, <1>3

PickerOK == PickerTypes' /\ PickerKnows'

\* One request at a time is about the list, and a list that is over leaves no
\* picker and nothing that leads back to it.
LEMMA PickerSteps ==
  ASSUME PickerTypes, PickerKnows, [PageLoginNext]_pageLoginVars
  PROVE  PickerOK
<1>0. /\ {addressed, told, pickerLate} \subseteq BOOLEAN
      /\ offer \in {"none", "live", "over"}
      /\ shownStep \in Steps \cup {"closed"}
      /\ pageCalls \in [PageSlots -> PageCalls]
      /\ Steps = {"login", "loading", "selecting", "connected", "restart"}
  BY DEF PickerTypes, Steps
<1>0a. NoPageCall \in PageCalls /\ NoPageCall.kind = "none" /\ NoPageCall.said = "" /\ NoPageCall.mine = FALSE
  BY DEF NoPageCall, PageCalls
<1>1. ASSUME UNCHANGED <<addressed, shownStep, pageCalls, told, pickerLate>>, offer' \in {"none", "live", "over"}
      PROVE  PickerOK
  BY <1>1 DEF PickerOK, PickerTypes, PickerKnows, Choosing
<1>2. ASSUME \/ RefreshPage \/ ExpireOffer \/ \E l \in PageLoads : ServePage(l) \/ PageLoaded(l)
             \/ UNCHANGED pageLoginVars
      PROVE  PickerOK
  BY <1>0, <1>1, <1>2 DEF RefreshPage, ExpireOffer, ServePage, PageLoaded, pageLoginVars
<1>3. ASSUME OpenPages PROVE PickerOK
  BY <1>0, <1>3 DEF OpenPages, PickerOK, PickerTypes, PickerKnows, Choosing
<1>4. ASSUME ClosePages PROVE PickerOK
  <2>1. \A f \in PageSlots : LET x == [pageCalls[f] EXCEPT !.mine = FALSE] IN
          x \in PageCalls /\ x.mine = FALSE
    BY <1>0 DEF PageCalls
  <2>2. pageCalls' \in [PageSlots -> PageCalls] /\ \A f \in PageSlots : pageCalls'[f].mine = FALSE
    BY <1>4, <2>1 DEF ClosePages
  <2>. QED BY <1>0, <1>4, <2>2 DEF ClosePages, PickerOK, PickerTypes, PickerKnows, Choosing
<1>5. ASSUME NEW f \in PageSlots, AskPages(f) PROVE PickerOK
  <2>1. BecomesPageCall(f, "list", "", TRUE) /\ UNCHANGED <<offer, pickerLate>>
    BY <1>5, PageCallsChange DEF AskPages, PageCall
  <2>2. \A g \in PageSlots : ~Choosing(g)
    BY <1>5, <1>0a DEF AskPages, PickerKnows, Choosing
  <2>. QED BY <1>0, <1>5, <2>1, <2>2
       DEF AskPages, BecomesPageCall, PickerOK, PickerTypes, PickerKnows, Choosing
<1>6. ASSUME NEW f \in PageSlots, BeginOAuth(f) \/ ConnectByHand(f) \/ RemovePage(f) PROVE PickerOK
  <2>1. PICK kind \in {"oauth", "manual", "remove"} :
          PageCall(f, kind) /\ UNCHANGED <<offer, pickerLate, addressed, told>>
          /\ (shownStep' = "loading" \/ shownStep' = shownStep) /\ ~addressed
    BY <1>6 DEF BeginOAuth, ConnectByHand, RemovePage, PageCall, PickerKnows
  <2>2. BecomesPageCall(f, kind, "", TRUE)
    BY <2>1, PageCallsChange
  <2>. QED BY <1>0, <2>1, <2>2 DEF BecomesPageCall, PickerOK, PickerTypes, PickerKnows, Choosing
<1>7. ASSUME NEW f \in PageSlots, ChoosePage(f) PROVE PickerOK
  <2>1. /\ BecomesPageCall(f, "choose", "", TRUE)
        /\ UNCHANGED <<offer, pickerLate, addressed, told, shownStep>>
    BY <1>7, PageCallsChange DEF ChoosePage, PageCall
  <2>2. shownStep = "selecting" /\ \A g \in PageSlots : ~Choosing(g)
    BY <1>7 DEF ChoosePage, Awaited, Choosing
  <2>. QED BY <1>0, <2>1, <2>2 DEF BecomesPageCall, PickerOK, PickerTypes, PickerKnows, Choosing
<1>8. ASSUME NEW f \in PageSlots, Serve(f) PROVE PickerOK
  <2>1. PICK said \in {"ok", "error", "over"} :
          /\ pageCalls' = [pageCalls EXCEPT ![f].said = said]
          /\ offer' \in {offer, "over"} /\ pageCalls[f].kind # "none"
          /\ UNCHANGED <<addressed, shownStep, told, pickerLate>>
    BY <1>8 DEF Serve
  <2>2. BecomesPageCall(f, pageCalls[f].kind, said, pageCalls[f].mine)
    BY <2>1, PageCallsChange
  <2>3. ~addressed
    BY <2>1, <1>0a DEF PickerKnows
  <2>. QED BY <1>0, <2>1, <2>2, <2>3 DEF BecomesPageCall, PickerOK, PickerTypes, PickerKnows,
              Choosing
<1>9. ASSUME NEW f \in PageSlots, LeaveForFacebook(f) PROVE PickerOK
  <2>1. PICK listed \in BOOLEAN :
          /\ offer' = IF listed THEN "live" ELSE offer
          /\ addressed' = listed
          /\ shownStep' = IF listed THEN "login" ELSE "restart"
    BY <1>9 DEF LeaveForFacebook
  <2>2. pageCalls' = [g \in PageSlots |-> NoPageCall] /\ told' = FALSE /\ pickerLate' = FALSE
    BY <1>9 DEF LeaveForFacebook
  <2>3. PickerTypes'
    BY <1>0, <1>0a, <2>1, <2>2 DEF PickerTypes
  <2>4. PickerKnows'
    BY <1>0a, <2>1, <2>2 DEF PickerKnows, Choosing
  <2>. QED BY <2>3, <2>4 DEF PickerOK
<1>10. ASSUME NEW f \in PageSlots, NEW success, Returned(f, success), pageCalls[f].kind # "none"
       PROVE  /\ BecomesPageCall(f, "none", "", FALSE) /\ UNCHANGED <<offer, addressed>>
              /\ ~addressed
  BY <1>10, <1>0a, PageCallsChange DEF Returned, PickerKnows
<1>11. ASSUME NEW f \in PageSlots, OAuthFailed(f) \/ ConnectionAnswered(f) PROVE PickerOK
  <2>1. /\ BecomesPageCall(f, "none", "", FALSE) /\ UNCHANGED <<offer, addressed, told, pickerLate>>
        /\ ~addressed /\ shownStep' \in {shownStep, "restart", "connected"}
    BY <1>10, <1>11 DEF OAuthFailed, ConnectionAnswered
  <2>. QED BY <1>0, <2>1 DEF BecomesPageCall, PickerOK, PickerTypes, PickerKnows, Choosing
<1>12. ASSUME NEW f \in PageSlots, PageCallLost(f) PROVE PickerOK
  <2>1. /\ pageCalls' = [pageCalls EXCEPT ![f] = NoPageCall] /\ UNCHANGED <<offer, addressed, told, pickerLate>>
        /\ shownStep' \in {shownStep, "restart"} /\ pageCalls[f] # NoPageCall
    BY <1>12 DEF PageCallLost, Returned
  <2>2. BecomesPageCall(f, "none", "", FALSE)
    BY <1>0, <1>0a, <2>1 DEF BecomesPageCall
  <2>3. ~addressed
    BY <2>1 DEF PickerKnows
  <2>. QED BY <1>0, <2>1, <2>2, <2>3 DEF BecomesPageCall, PickerOK, PickerTypes, PickerKnows,
              Choosing
<1>13. ASSUME NEW f \in PageSlots, PagesAnswered(f) PROVE PickerOK
  <2>1. /\ BecomesPageCall(f, "none", "", FALSE) /\ UNCHANGED <<offer, addressed>> /\ ~addressed
        /\ pageCalls[f].kind = "list"
    BY <1>10, <1>13 DEF PagesAnswered
  <2>2. CASE pageCalls[f].mine
    <3>1. /\ shownStep' = IF pageCalls[f].said = "ok" THEN "selecting" ELSE "restart"
          /\ pickerLate' = (pickerLate \/ (pageCalls[f].said = "ok" /\ shownStep # "loading"))
          /\ told' = (pageCalls[f].said # "ok")
      BY <1>13, <2>2 DEF PagesAnswered
    <3>2. \A g \in PageSlots : ~Choosing(g)'
      BY <2>1, <2>2 DEF PickerKnows, Choosing, BecomesPageCall
    <3>. QED BY <1>0, <2>1, <3>1, <3>2 DEF BecomesPageCall, PickerOK, PickerTypes, PickerKnows
  <2>3. CASE ~pageCalls[f].mine
    <3>1. UNCHANGED <<shownStep, pickerLate, told>>
      BY <1>13, <2>3 DEF PagesAnswered
    <3>. QED BY <1>0, <2>1, <3>1 DEF BecomesPageCall, PickerOK, PickerTypes, PickerKnows, Choosing
  <2>. QED BY <2>2, <2>3
<1>14. ASSUME NEW f \in PageSlots, ChoiceAnswered(f) PROVE PickerOK
  <2>1. /\ BecomesPageCall(f, "none", "", FALSE) /\ UNCHANGED <<offer, addressed, pickerLate>> /\ ~addressed
        /\ pageCalls[f].kind = "choose"
    BY <1>10, <1>14 DEF ChoiceAnswered
  <2>2. CASE pageCalls[f].mine
    <3>1. /\ told' = (told \/ pageCalls[f].said # "error")
          /\ shownStep' = IF pageCalls[f].said = "ok" THEN "connected"
                          ELSE IF pageCalls[f].said = "over" THEN "restart" ELSE shownStep
          /\ pageCalls[f].said \in {"ok", "error", "over"}
      BY <1>0, <1>14, <2>2 DEF ChoiceAnswered, AfterFailure, PageCalls
    <3>2. \A g \in PageSlots : ~Choosing(g)'
      BY <2>1, <2>2 DEF PickerKnows, Choosing, BecomesPageCall
    <3>3. ~pickerLate => ~told
      BY <2>1, <2>2 DEF PickerKnows, Choosing
    <3>. QED BY <1>0, <2>1, <3>1, <3>2, <3>3 DEF BecomesPageCall, PickerOK, PickerTypes, PickerKnows
  <2>3. CASE ~pageCalls[f].mine
    <3>1. UNCHANGED shownStep /\ told' = told
      BY <1>0, <1>14, <2>3 DEF ChoiceAnswered
    <3>. QED BY <1>0, <2>1, <3>1 DEF BecomesPageCall, PickerOK, PickerTypes, PickerKnows, Choosing
  <2>. QED BY <2>2, <2>3
<1>. QED BY <1>2, <1>3, <1>4, <1>5, <1>6, <1>7, <1>8, <1>9, <1>11, <1>12, <1>13, <1>14
            DEF PageLoginNext

LEMMA PageLoginStarts == PageLoginInit => PageLoginInv
<1>. SUFFICES ASSUME PageLoginInit PROVE PageLoginInv
  OBVIOUS
<1>1. NoPageCall \in PageCalls /\ NoPageCall.mine = FALSE
  BY DEF NoPageCall, PageCalls
<1>2. PageCardTypes /\ PageCardKnows
  BY DEF PageLoginInit, PageCardTypes, PageCardKnows
<1>3. PickerTypes /\ PickerKnows
  BY <1>1 DEF PageLoginInit, PickerTypes, PickerKnows, Steps, Choosing
<1>. QED BY <1>2, <1>3, PageTypesSplit DEF PageLoginInv

\* The invariant of the Page's dialog and card.
LEMMA PageLoginSteps ==
  ASSUME PageLoginInv, [PageLoginNext]_pageLoginVars
  PROVE  PageLoginInv'
<1>1. PageCardTypes' /\ PageCardKnows' /\ PickerTypes' /\ PickerKnows'
  BY PageTypesSplit, PageCardSteps, PickerSteps DEF PageLoginInv, PageCardOK, PickerOK
<1>2. PageLoginTypeOK'
  BY <1>1 DEF PageLoginTypeOK, PageCardTypes, PageCalls, PickerTypes
<1>. QED BY <1>1, <1>2 DEF PageLoginInv

LEMMA PageTells == PageLoginInv => PageCardIsCurrent /\ PickerIsLive
  BY DEF PageLoginInv, PageCardKnows, PageNow, PickerKnows, PageCardIsCurrent, PickerIsLive,
     PageSettled
-----------------------------------------------------------------------------
(* All of it.                                                               *)

\* facebook-oauth.store.ts:223: when the shutdown is over no connect that was
\* scheduled before it leaves a socket open, and a client that is ready was
\* opened by an attempt nobody has given up.
THEOREM StoreStays == ServerSpec => []StoreStaysClosed
<1>1. ServerInv /\ [ServerNext]_serverVars => ServerInv'
  BY ServerSteps
<1>. QED BY <1>1, ServerStarts, StoreCloses, PTL DEF ServerSpec

\* DashboardPage.tsx:241: when every answer has come the account's card shows what
\* the server has, as far as the page was told.
THEOREM CardFollows == QrSpec => []AccountCardIsCurrent
<1>1. QrInv /\ [QrNext]_qrVars => QrInv'
  BY QrSteps
<1>. QED BY <1>1, QrStarts, CardTells, PTL DEF QrSpec

\* DashboardPage.tsx:45 and ConnectModal.tsx:83: so does the Page's card, and no
\* list of Pages is offered that is known to be used or over.
THEOREM PageDialogIsTrue == PageLoginSpec => [](PageCardIsCurrent /\ PickerIsLive)
<1>1. PageLoginInv /\ [PageLoginNext]_pageLoginVars => PageLoginInv'
  BY PageLoginSteps
<1>. QED BY <1>1, PageLoginStarts, PageTells, PTL DEF PageLoginSpec

LEMMA ConnectionsMove ==
  [ConnectionsNext]_connectionVars =>
    [PagesNext]_pageVars /\ [TelegramNext]_telegramVars /\ [ServerNext]_serverVars
  BY DEF ConnectionsNext, connectionVars

\* Each of the three components of connections keeps its types.
THEOREM ConnectionsAreTyped == ConnectionsSpec => []ConnectionsTypeOK
<1>1. ConnectionsSpec => PagesSpec /\ TelegramSpec /\ ServerInit
  BY ConnectionsMove, PTL DEF ConnectionsSpec, ConnectionsInit, PagesSpec, TelegramSpec
<1>2. ServerInv /\ [ConnectionsNext]_connectionVars => ServerInv'
  BY ConnectionsMove, ServerSteps
<1>3. IInv /\ TelegramInv /\ ServerInv => ConnectionsTypeOK
  BY DEF ConnectionsTypeOK, IInv, TelegramInv, ServerInv
<1>. QED BY <1>1, <1>2, <1>3, PagesInductive, TelegramInductive, ServerStarts, PTL
            DEF ConnectionsSpec

\* DashboardPage.tsx:45 and :241, ConnectModal.tsx:83: with their types, the two
\* dialogs and cards tell the truth.
THEOREM DialogsStayTrue == DialogsSpec => []DialogsAreTrue
<1>1. DialogsInit => QrInv /\ PageLoginInv
  BY QrStarts, PageLoginStarts DEF DialogsInit
<1>2. QrInv /\ PageLoginInv /\ [DialogsNext]_dialogVars => QrInv' /\ PageLoginInv'
  BY QrSteps, PageLoginSteps DEF DialogsNext, dialogVars
<1>3. QrInv /\ PageLoginInv => DialogsAreTrue
  BY CardTells, PageTells DEF DialogsAreTrue, QrInv, PageLoginInv
<1>. QED BY <1>1, <1>2, <1>3, PTL DEF DialogsSpec
=============================================================================
