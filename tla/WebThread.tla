------------------------------- MODULE WebThread -------------------------------
(***************************************************************************)
(* The open conversation in one tab of the inbox (InboxPage.tsx): its      *)
(* messages, its pins and the suggestions of the AI, loaded by requests    *)
(* whose answers come in any order, told by a socket that is made anew for *)
(* each conversation, and changed by the user.                             *)
(*                                                                         *)
(* A request is served at one moment and answered at a later one.  A       *)
(* message is a model value; the pins of a conversation are the number of  *)
(* changes they went through.  React's effects run with the change that    *)
(* causes them.  Typing, notifications, drafts and scrolling are left out. *)
(***************************************************************************)
EXTENDS Naturals, FiniteSets

CONSTANTS
  Threads,  \* conversations
  NoThread, \* none is open; also: nothing yet
  Letters,  \* messages of the customers
  Posts,    \* attempts of this tab to send
  SuggestionMode, \* aiSettings.suggestionMode
  MaxMoves, \* bound: things the users do
  MaxPins   \* bound: changes of the pins of a conversation

ASSUME ThreadAssumption ==
  /\ NoThread \notin Threads /\ Letters \cap Posts = {}
  /\ SuggestionMode \in {"manual", "on_open", "on_customer_message"}
ASSUME ThreadBounds == MaxMoves \in Nat /\ MaxPins \in Nat

VARIABLES
  active,    \* activeId
  view,      \* messages: what the window shows
  pins,      \* pinnedMessagesState: whose pins, and how old
  advice,    \* aiSuggestions: the conversation they are for
  retryable, \* retryPayloadsRef
  asks,      \* the loads under way: histories, pins, suggestions
  pinAsks,   \* pinActiveMessage and unpinActiveMessage under way
  sends,     \* sendText under way, served or not
  room,      \* the socket: "out", "in" the room, or "hidden" with the tab
  heard,     \* events on their way to the socket
  home, log, pinned, \* the server: conversations of messages, and their pins
  moves, told        \* bound; history: the latest pins an event showed here

serverSide == <<home, log, pinned>>
threadVars == <<active, view, pins, advice, retryable, asks, pinAsks, sends, room, heard,
                serverSide, moves, told>>

Mails == Letters \cup Posts
Nowhere == NoThread
Versions == 0..MaxPins
Unserved == MaxPins + 1

\* An entry of the window, an event, a load: the newest are live, as their
\* effect was not cleaned up.
Entries == [mail : Mails, form : {"pending", "failed", "stored"}]
Load(kind, t) == [kind |-> kind, of |-> t, live |-> TRUE, served |-> FALSE, mails |-> {}, pins |-> 0]
Loads == [kind : {"history", "pins", "advice"}, of : Threads, live : BOOLEAN,
          served : BOOLEAN, mails : SUBSET Mails, pins : Versions]

\* The types of the tab, the requests and the server.
ThreadTypeOK ==
  /\ active \in Threads \cup {NoThread}
  /\ view \subseteq Entries
  /\ \A e, f \in view : e.mail = f.mail => e = f
  /\ pins \in [of : Threads \cup {NoThread}, seen : Versions]
  /\ advice \in Threads \cup {NoThread}
  /\ retryable \subseteq Posts
  /\ asks \subseteq Loads
  /\ pinAsks \subseteq [of : Threads, served : 0..Unserved]
  /\ sends \subseteq [mail : Posts, served : BOOLEAN]
  /\ room \in {"out", "in", "hidden"}
  /\ heard.mails \subseteq Mails /\ heard.pins \subseteq Versions
  /\ home \in [Mails -> Threads \cup {Nowhere}]
  /\ log \subseteq Mails
  /\ pinned \in [Threads -> Versions]
  /\ moves \in 0..MaxMoves
  /\ told \in Versions

Silence == [mails |-> {}, pins |-> {}]

ThreadInit ==
  /\ active = NoThread
  /\ view = {}
  /\ pins = [of |-> NoThread, seen |-> 0]
  /\ advice = NoThread
  /\ retryable = {} /\ asks = {} /\ pinAsks = {} /\ sends = {}
  /\ room = "out"
  /\ heard = Silence
  /\ home = [m \in Mails |-> Nowhere]
  /\ log = {}
  /\ pinned = [t \in Threads |-> 0]
  /\ moves = 0
  /\ told = 0

Moves == moves < MaxMoves /\ moves' = moves + 1
-----------------------------------------------------------------------------
(* Opening a conversation.                                                  *)

\* The cleanup of the effects: a cancelled load is answered all the same.
Cancelled == {[r EXCEPT !.live = FALSE] : r \in asks}

\* shouldAutoRefreshAiSuggestions decides about the suggestions.
LoadedAtOnce ==
  {"history", "pins"} \cup {k \in {"advice"} : SuggestionMode = "on_open"}

\* selectConversation, and handleConversationDeleted of the open one: the
\* window is emptied, a new socket made, and what it shows is loaded.
Open(t) ==
  /\ Moves
  /\ t # active
  /\ active' = t
  /\ view' = {}
  /\ pins' = [of |-> t, seen |-> 0]
  /\ advice' = NoThread
  /\ asks' = Cancelled \cup
             (IF t = NoThread THEN {} ELSE {Load(k, t) : k \in LoadedAtOnce})
  /\ room' = "out"
  /\ heard' = Silence
  /\ told' = 0
  /\ UNCHANGED <<retryable, pinAsks, sends, serverSide>>

\* joinActiveRoom.
Join ==
  /\ room = "out" /\ active # NoThread
  /\ room' = "in"
  /\ UNCHANGED <<active, view, pins, advice, retryable, asks, pinAsks, sends, heard, serverSide,
                 moves, told>>

\* pauseSocketWhenHidden: the socket is closed while the tab is hidden, then
\* opened again, with syncAfterResume.
Hide ==
  /\ Moves /\ room # "hidden" /\ active # NoThread
  /\ room' = "hidden"
  /\ heard' = Silence
  /\ UNCHANGED <<active, view, pins, advice, retryable, asks, pinAsks, sends, serverSide, told>>

Resume ==
  /\ room = "hidden"
  /\ room' = "out"
  /\ asks' = asks \cup {Load("history", active)}
  /\ UNCHANGED <<active, view, pins, advice, retryable, pinAsks, sends, heard, serverSide, moves,
                 told>>
-----------------------------------------------------------------------------
(* Loads and their answers.                                                 *)

Serve(r) ==
  /\ ~r.served
  /\ asks' = (asks \ {r}) \cup
             {[r EXCEPT !.served = TRUE, !.mails = {m \in log : home[m] = r.of /\ r.kind = "history"},
                        !.pins = IF r.kind = "pins" THEN pinned[r.of] ELSE 0]}
  /\ UNCHANGED <<active, view, pins, advice, retryable, pinAsks, sends, room, heard, serverSide,
                 moves, told>>

\* As a mutant of IsCurrent: only the conversation is compared.
IsForActive(r) == r.of = active

\* cancelled, disposed, and the guards of the pins and of the suggestions.
IsCurrent(r) == r.live /\ r.of = active

\* As a mutant of Appended: what is there already is added once more.
AppendedAgain(entries, mails) == entries \cup [mail : mails, form : {"stored"}]

\* appendUniqueMessage and mergeMessages.
Appended(entries, mails) ==
  {e \in entries : e.mail \notin mails} \cup [mail : mails, form : {"stored"}]

\* The answer of a load; an error ends it too.
Answer(r) ==
  /\ r.served
  /\ asks' = asks \ {r}
  /\ \/ /\ IsCurrent(r)
        /\ view' = IF r.kind = "history" THEN Appended(view, r.mails) ELSE view
        /\ pins' = IF r.kind = "pins" THEN [of |-> r.of, seen |-> r.pins] ELSE pins
        /\ advice' = IF r.kind = "advice" THEN r.of ELSE advice
     \/ UNCHANGED <<view, pins, advice>>
  /\ UNCHANGED <<active, retryable, pinAsks, sends, room, heard, serverSide, moves, told>>
-----------------------------------------------------------------------------
(* Events.                                                                  *)

\* emitChatEvent: to the room of the conversation.
TellMail(t, m) ==
  heard' = IF room = "in" /\ active = t THEN [heard EXCEPT !.mails = @ \cup {m}] ELSE heard

TellPins(t, v) ==
  heard' = IF room = "in" /\ active = t THEN [heard EXCEPT !.pins = @ \cup {v}] ELSE heard

\* A customer writes.
Write(m, t) ==
  /\ Moves /\ home[m] = Nowhere
  /\ home' = [home EXCEPT ![m] = t]
  /\ log' = log \cup {m}
  /\ TellMail(t, m)
  /\ UNCHANGED <<active, view, pins, advice, retryable, asks, pinAsks, sends, room, pinned, told>>

\* Another member of the workspace changes the pins.
PinElsewhere(t) ==
  /\ Moves /\ pinned[t] < MaxPins
  /\ pinned' = [pinned EXCEPT ![t] = @ + 1]
  /\ TellPins(t, pinned[t] + 1)
  /\ UNCHANGED <<active, view, pins, advice, retryable, asks, pinAsks, sends, room, home, log, told>>

\* refreshAiSuggestions makes every earlier request for suggestions stale.
Advised ==
  {[r EXCEPT !.live = @ /\ r.kind # "advice"] : r \in asks} \cup {Load("advice", active)}

\* The user asks for suggestions.
AskAdvice ==
  /\ Moves /\ active # NoThread
  /\ asks' = Advised
  /\ UNCHANGED <<active, view, pins, advice, retryable, pinAsks, sends, room, heard, serverSide, told>>

\* handleMessageReceived, in the open conversation.
HearMail(m) ==
  /\ m \in heard.mails
  /\ heard' = [heard EXCEPT !.mails = @ \ {m}]
  /\ view' = Appended(view, {m})
  /\ retryable' = retryable \ {m}
  /\ asks' = IF m \in Letters /\ SuggestionMode = "on_customer_message" THEN Advised ELSE asks
  /\ UNCHANGED <<active, pins, advice, pinAsks, sends, room, serverSide, moves, told>>

\* invalidateLoad.
PinsInvalidated == {[r EXCEPT !.live = @ /\ r.kind # "pins"] : r \in asks}

\* handleMessagePinUpdated, in the order of the socket.
HearPins ==
  \E v \in heard.pins :
    /\ \A w \in heard.pins : v <= w
    /\ heard' = [heard EXCEPT !.pins = @ \ {v}]
    /\ pins' = [of |-> active, seen |-> v]
    /\ told' = v
    /\ asks' = PinsInvalidated
    /\ UNCHANGED <<active, view, advice, retryable, pinAsks, sends, room, serverSide, moves>>
-----------------------------------------------------------------------------
(* What the user changes.                                                   *)

\* pinActiveMessage and unpinActiveMessage, their service and their answer.
AskPin ==
  /\ Moves /\ active # NoThread
  /\ pinAsks' = pinAsks \cup {[of |-> active, served |-> Unserved]}
  /\ UNCHANGED <<active, view, pins, advice, retryable, asks, sends, room, heard, serverSide, told>>

ServePin(r) ==
  /\ r.served = Unserved /\ pinned[r.of] < MaxPins
  /\ pinned' = [pinned EXCEPT ![r.of] = @ + 1]
  /\ pinAsks' = (pinAsks \ {r}) \cup {[r EXCEPT !.served = pinned[r.of] + 1]}
  /\ TellPins(r.of, pinned[r.of] + 1)
  /\ UNCHANGED <<active, view, pins, advice, retryable, asks, sends, room, home, log, moves, told>>

AnswerPin(r) ==
  /\ pinAsks' = pinAsks \ {r}
  /\ \/ /\ r.served # Unserved /\ r.of = active
        /\ pins' = [of |-> r.of, seen |-> r.served]
     \/ UNCHANGED pins
  /\ UNCHANGED <<active, view, advice, retryable, asks, sends, room, heard, serverSide, moves, told>>

\* sendText: an optimistic message at once.
Optimistic(p) == [mail |-> p, form |-> "pending"]
Starts(p) ==
  /\ home[p] = Nowhere /\ active # NoThread
  /\ home' = [home EXCEPT ![p] = active]
  /\ sends' = sends \cup {[mail |-> p, served |-> FALSE]}

SendText(p) ==
  /\ Moves /\ Starts(p)
  /\ view' = view \cup {Optimistic(p)}
  /\ retryable' = retryable \cup {p}
  /\ UNCHANGED <<active, pins, advice, asks, pinAsks, room, heard, log, pinned, told>>

\* retryMessage: the failed one is replaced, under a new client id.
RetryMessage(p, q) ==
  /\ Moves /\ p \in retryable /\ home[p] = active
  /\ [mail |-> p, form |-> "failed"] \in view
  /\ Starts(q)
  /\ view' = (view \ {[mail |-> p, form |-> "failed"]}) \cup {Optimistic(q)}
  /\ retryable' = (retryable \ {p}) \cup {q}
  /\ UNCHANGED <<active, pins, advice, asks, pinAsks, room, heard, log, pinned, told>>

ServeSend(s) ==
  /\ ~s.served
  /\ sends' = (sends \ {s}) \cup {[s EXCEPT !.served = TRUE]}
  /\ log' = log \cup {s.mail}
  /\ TellMail(home[s.mail], s.mail)
  /\ UNCHANGED <<active, view, pins, advice, retryable, asks, pinAsks, room, home, pinned, moves,
                 told>>

\* The answer goes into the window, whatever it shows by now; without one the
\* optimistic message becomes a failed one, if it is still there.
AnswerSend(s) ==
  /\ s.served
  /\ sends' = sends \ {s}
  /\ view' = Appended(view, {s.mail})
  /\ retryable' = retryable \ {s.mail}
  /\ UNCHANGED <<active, pins, advice, asks, pinAsks, room, heard, serverSide, moves, told>>

FailSend(s) ==
  /\ sends' = sends \ {s}
  /\ view' = {IF e = Optimistic(s.mail) THEN [e EXCEPT !.form = "failed"] ELSE e : e \in view}
  /\ UNCHANGED <<active, pins, advice, retryable, asks, pinAsks, room, heard, serverSide, moves, told>>

TabStep ==
  \/ \E t \in Threads \cup {NoThread} : Open(t)
  \/ Join \/ Hide \/ Resume \/ AskAdvice \/ AskPin
  \/ \E p \in Posts : SendText(p) \/ \E q \in Posts : RetryMessage(p, q)

AnswerStep ==
  \/ \E r \in asks : Serve(r) \/ Answer(r)
  \/ \E r \in pinAsks : ServePin(r) \/ AnswerPin(r)
  \/ \E s \in sends : ServeSend(s) \/ AnswerSend(s) \/ FailSend(s)

EventStep ==
  \/ \E t \in Threads : PinElsewhere(t) \/ \E m \in Letters : Write(m, t)
  \/ HearPins
  \/ \E m \in Mails : HearMail(m)

ThreadNext == TabStep \/ AnswerStep \/ EventStep

ThreadSpec == ThreadInit /\ [][ThreadNext]_threadVars
-----------------------------------------------------------------------------
(* What must hold.                                                          *)

\* InboxPage.tsx:53, inbox-pins.ts:44: responses cannot cross conversation
\* boundaries: messages, pins and suggestions are those of the conversation
\* that is open, however late the answer.  Answers to what this tab sent are
\* not part of it: the code shows those in any conversation.
ViewIsOfActive ==
  /\ \A e \in view : home[e.mail] = active \/ (e.mail \in Posts /\ e.form = "stored")
  /\ pins.of = active
  /\ advice \in {NoThread, active}

\* inbox-pins.ts:59: the answer of a load does not replace what an event has
\* shown of the pins since.
LoadsRespectPins ==
  (active' = active /\ asks' # asks /\ pins' # pins) => pins'.seen >= told
=============================================================================
