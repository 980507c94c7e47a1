---------------------------- MODULE WebAssistants ----------------------------
(***************************************************************************)
(* The assistants on the settings page: ChatbotAutomationSettings          *)
(* (pages/SettingsPage.tsx).  The page edits one assistant at a time, asks *)
(* the server for one thing after another without waiting, and takes the   *)
(* answers as they come.  The server is reduced to what it keeps of each   *)
(* assistant; its user has this one page open, with one token.  Names and  *)
(* the texts of templates are left out, and with them their editing.       *)
(*                                                                         *)
(* Nothing on the page tells an answer for another assistant, or an older  *)
(* one, from the latest.  Where one does harm the histories say so, and    *)
(* what the page promises is stated for the rest.                          *)
(***************************************************************************)
EXTENDS Naturals, FiniteSets

CONSTANTS
  Requests,      \* numbers: requests at once
  MaxAssistants, \* bound: assistants ever made
  MaxAskings,      \* bound: requests
  Greetings      \* templates that can be added

ASSUME EditorAssumption ==
  Requests # {} /\ IsFiniteSet(Requests) /\ MaxAssistants \in Nat \ {0} /\ MaxAskings \in Nat \ {0}

VARIABLES
  atServer,       \* the server's assistants: instructions, publication, model tier
  greetings,      \* the server's templates, each with its assistant
  everMade,       \* number of assistants ever made
  assistants,     \* the page's copy
  selectedId,
  instructions,   \* the editor
  modelTier,
  shownTemplates,
  messages,       \* whose test conversation is shown
  requests,       \* under way
  askings,        \* number of requests asked for
  served,         \* number of requests served
  stray,          \* history: the editor was left with another assistant's text
  spoilt          \* history: an answer was lost, overtaken, or for another assistant

remoteVars == <<atServer, greetings, everMade>>
shownVars == <<assistants, selectedId, instructions, modelTier, shownTemplates, messages>>
webAssistantVars == <<remoteVars, shownVars, requests, askings, served, stray, spoilt>>

AssistantIds == 1..MaxAssistants
TextsOf(a) == {2 * a, 2 * a + 1}
NoAssistant == [text |-> 0, on |-> 0, tier |-> 0]
Fresh(a) == [text |-> 2 * a, on |-> 1, tier |-> 0]
Nobody == [a \in AssistantIds |-> NoAssistant]
Among(list) == {a \in AssistantIds : list[a] # NoAssistant}
NoRequest == [kind |-> "none", of |-> 0, with |-> 0, was |-> 0, saw |-> Nobody,
              turn |-> 0, ok |-> FALSE, says |-> Nobody, greets |-> {}]
Kinds == {"none", "list", "first", "text", "on", "tier", "create", "delete",
          "templates", "add", "drop", "preview"}

Documents == [text : 0..2 * MaxAssistants + 1, on : 0..1, tier : 0..1]

\* The types of the page and of the server.
WebAssistantsTypeOK ==
  /\ atServer \in [AssistantIds -> Documents] /\ assistants \in [AssistantIds -> Documents]
  /\ greetings \subseteq Greetings \X AssistantIds
  /\ shownTemplates \subseteq Greetings \X AssistantIds
  /\ everMade \in 0..MaxAssistants /\ selectedId \in 0..MaxAssistants
  /\ instructions \in 0..2 * MaxAssistants + 1 /\ modelTier \in 0..1
  /\ messages \subseteq AssistantIds
  /\ \A r \in Requests : requests[r].kind \in Kinds /\ requests[r].turn \in 0..MaxAskings

FirstOf(list) ==
  IF Among(list) = {} THEN 0 ELSE CHOOSE a \in Among(list) : \A b \in Among(list) : a <= b

\* selected: the one chosen, else the first.
SelectedOf(list, id) == IF id \in Among(list) THEN id ELSE FirstOf(list)
selected == SelectedOf(assistants, selectedId)
-----------------------------------------------------------------------------
(* Requests.                                                                *)

Pending(kinds) == \E r \in Requests : requests[r].kind \in kinds

\* A request in a free slot of the given ones.
Sent(slots, kind, of, with) ==
  LET r == CHOOSE q \in Requests : slots[q] = NoRequest IN
  [slots EXCEPT ![r] = [NoRequest EXCEPT
     !.kind = kind, !.of = of, !.with = with, !.saw = assistants,
     !.was = IF of \in Among(assistants) THEN assistants[of].tier ELSE 0]]

Free(slots) == \E r \in Requests : slots[r] = NoRequest

Ask(kind, of, with) ==
  /\ askings < MaxAskings /\ askings' = askings + 1
  /\ Free(requests) /\ requests' = Sent(requests, kind, of, with)
  /\ UNCHANGED <<remoteVars, served>>

\* Other assistants, another selection, or another text: the effect on selected.id
\* shows its tier and loads its templates.
Show(list, id, text, tier, slots) ==
  LET now == SelectedOf(list, id) IN
  /\ assistants' = list /\ selectedId' = id /\ instructions' = text
  /\ IF now = selected \/ now = 0
     THEN /\ modelTier' = tier /\ requests' = slots /\ askings' = askings
          /\ shownTemplates' = IF now = 0 THEN {} ELSE shownTemplates
     ELSE /\ modelTier' = list[now].tier /\ UNCHANGED shownTemplates
          /\ askings < MaxAskings /\ askings' = askings + 1
          /\ Free(slots) /\ requests' = Sent(slots, "templates", now, 0)
-----------------------------------------------------------------------------
(* What the user does.                                                      *)

WebAssistantsInit ==
  /\ everMade \in {0, MaxAssistants - 1}
  /\ atServer = [a \in AssistantIds |-> IF a <= everMade THEN Fresh(a) ELSE NoAssistant]
  /\ greetings = {}
  /\ assistants = Nobody /\ selectedId = 0
  /\ instructions = 0 /\ modelTier = 0
  /\ shownTemplates = {} /\ messages = {}
  /\ requests = Sent([r \in Requests |-> NoRequest], "list", 0, 0)
  /\ askings = 1 /\ served = 0
  /\ stray = FALSE /\ spoilt = FALSE

\* As a mutant of TextShown: the editor keeps what it had.
TextKept(a) == instructions

\* What selectAssistant puts into the editor.
TextShown(a) == assistants[a].text

SelectAssistant(a) ==
  /\ a \in Among(assistants)
  /\ Show(assistants, a, TextShown(a), assistants[a].tier, requests)
  /\ messages' = {} /\ stray' = FALSE
  /\ UNCHANGED <<remoteVars, served, spoilt>>

\* The user writes the instructions anew.
Type ==
  /\ selected # 0
  /\ instructions' \in TextsOf(selected) /\ stray' = FALSE
  /\ UNCHANGED <<remoteVars, assistants, selectedId, modelTier, shownTemplates, messages,
                 requests, askings, served, spoilt>>

SaveAssistant ==
  /\ selected # 0 /\ ~Pending({"text"})
  /\ Ask("text", selected, instructions)
  /\ spoilt' = (spoilt \/ stray)
  /\ UNCHANGED <<shownVars, stray>>

TogglePublication ==
  /\ selected # 0 /\ ~Pending({"on"})
  /\ Ask("on", selected, 1 - assistants[selected].on)
  /\ UNCHANGED <<shownVars, stray, spoilt>>

SaveModelTier ==
  /\ selected # 0 /\ ~Pending({"tier"})
  /\ \E t \in 0..1 : Ask("tier", selected, t) /\ modelTier' = t
  /\ UNCHANGED <<assistants, selectedId, instructions, shownTemplates, messages, stray, spoilt>>

\* createAssistant, deleteAssistant, saveTemplate (of a new one), deleteTemplate;
\* an import is several templates at once.
AskMore ==
  /\ \/ Ask("create", 0, 0)
     \/ \E a \in Among(assistants) :
          /\ \A r \in Requests : requests[r].kind = "delete" => requests[r].of # a
          /\ Ask("delete", a, 0)
     \/ selected # 0 /\ ~Pending({"add"}) /\ Ask("add", selected, 0)
     \/ selected # 0 /\ \E t \in shownTemplates : Ask("drop", selected, t[1])
  /\ UNCHANGED <<shownVars, stray, spoilt>>

SendPreview ==
  /\ selected # 0 /\ ~Pending({"preview"})
  /\ Ask("preview", selected, 0)
  /\ messages' = messages \cup {selected}
  /\ UNCHANGED <<assistants, selectedId, instructions, modelTier, shownTemplates, stray, spoilt>>
-----------------------------------------------------------------------------
(* The server.                                                              *)

\* The templates of an assistant that is deleted stay, and nobody can ask for them.
ServeAsked(r) ==
  LET q == requests[r]
      known == q.of \in Among(atServer)
      makes == q.kind \in {"create", "first"}
      patched == [atServer EXCEPT ![q.of] =
        CASE q.kind = "text" -> [@ EXCEPT !.text = q.with]
          [] q.kind = "on" -> [@ EXCEPT !.on = q.with]
          [] q.kind = "tier" -> [@ EXCEPT !.tier = q.with]
          [] q.kind = "delete" -> NoAssistant]
  IN
  /\ q # NoRequest /\ q.turn = 0
  /\ makes => everMade < MaxAssistants
  /\ everMade' = IF makes THEN everMade + 1 ELSE everMade
  /\ atServer' = IF makes THEN [atServer EXCEPT ![everMade'] = Fresh(everMade')]
               ELSE IF known /\ q.kind \in {"text", "on", "tier", "delete"} THEN patched
               ELSE atServer
  /\ \E t \in Greetings :
       /\ q.kind = "add" => \A g \in greetings : g[1] # t
       /\ greetings' = CASE q.kind = "add" /\ known -> greetings \cup {<<t, q.of>>}
                         [] q.kind = "drop" -> greetings \ {<<q.with, q.of>>}
                         [] OTHER -> greetings
       /\ served' = served + 1
       /\ requests' = [requests EXCEPT ![r] = [q EXCEPT
            !.turn = served', !.ok = known \/ makes \/ q.kind = "list",
            !.of = IF makes THEN everMade' ELSE q.of,
            !.with = IF q.kind = "add" THEN t ELSE q.with,
            !.says = [a \in AssistantIds |->
              IF a = q.of \/ q.kind = "list" \/ (makes /\ a = everMade')
              THEN atServer'[a] ELSE NoAssistant],
            !.greets = {g \in greetings' : q.kind = "templates" /\ g[2] = q.of}]]
  /\ UNCHANGED <<shownVars, askings, stray, spoilt>>
-----------------------------------------------------------------------------
(* Answers.                                                                 *)

Rest(r) == [requests EXCEPT ![r] = NoRequest]

\* An answer to r is shown although one served before it is still to come, which
\* will be shown over it.
Overtakes(r, kinds) ==
  \E q \in Requests \ {r} :
    requests[q].kind \in kinds /\ requests[q].turn \in 1..requests[r].turn

AboutAssistants == {"list", "first", "text", "on", "tier", "create", "delete"}
AboutTemplates == {"templates", "add", "drop"}

AnswerTo(r, kinds) == requests[r].kind \in kinds /\ requests[r].turn > 0 /\ requests[r].ok

\* The list, or the assistant that was made because there was none.  The
\* selection of an earlier visit is taken up if the browser kept it.
ListAnswered(r) ==
  LET list == requests[r].says IN
  /\ AnswerTo(r, {"list", "first"})
  /\ IF Among(list) = {}
     THEN /\ requests' = Sent(Rest(r), "first", 0, 0)
          /\ askings < MaxAskings /\ askings' = askings + 1
          /\ UNCHANGED <<shownVars, stray>>
     ELSE /\ \E a \in Among(list) : Show(list, a, list[a].text, list[a].tier, Rest(r))
          /\ stray' = FALSE /\ UNCHANGED messages
  /\ spoilt' = (spoilt \/ Overtakes(r, AboutAssistants) \/ messages # {}
                \/ (requests[r].kind = "first" /\ assistants # Nobody))
  /\ UNCHANGED <<remoteVars, served>>

\* map of the saved assistant into the list; the page's own fields take its
\* instructions or its tier whatever is selected.
SavedAnswered(r) ==
  LET q == requests[r]
      list == [a \in AssistantIds |->
        IF a = q.of /\ a \in Among(assistants) THEN q.says[a] ELSE assistants[a]]
      foreign == q.of # selected
  IN
  /\ AnswerTo(r, {"text", "on", "tier"})
  /\ Show(list, selectedId, IF q.kind = "text" THEN q.says[q.of].text ELSE instructions,
          IF q.kind = "tier" THEN q.says[q.of].tier ELSE modelTier, Rest(r))
  /\ stray' = (stray \/ (q.kind = "text" /\ foreign))
  /\ spoilt' = (spoilt \/ Overtakes(r, AboutAssistants) \/ (q.kind = "tier" /\ foreign))
  /\ UNCHANGED <<remoteVars, messages, served>>

\* The new assistant is selected, and the editor and the test conversation stay.
CreateAnswered(r) ==
  LET a == requests[r].of IN
  /\ AnswerTo(r, {"create"})
  /\ Show([assistants EXCEPT ![a] = requests[r].says[a]], a, instructions, modelTier, Rest(r))
  /\ stray' = TRUE
  /\ spoilt' = (spoilt \/ Overtakes(r, AboutAssistants) \/ messages # {})
  /\ UNCHANGED <<remoteVars, messages, served>>

\* As a mutant of Remaining: the assistant that was deleted is still shown.
RemainingAll(q) == q.saw

\* deleteAssistant goes on from the list it saw when it was called.
Remaining(q) == [q.saw EXCEPT ![q.of] = NoAssistant]

DeleteAnswered(r) ==
  LET q == requests[r]
      list == Remaining(q)
      next == FirstOf(list)
  IN
  /\ AnswerTo(r, {"delete"})
  /\ Show(list, next, IF next = 0 THEN 0 ELSE list[next].text,
          IF next = 0 THEN 0 ELSE list[next].tier, Rest(r))
  /\ messages' = {} /\ stray' = FALSE
  /\ spoilt' = (spoilt \/ Overtakes(r, AboutAssistants) \/ assistants # q.saw)
  /\ UNCHANGED <<remoteVars, served>>

\* Templates are shown for whatever assistant is selected.
TemplatesAnswered(r) ==
  LET q == requests[r] IN
  /\ AnswerTo(r, AboutTemplates)
  /\ shownTemplates' = CASE q.kind = "templates" -> q.greets
                    [] q.kind = "add" -> shownTemplates \cup {<<q.with, q.of>>}
                    [] q.kind = "drop" -> {g \in shownTemplates : g[1] # q.with}
  /\ requests' = Rest(r)
  /\ spoilt' = (spoilt \/ Overtakes(r, AboutTemplates) \/ q.of # selected)
  /\ UNCHANGED <<remoteVars, assistants, selectedId, instructions, modelTier, messages, askings,
                 served, stray>>

PreviewAnswered(r) ==
  /\ AnswerTo(r, {"preview"})
  /\ messages' = messages \cup {requests[r].of}
  /\ requests' = Rest(r)
  /\ spoilt' = (spoilt \/ requests[r].of # selected)
  /\ UNCHANGED <<remoteVars, assistants, selectedId, instructions, modelTier, shownTemplates, askings,
                 served, stray>>

\* Refused, or lost on the way there or back: an error is shown, and the tier is
\* put back.
Failed(r) ==
  LET q == requests[r] IN
  /\ q # NoRequest /\ (q.turn > 0 => ~q.ok \/ q.kind \in AboutAssistants \cup AboutTemplates)
  /\ requests' = Rest(r)
  /\ modelTier' = IF q.kind = "tier" THEN q.was ELSE modelTier
  /\ spoilt' = (spoilt \/ q.turn > 0 \/ q.kind \in {"list", "first", "templates"}
                \/ (q.kind = "tier" /\ q.of # selected))
  /\ UNCHANGED <<remoteVars, assistants, selectedId, instructions, shownTemplates, messages, askings,
                 served, stray>>
-----------------------------------------------------------------------------
WebAssistantsNext ==
  \/ Type \/ SaveAssistant \/ TogglePublication \/ SaveModelTier \/ AskMore \/ SendPreview
  \/ \E a \in AssistantIds : SelectAssistant(a)
  \/ \E r \in Requests :
       \/ ServeAsked(r) \/ ListAnswered(r) \/ SavedAnswered(r) \/ CreateAnswered(r)
       \/ DeleteAnswered(r) \/ TemplatesAnswered(r) \/ PreviewAnswered(r) \/ Failed(r)

WebAssistantsSpec == WebAssistantsInit /\ [][WebAssistantsNext]_webAssistantVars
-----------------------------------------------------------------------------
(* What must hold.                                                          *)

\* SettingsPage.tsx:636, :653: unless an answer was lost or out of its turn, no
\* assistant is given instructions written for another, and when all is answered
\* the page shows what the server has of the selected one.
EditorIsTheirs ==
  ~spoilt =>
    /\ \A a \in Among(atServer) : atServer[a].text \in TextsOf(a)
    /\ (\A r \in Requests : requests[r] = NoRequest) =>
         /\ assistants = atServer
         /\ selected # 0 => modelTier = atServer[selected].tier
         /\ ~stray /\ selected # 0 => instructions \in TextsOf(selected)
         /\ shownTemplates = {g \in greetings : g[2] = selected}
         /\ messages \subseteq {selected}
=============================================================================
