------------------------------ MODULE Assistants ------------------------------
(***************************************************************************)
(* The assistants of one owner (assistant.service.ts) and their templates  *)
(* (automation-template.service.ts).  One assistant may be the default,    *)
(* which answers on the channels that have none of their own.              *)
(*                                                                         *)
(* A request that makes an assistant the default runs in a transaction     *)
(* under snapshot isolation: it sees the documents of its start, and its   *)
(* commit fails if another wrote one that it writes, or if the partial     *)
(* index refuses it.  withTransaction then starts anew.                    *)
(***************************************************************************)
EXTENDS Naturals, FiniteSets

CONSTANTS
  Helpers,   \* assistants
  Editors,   \* requests
  NoHelper,
  MaxRetries \* bound: transactions that start anew

ASSUME HelperAssumption == NoHelper \notin Helpers /\ MaxRetries \in Nat

VARIABLES
  helper,    \* an Assistant document: whether it exists, and isDefault
  templates, \* AutomationTemplate documents: the request that made it, its assistant
  editor,    \* a request: its control point, its assistant, the defaults it read
  retries

assistantVars == <<helper, templates, editor, retries>>

EditPoints == {"new", "transaction", "insertTemplate", "writeTemplate", "over"}
Idle == [at |-> "new", of |-> NoHelper, cleared |-> {}, creates |-> FALSE]
Absent == [exists |-> FALSE, default |-> FALSE]

\* The types of the documents and of the requests.
AssistantsTypeOK ==
  /\ helper \in [Helpers -> [exists : BOOLEAN, default : BOOLEAN]]
  /\ \A h \in Helpers : ~helper[h].exists => helper[h] = Absent
  /\ templates \subseteq [by : Editors, of : Helpers]
  /\ editor \in [Editors -> [at : EditPoints, of : Helpers \cup {NoHelper},
                             cleared : SUBSET Helpers, creates : BOOLEAN]]
  /\ retries \in 0..MaxRetries

AssistantsInit ==
  /\ helper = [h \in Helpers |-> Absent]
  /\ templates = {}
  /\ editor = [k \in Editors |-> Idle]
  /\ retries = 0

EditOver(k) == editor' = [editor EXCEPT ![k] = [Idle EXCEPT !.at = "over"]]
EditGoto(k, point, h) == editor' = [editor EXCEPT ![k] = [Idle EXCEPT !.at = point, !.of = h]]

Exists(h) == helper[h].exists
Unused(h) == ~Exists(h) /\ \A k \in Editors : ~(editor[k].creates /\ editor[k].of = h)
Defaults == {h \in Helpers : helper[h].default}
-----------------------------------------------------------------------------
(* Assistants.                                                              *)

\* createAssistant and updateAssistant that do not set the default.
CreatePlain(k, h) ==
  /\ editor[k].at = "new" /\ Unused(h)
  /\ helper' = [helper EXCEPT ![h] = [exists |-> TRUE, default |-> FALSE]]
  /\ EditOver(k)
  /\ UNCHANGED <<templates, retries>>

\* A patch without isDefault leaves it; one with false clears it.
UpdatePlain(k, h, keeps) ==
  /\ editor[k].at = "new"
  /\ helper' = [helper EXCEPT ![h].default = @ /\ keeps]
  /\ EditOver(k)
  /\ UNCHANGED <<templates, retries>>

\* createAssistant and updateAssistant with isDefault: the index exists from
\* here on, and the transaction reads the defaults that it clears.
BeginDefault(k, h, creates) ==
  /\ editor[k].at = "new"
  /\ creates => Unused(h)
  /\ editor' = [editor EXCEPT ![k] = [at |-> "transaction", of |-> h,
                                      cleared |-> Defaults \ {h}, creates |-> creates]]
  /\ UNCHANGED <<helper, templates, retries>>

\* The documents that the transaction writes are as it read them.
Unwritten(k) == \A h \in editor[k].cleared : helper[h].default

\* As a mutant of IndexAllows: without the partial unique index.
NoIndex(k, h) == k \in Editors /\ h \in Helpers

\* unique_default_assistant_per_owner, when the others are cleared.
IndexAllows(k, h) == Defaults \subseteq editor[k].cleared \cup {h}

\* As a mutant of RolledBack: what the transaction cleared stays cleared.
ClearedAnyway(k) ==
  [g \in Helpers |-> [helper[g] EXCEPT !.default = @ /\ g \notin editor[k].cleared]]

\* updateAssistant of an assistant that is gone throws, which aborts.
RolledBack(k) == helper

CommitDefault(k) ==
  LET h == editor[k].of IN
  /\ editor[k].at = "transaction"
  /\ Unwritten(k) /\ IndexAllows(k, h)
  /\ helper' = IF editor[k].creates \/ Exists(h)
               THEN [g \in Helpers |->
                       IF g = h THEN [exists |-> TRUE, default |-> TRUE]
                       ELSE [helper[g] EXCEPT !.default = @ /\ g \notin editor[k].cleared]]
               ELSE RolledBack(k)
  /\ EditOver(k)
  /\ UNCHANGED <<templates, retries>>

\* A conflict, or a duplicate key of what was committed before: the
\* transaction starts anew, or the request fails.
RetryDefault(k) ==
  /\ editor[k].at = "transaction"
  /\ ~(Unwritten(k) /\ IndexAllows(k, editor[k].of))
  /\ retries < MaxRetries /\ retries' = retries + 1
  /\ editor' = [editor EXCEPT ![k].cleared = Defaults \ {editor[k].of}]
  /\ UNCHANGED <<helper, templates>>

AbortDefault(k) ==
  /\ editor[k].at = "transaction"
  /\ EditOver(k)
  /\ UNCHANGED <<helper, templates, retries>>

\* deleteAssistant leaves the templates.
DeleteAssistant(k, h) ==
  /\ editor[k].at = "new"
  /\ helper' = [helper EXCEPT ![h] = Absent]
  /\ EditOver(k)
  /\ UNCHANGED <<templates, retries>>
-----------------------------------------------------------------------------
(* Templates: requireOwnedAssistant, then the write.                        *)

AskForTemplate(k, h) ==
  /\ editor[k].at = "new"
  /\ IF Exists(h) THEN EditGoto(k, "insertTemplate", h) ELSE EditOver(k)
  /\ UNCHANGED <<helper, templates, retries>>

\* createAutomationTemplate and importAutomationTemplates.
InsertTemplate(k) ==
  /\ editor[k].at = "insertTemplate"
  /\ templates' = templates \cup {[by |-> k, of |-> editor[k].of]}
  /\ EditOver(k)
  /\ UNCHANGED <<helper, retries>>

\* updateAutomationTemplate may move the template to another assistant, which
\* is looked up as well.
AskToMoveTemplate(k, h, g) ==
  /\ editor[k].at = "new"
  /\ IF Exists(h) /\ Exists(g) /\ \E t \in templates : t.of = h
     THEN EditGoto(k, "writeTemplate", g) ELSE EditOver(k)
  /\ UNCHANGED <<helper, templates, retries>>

WriteTemplate(k) ==
  /\ editor[k].at = "writeTemplate"
  /\ \E t \in templates :
       templates' \in {(templates \ {t}) \cup {[t EXCEPT !.of = editor[k].of]}, templates \ {t}}
  /\ EditOver(k)
  /\ UNCHANGED <<helper, retries>>

AssistantStep(k, h) ==
  \/ CreatePlain(k, h)
  \/ \E yes \in BOOLEAN : UpdatePlain(k, h, yes) \/ BeginDefault(k, h, yes)
  \/ DeleteAssistant(k, h) \/ AskForTemplate(k, h)
  \/ \E g \in Helpers : AskToMoveTemplate(k, h, g)

EditStep(k) ==
  CommitDefault(k) \/ RetryDefault(k) \/ AbortDefault(k) \/ InsertTemplate(k) \/ WriteTemplate(k)

AssistantsNext == \E k \in Editors : EditStep(k) \/ \E h \in Helpers : AssistantStep(k, h)

AssistantsSpec == AssistantsInit /\ [][AssistantsNext]_assistantVars
-----------------------------------------------------------------------------
(* What must hold.                                                          *)

\* assistant.service.ts:28: two requests at once do not make two defaults,
\* not even the first ones of an owner, between which no document conflicts.
OneDefault == \A g, h \in Defaults : g = h

\* assistant.service.ts:80: while the default is changed there is no moment
\* without one.  It is lost only to a request that deletes or clears it.
DefaultIsHandedOver ==
  (Defaults # {} /\ \E k \in Editors : editor[k].at = "transaction" /\ editor'[k] # editor[k])
    => Defaults' # {}
=============================================================================
