--------------------------- MODULE ConversationPins ---------------------------
(***************************************************************************)
(* What the members of a workspace attach to one conversation: its pinned  *)
(* messages (conversation-pin.service.ts), its notes                       *)
(* (conversation-note.service.ts) and its tags, which exist by themselves  *)
(* (conversation-tag.service.ts).                                          *)
(*                                                                         *)
(* A request looks first and writes afterwards; in between others write or *)
(* the conversation is deleted.  The member's channels are those the       *)
(* request began with.  Texts, colours and authors are left out, and so is *)
(* the order of the answer.                                                *)
(***************************************************************************)
EXTENDS Naturals, FiniteSets, Sequences, Functions, Subsequences

CONSTANTS
  Pinners,  \* requests
  Pinnable, \* messages of the conversation
  Labels,   \* tags
  NoPin,    \* no message and no tag
  PinLimit  \* PIN_LIMIT

ASSUME PinAssumption == PinLimit \in Nat \ {0} /\ NoPin \notin Pinnable \cup Labels

VARIABLES
  thread,  \* the conversation: "open" or "deleted"
  pinList, \* pinnedMessages
  notes,   \* ConversationNote documents, each by the request that made it
  labels,  \* ConversationTag documents
  worn,    \* tagIds of the conversation
  asking   \* a request: its control point, its subject and the answer

pinVars == <<thread, pinList, notes, labels, worn, asking>>

PinPoints == {"new", "pin", "reread", "unpin", "note", "editNote", "tag", "over"}
PinAnswers == {"none", "done", "limit", "conflict", "missing"}

\* The types of the documents and of the requests.
PinTypeOK ==
  /\ thread \in {"open", "deleted"}
  /\ pinList \in Seq(Pinnable)
  /\ notes \subseteq Pinners
  /\ labels \subseteq Labels /\ worn \subseteq Labels
  /\ asking \in [Pinners -> [at : PinPoints, of : Pinnable \cup Labels \cup Pinners \cup {NoPin},
                             answer : PinAnswers]]

PinInit ==
  /\ thread = "open"
  /\ pinList = <<>>
  /\ notes = {} /\ labels = {} /\ worn = {}
  /\ asking = [k \in Pinners |-> [at |-> "new", of |-> NoPin, answer |-> "none"]]

\* findAccessibleConversation, for a member who may see the conversation; the
\* others are TurnedAway.
Accessible == thread = "open"
IsPinned(m) == m \in Range(pinList)
IsFull == Len(pinList) >= PinLimit

PinGoto(k, point, m) == asking' = [asking EXCEPT ![k] = [at |-> point, of |-> m, answer |-> "none"]]
PinAnswer(k, text) == asking' = [asking EXCEPT ![k] = [@ EXCEPT !.at = "over", !.answer = text]]

\* How a pin is answered that is not, or not any more, to be written.
Unpinnable(m) ==
  IF ~Accessible THEN "missing"
  ELSE IF IsPinned(m) THEN "done"
  ELSE IF IsFull THEN "limit" ELSE "conflict"
-----------------------------------------------------------------------------
(* Pins.                                                                    *)

\* pinConversationMessage, up to its update.
AskToPin(k, m) ==
  /\ asking[k].at = "new"
  /\ IF Unpinnable(m) = "conflict" THEN PinGoto(k, "pin", m) ELSE PinAnswer(k, Unpinnable(m))
  /\ UNCHANGED <<thread, pinList, notes, labels, worn>>

\* As a mutant of MayPush: the filter of the update without the size.
MayPushUnchecked(m) == Accessible /\ ~IsPinned(m)

\* The filter of the update.
MayPush(m) == Accessible /\ ~IsPinned(m) /\ ~IsFull

PushPin(k) ==
  /\ asking[k].at = "pin"
  /\ \/ /\ MayPush(asking[k].of)
        /\ pinList' = Append(pinList, asking[k].of)
        /\ PinAnswer(k, "done")
     \/ /\ ~MayPush(asking[k].of)
        /\ PinGoto(k, "reread", asking[k].of)
        /\ UNCHANGED pinList
  /\ UNCHANGED <<thread, notes, labels, worn>>

\* The update met nothing: the conversation is read again to say why.
ExplainPin(k) ==
  /\ asking[k].at = "reread"
  /\ PinAnswer(k, Unpinnable(asking[k].of))
  /\ UNCHANGED <<thread, pinList, notes, labels, worn>>

\* unpinConversationMessage.
AskToUnpin(k, m) ==
  /\ asking[k].at = "new"
  /\ IF Accessible /\ IsPinned(m) THEN PinGoto(k, "unpin", m)
     ELSE PinAnswer(k, IF Accessible THEN "done" ELSE "missing")
  /\ UNCHANGED <<thread, pinList, notes, labels, worn>>

PullPin(k) ==
  /\ asking[k].at = "unpin"
  /\ pinList' = IF Accessible
                THEN Subsequence(pinList, {i \in DOMAIN pinList : pinList[i] # asking[k].of})
                ELSE pinList
  /\ PinAnswer(k, IF Accessible THEN "done" ELSE "missing")
  /\ UNCHANGED <<thread, notes, labels, worn>>
-----------------------------------------------------------------------------
(* Notes and tags.                                                          *)

\* createConversationNote: the conversation is looked up, then the author.
AskForNote(k) ==
  /\ asking[k].at = "new"
  /\ IF Accessible THEN PinGoto(k, "note", NoPin) ELSE PinAnswer(k, "missing")
  /\ UNCHANGED <<thread, pinList, notes, labels, worn>>

WriteNote(k) ==
  /\ asking[k].at = "note"
  /\ notes' = notes \cup {k}
  /\ PinAnswer(k, "done")
  /\ UNCHANGED <<thread, pinList, labels, worn>>

\* updateConversationNote, deleteConversationNote, toggleConversationNotePin.
AskAboutNote(k, n) ==
  /\ asking[k].at = "new"
  /\ IF Accessible /\ n \in notes THEN PinGoto(k, "editNote", n) ELSE PinAnswer(k, "missing")
  /\ UNCHANGED <<thread, pinList, notes, labels, worn>>

EditNote(k) ==
  /\ asking[k].at = "editNote"
  /\ notes' \in {notes, notes \ {asking[k].of}}
  /\ PinAnswer(k, IF asking[k].of \in notes THEN "done" ELSE "missing")
  /\ UNCHANGED <<thread, pinList, labels, worn>>

\* updateConversationTags: the tags are counted, then written.
AskForTag(k, t) ==
  /\ asking[k].at = "new"
  /\ IF t \in labels THEN PinGoto(k, "tag", t) ELSE PinAnswer(k, "missing")
  /\ UNCHANGED <<thread, pinList, notes, labels, worn>>

WriteTag(k) ==
  /\ asking[k].at = "tag"
  /\ worn' = IF Accessible THEN {asking[k].of} ELSE worn
  /\ PinAnswer(k, IF Accessible THEN "done" ELSE "missing")
  /\ UNCHANGED <<thread, pinList, notes, labels>>

\* createConversationTag: nameKey is unique.
CreateTag(k, t) ==
  /\ asking[k].at = "new"
  /\ labels' = labels \cup {t}
  /\ PinAnswer(k, IF t \in labels THEN "conflict" ELSE "done")
  /\ UNCHANGED <<thread, pinList, notes, worn>>

\* deleteConversationTag leaves the conversations that wear it.
DeleteTag(k, t) ==
  /\ asking[k].at = "new"
  /\ labels' = labels \ {t}
  /\ PinAnswer(k, IF t \in labels THEN "done" ELSE "missing")
  /\ UNCHANGED <<thread, pinList, notes, worn>>
-----------------------------------------------------------------------------
\* bulkConversationActions deletes in one transaction.
DeleteConversation ==
  /\ Accessible
  /\ thread' = "deleted"
  /\ pinList' = <<>> /\ notes' = {} /\ worn' = {}
  /\ UNCHANGED <<labels, asking>>

\* The member's channels, as the request found them, leave the conversation out;
\* the tags of a conversation look at that only when they are written.
TurnedAway(k) ==
  /\ asking[k].at \in {"new", "tag"}
  /\ PinAnswer(k, "missing")
  /\ UNCHANGED <<thread, pinList, notes, labels, worn>>

PinRequest(k) ==
  \/ \E m \in Pinnable : AskToPin(k, m) \/ AskToUnpin(k, m)
  \/ AskForNote(k)
  \/ \E n \in Pinners : AskAboutNote(k, n)
  \/ \E t \in Labels : AskForTag(k, t) \/ CreateTag(k, t) \/ DeleteTag(k, t)

PinWrite(k) == TurnedAway(k) \/ PushPin(k) \/ ExplainPin(k) \/ PullPin(k) \/ WriteNote(k) \/ EditNote(k) \/ WriteTag(k)

PinNext ==
  \/ \E k \in Pinners : PinRequest(k) \/ PinWrite(k)
  \/ DeleteConversation

PinSpec == PinInit /\ [][PinNext]_pinVars
-----------------------------------------------------------------------------
(* What must hold.                                                          *)

\* conversation-pin.service.ts:33: "A conversation can have at most 10 pinned
\* messages", none of them twice, however many are pinned at once; and pins
\* are those of a conversation that exists.
PinsAreLimited ==
  /\ Len(pinList) <= PinLimit
  /\ \A i, j \in 1..Len(pinList) : pinList[i] = pinList[j] => i = j
  /\ thread = "deleted" => pinList = <<>>
=============================================================================
