------------------------------- MODULE WebUnread -------------------------------
(***************************************************************************)
(* The unread counts in one tab of the inbox (InboxPage.tsx): the list of  *)
(* conversations is loaded, told of changes by events that may come in any *)
(* order or get lost with a socket, and changed at once when the user      *)
(* opens a conversation, before the server has confirmed the read mark.    *)
(*                                                                         *)
(* A request is served at one moment and answered at a later one.  Of a    *)
(* conversation only its unread count is kept.  The updates of React's     *)
(* state take effect in the step that asks for them.                       *)
(***************************************************************************)
EXTENDS Naturals, FiniteSets

CONSTANTS
  Chats,    \* conversations
  NoChat,   \* none is open
  MaxUsed   \* bound: things the users and the customers do

ASSUME ChatAssumption == NoChat \notin Chats
ASSUME ListBounds == MaxUsed \in Nat

VARIABLES
  opened,    \* activeId
  list,      \* the conversations in the list
  badge,     \* their unread counts
  revision,  \* conversationRevisionRef
  mark,      \* readStateRef
  lastGen,   \* nextReadGenerationRef
  reads,     \* read marks under way
  lists,     \* loads of the list under way, bulk actions "unread" under way
  unreadIds, \* bulkUnreadConversationIdsRef
  updates,   \* events on their way
  unread, alive, \* the server: unread counts and existing conversations
  used       \* bound

refs == <<revision, mark, lastGen>>
listVars == <<opened, list, badge, refs, reads, lists, unreadIds, updates, unread, alive, used>>

\* Counts, and what is no count: no news, a conversation that was deleted, a
\* message in the open one.
Counts == 0..(MaxUsed + 1)
None == MaxUsed + 2
Deleted == MaxUsed + 3
Ring == MaxUsed + 4

NoMark == [gen |-> 0, base |-> 0, rev |-> 0, confirmed |-> FALSE]

\* The types of the tab, the requests and the server.
ListTypeOK ==
  /\ opened \in Chats \cup {NoChat}
  /\ list \subseteq Chats
  /\ badge \in [Chats -> Counts]
  /\ \A t \in Chats \ list : badge[t] = 0
  /\ revision \in [Chats -> Nat]
  /\ mark \in [Chats -> [gen : Nat, base : Counts, rev : Nat, confirmed : BOOLEAN]]
  /\ lastGen \in Nat
  /\ reads \subseteq [of : Chats, gen : Nat, served : BOOLEAN, news : Counts \cup {None}]
  /\ lists \subseteq [kind : {"load", "resume", "unread"}, served : BOOLEAN,
                      got : [Chats -> Counts \cup {None}], news : SUBSET Chats]
  /\ unreadIds \subseteq Chats
  /\ updates \subseteq [of : Chats, count : Counts \cup {Deleted, Ring}]
  /\ unread \in [Chats -> Counts]
  /\ alive \subseteq Chats
  /\ used \in 0..MaxUsed

Asked(kind) == [kind |-> kind, served |-> FALSE, got |-> [t \in Chats |-> None], news |-> {}]

ListInit ==
  /\ opened = NoChat
  /\ list = {}
  /\ badge = [t \in Chats |-> 0]
  /\ revision = [t \in Chats |-> 0]
  /\ mark = [t \in Chats |-> NoMark]
  /\ lastGen = 0
  /\ reads = {}
  /\ lists = {Asked("load")}
  /\ unreadIds = {}
  /\ updates = {}
  /\ unread = [t \in Chats |-> 0]
  /\ alive = Chats
  /\ used = 0

Uses == used < MaxUsed /\ used' = used + 1
-----------------------------------------------------------------------------
(* markActiveRead.                                                          *)

\* What a failed mark goes back to: what the last one, still unanswered, would.
Baseline(t, counts, revisions, marks) ==
  IF marks[t].gen # 0 /\ ~marks[t].confirmed /\ marks[t].rev = revisions[t]
  THEN marks[t].base ELSE counts[t]

\* The requests under way learn that something newer was shown.
Told(t, count) == {IF r.of = t THEN [r EXCEPT !.news = count] ELSE r : r \in reads}
ToldLists(t) == {[l EXCEPT !.news = @ \cup {t}] : l \in lists}

BeginRead(t, pending, counts, revisions, marks) ==
  /\ lastGen' = lastGen + 1
  /\ revision' = [revisions EXCEPT ![t] = @ + 1]
  /\ mark' = [marks EXCEPT ![t] = [gen |-> lastGen + 1, rev |-> revisions[t] + 1, confirmed |-> FALSE,
                                   base |-> Baseline(t, counts, revisions, marks)]]
  /\ badge' = [counts EXCEPT ![t] = 0]
  /\ reads' = pending \cup {[of |-> t, gen |-> lastGen + 1, served |-> FALSE, news |-> None]}

\* As a mutant of MayApply: any answer to a mark of the last generation.
IsLatest(r) == mark[r.of].gen = r.gen

\* The generation and revision guards.
MayApply(r) == mark[r.of].gen = r.gen /\ mark[r.of].rev = revision[r.of]

MayRestore(r) == MayApply(r) /\ ~mark[r.of].confirmed

AnswerRead(r) ==
  /\ r.served
  /\ reads' = reads \ {r}
  /\ IF MayApply(r)
     THEN mark' = [mark EXCEPT ![r.of] = NoMark] /\ badge' = [badge EXCEPT ![r.of] = 0]
     ELSE UNCHANGED <<mark, badge>>
  /\ UNCHANGED <<opened, list, revision, lastGen, lists, unreadIds, updates, unread, alive, used>>

\* An error, or no answer to what was served.
FailRead(r) ==
  /\ reads' = reads \ {r}
  /\ IF MayRestore(r)
     THEN /\ mark' = [mark EXCEPT ![r.of] = NoMark]
          /\ badge' = [badge EXCEPT ![r.of] = IF r.of \in list /\ @ = 0 THEN mark[r.of].base ELSE @]
     ELSE UNCHANGED <<mark, badge>>
  /\ UNCHANGED <<opened, list, revision, lastGen, lists, unreadIds, updates, unread, alive, used>>

\* markConversationRead of the API, and its event.
ServeRead(r) ==
  /\ ~r.served /\ r.of \in alive
  /\ reads' = (reads \ {r}) \cup {[r EXCEPT !.served = TRUE]}
  /\ unread' = [unread EXCEPT ![r.of] = 0]
  /\ updates' = updates \cup {[of |-> r.of, count |-> 0]}
  /\ UNCHANGED <<opened, list, badge, refs, lists, unreadIds, alive, used>>
-----------------------------------------------------------------------------
(* The user.                                                                *)

\* selectConversation: another conversation means another socket.
Pick(t) ==
  /\ Uses /\ t \in list
  /\ opened' = t
  /\ unreadIds' = unreadIds \ {t}
  /\ BeginRead(t, reads, badge, revision, mark)
  /\ \/ t # opened /\ updates' \in SUBSET {u \in updates : u.count # Ring}
     \/ t = opened /\ UNCHANGED updates
  /\ UNCHANGED <<list, lists, unread, alive>>

\* syncAfterResume.
ResumeList ==
  /\ Uses
  /\ lists' = lists \cup {Asked("resume")}
  /\ updates' \in SUBSET {u \in updates : u.count # Ring}
  /\ UNCHANGED <<opened, list, badge, refs, reads, unreadIds, unread, alive>>

\* The bulk action "unread" of one conversation.
AskUnread(t) ==
  /\ Uses /\ t \in list
  /\ unreadIds' = unreadIds \cup {t}
  /\ lists' = lists \cup {[Asked("unread") EXCEPT !.got = [c \in Chats |-> IF c = t THEN 1 ELSE None]]}
  /\ UNCHANGED <<opened, list, badge, refs, reads, updates, unread, alive>>
-----------------------------------------------------------------------------
(* The server and the other users.                                          *)

Tell(t, count) == updates' = updates \cup {[of |-> t, count |-> count]}

CustomerWrites(t) ==
  /\ Uses /\ t \in alive
  /\ unread' = [unread EXCEPT ![t] = @ + 1]
  /\ updates' = updates \cup {[of |-> t, count |-> unread[t] + 1]}
                        \cup {[of |-> c, count |-> Ring] : c \in {t} \cap {opened}}
  /\ UNCHANGED <<opened, list, badge, refs, reads, lists, unreadIds, alive>>

ReadElsewhere(t) ==
  /\ Uses /\ t \in alive
  /\ unread' = [unread EXCEPT ![t] = 0]
  /\ Tell(t, 0)
  /\ UNCHANGED <<opened, list, badge, refs, reads, lists, unreadIds, alive>>

DeleteElsewhere(t) ==
  /\ Uses /\ t \in alive
  /\ alive' = alive \ {t}
  /\ Tell(t, Deleted)
  /\ UNCHANGED <<opened, list, badge, refs, reads, lists, unreadIds, unread>>

\* A list is what the database holds; a bulk action counts one and says so.
ServeList(l) ==
  /\ ~l.served /\ l.kind # "unread"
  /\ lists' = (lists \ {l}) \cup
       {[l EXCEPT !.served = TRUE, !.got = [t \in Chats |-> IF t \in alive THEN unread[t] ELSE None]]}
  /\ UNCHANGED <<opened, list, badge, refs, reads, unreadIds, updates, unread, alive, used>>

ServeUnread(l, t) ==
  /\ ~l.served /\ l.kind = "unread" /\ l.got[t] = 1 /\ t \in alive
  /\ lists' = (lists \ {l}) \cup {[l EXCEPT !.served = TRUE]}
  /\ unread' = [unread EXCEPT ![t] = 1]
  /\ Tell(t, 1)
  /\ UNCHANGED <<opened, list, badge, refs, reads, unreadIds, alive, used>>
-----------------------------------------------------------------------------
(* Answers and events.                                                      *)

\* hasNewerLocalState.
HasNewer(t) == t \in list /\ (revision[t] > 0 \/ mark[t].gen # 0)

\* The list of the start spares what is newer; the one of a resume and the
\* answer of a bulk action replace.
Believes(l, t) ==
  /\ l.got[t] # None
  /\ l.kind = "load" => ~HasNewer(t)
  /\ l.kind = "unread" => t \in list

AnswerList(l) ==
  /\ l.served
  /\ lists' = lists \ {l}
  /\ list' = list \cup {t \in Chats : Believes(l, t)}
  /\ badge' = [t \in Chats |-> IF Believes(l, t) THEN l.got[t] ELSE badge[t]]
  /\ UNCHANGED <<opened, refs, reads, unreadIds, updates, unread, alive, used>>

FailList(l) ==
  /\ lists' = lists \ {l}
  /\ unreadIds' = IF l.kind = "unread" THEN {t \in unreadIds : l.got[t] = None} ELSE unreadIds
  /\ UNCHANGED <<opened, list, badge, refs, reads, updates, unread, alive, used>>

Hears(u) == u \in updates /\ updates' = updates \ {u}

\* handleMessageReceived, in the open conversation.
HearRing(u) ==
  /\ Hears(u) /\ u.count = Ring
  /\ BeginRead(u.of, Told(u.of, 0), badge, [revision EXCEPT ![u.of] = @ + 1], mark)
  /\ lists' = ToldLists(u.of)
  /\ UNCHANGED <<opened, list, unreadIds, unread, alive, used>>

\* handleConversationUpdated: a count of zero confirms the mark; another one
\* of the open conversation is marked read at once, unless this tab has just
\* marked it unread.
Confirmed(u) ==
  IF u.count = 0 /\ mark[u.of].gen # 0
  THEN [mark EXCEPT ![u.of].base = 0, ![u.of].rev = revision[u.of] + 1, ![u.of].confirmed = TRUE]
  ELSE mark

HearUpdate(u) ==
  LET t == u.of
      counts == [badge EXCEPT ![t] = u.count]
      revisions == [revision EXCEPT ![t] = @ + 1]
  IN
  /\ Hears(u) /\ u.count \in Counts
  /\ list' = list \cup {t}
  /\ lists' = ToldLists(t)
  /\ \/ /\ t = opened /\ u.count > 0 /\ t \notin unreadIds
        /\ BeginRead(t, Told(t, u.count), counts, revisions, Confirmed(u))
        /\ UNCHANGED unreadIds
     \/ /\ t # opened \/ u.count = 0 \/ t \in unreadIds
        /\ badge' = counts /\ revision' = revisions /\ mark' = Confirmed(u)
        /\ reads' = Told(t, u.count)
        /\ unreadIds' = IF t = opened /\ u.count > 0 THEN unreadIds \ {t} ELSE unreadIds
        /\ UNCHANGED lastGen
  /\ UNCHANGED <<opened, unread, alive, used>>

\* handleConversationDeleted.
HearDeleted(u) ==
  /\ Hears(u) /\ u.count = Deleted
  /\ list' = list \ {u.of}
  /\ badge' = [badge EXCEPT ![u.of] = 0]
  /\ opened' = IF opened = u.of THEN NoChat ELSE opened
  /\ UNCHANGED <<refs, reads, lists, unreadIds, unread, alive, used>>

PeopleStep ==
  \/ ResumeList
  \/ \E t \in Chats : Pick(t) \/ AskUnread(t) \/ CustomerWrites(t) \/ ReadElsewhere(t)
                      \/ DeleteElsewhere(t)

ListStep ==
  \/ \E r \in reads : ServeRead(r) \/ AnswerRead(r) \/ FailRead(r)
  \/ \E l \in lists : ServeList(l) \/ AnswerList(l) \/ FailList(l)
                      \/ \E t \in Chats : ServeUnread(l, t)
  \/ \E u \in updates : HearRing(u) \/ HearUpdate(u) \/ HearDeleted(u)

ListNext == PeopleStep \/ ListStep

ListSpec == ListInit /\ [][ListNext]_listVars
-----------------------------------------------------------------------------
\* InboxPage.tsx:234: "delayed read responses cannot undo newer realtime
\* activity": once an event about a conversation was handled, the answer or the
\* failure of an older read mark, and the list asked for at the start, leave
\* the count alone, or agree with the event.
NewsIsKept ==
  /\ \A r \in reads :
       r.news # None /\ r.gen \notin {s.gen : s \in reads'} => badge'[r.of] \in {badge[r.of], r.news}
  /\ \A l \in lists : l.kind = "load" /\ (\A k \in lists' : k.kind # "load") =>
       \A t \in l.news \cap list : badge'[t] = badge[t]
=============================================================================
