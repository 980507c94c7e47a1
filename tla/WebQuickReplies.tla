--------------------------- MODULE WebQuickReplies ---------------------------
(***************************************************************************)
(* The quick replies on the settings page: createQuickReplySync and        *)
(* QuickReplySettings (pages/SettingsPage.tsx).  Several writes may be     *)
(* under way, each answered late, never, or after the list was asked for     *)
(* by another token or on a page opened again.  The server is the list     *)
(* QuickReplies keeps; its user has this one page open.                    *)
(***************************************************************************)
EXTENDS Naturals, FiniteSets, Sequences, Subsequences

CONSTANTS
  Gets,     \* numbers: requests for the list at once
  Writes,   \* numbers: writes at once
  MaxWrites \* bound: writes

ASSUME QuickAssumption == Gets # {} /\ IsFiniteSet(Writes) /\ MaxWrites \in Nat \ {0}

VARIABLES
  rows,      \* the server's replies, oldest first, each with its last write
  listed,    \* quickReplies, the page's copy
  isLoading,
  pendingMutations,
  deletingId,
  gets,      \* requests for the list; current: of the newest generation
  writes,    \* writes; scope: of this token, of an earlier one, of a closed page
  written,     \* number of writes asked for
  confirmed, \* history: replies whose creation was shown, and no deletion asked for
  unreported \* history: the server changed what no later answer showed

quickVars == <<rows, listed, isLoading, pendingMutations, deletingId, gets, writes, written,
               confirmed, unreported>>

ReplyRows == [id : 1..MaxWrites, by : 1..MaxWrites]
NoGet == [at |-> "none", says |-> <<>>, current |-> FALSE, background |-> FALSE, fresh |-> FALSE]
NoWrite == [at |-> "none", op |-> "none", id |-> 0, by |-> 0, scope |-> "gone"]

\* The types of the page and of its requests.
QuickTypeOK ==
  /\ rows \in Seq(ReplyRows) /\ listed \in Seq(ReplyRows)
  /\ {isLoading, unreported} \subseteq BOOLEAN
  /\ pendingMutations \in 0..MaxWrites /\ written \in 0..MaxWrites
  /\ deletingId \in 0..MaxWrites /\ confirmed \subseteq 1..MaxWrites
  /\ \A g \in Gets : /\ gets[g].says \in Seq(ReplyRows)
                     /\ gets[g].at \in {"none", "sent", "served"}
  /\ \A w \in Writes : writes[w].at \in {"none", "sent", "ok", "no"}
                       /\ writes[w].op \in {"none", "create", "edit", "remove"}
                       /\ writes[w].scope \in {"in", "out", "gone"}

IdsIn(list) == {list[i].id : i \in DOMAIN list}
-----------------------------------------------------------------------------
(* createQuickReplySync.                                                    *)

\* As a mutant of Stale: a write leaves the requests under way as they are.
StillCurrent(requests) == requests

\* ++generation: no answer under way is shown.
Stale(requests) == [g \in Gets |-> [requests[g] EXCEPT !.current = FALSE]]

\* A slot for one more request, after which no other's answer is shown.
Slot(requests) == CHOOSE g \in Gets : requests[g] = NoGet \/ \A k \in Gets : requests[k] # NoGet

\* load, when nothing is pending.
WithLoad(requests, background) ==
  [Stale(requests) EXCEPT ![Slot(requests)] =
     [at |-> "sent", says |-> <<>>, current |-> TRUE, background |-> background, fresh |-> FALSE]]

QuickInit ==
  /\ rows \in {<<>>, <<[id |-> 1, by |-> 1]>>}
  /\ written = Len(rows)
  /\ listed = <<>> /\ isLoading = TRUE
  /\ pendingMutations = 0 /\ deletingId = 0
  /\ gets = WithLoad([g \in Gets |-> NoGet], FALSE)
  /\ writes = [w \in Writes |-> NoWrite]
  /\ confirmed = {} /\ unreported = TRUE

\* mutate, up to its request.
Mutate(w, op, id) ==
  /\ writes[w] = NoWrite /\ \A v \in Writes : v < w => writes[v] # NoWrite
  /\ written < MaxWrites /\ written' = written + 1
  /\ writes' = [writes EXCEPT ![w] =
       [at |-> "sent", op |-> op, id |-> id, by |-> written', scope |-> "in"]]
  /\ gets' = Stale(gets)
  /\ pendingMutations' = pendingMutations + 1
  /\ isLoading' = FALSE
  /\ confirmed' = confirmed \ (IF op = "remove" THEN {id} ELSE {})
  /\ UNCHANGED <<rows, listed, unreported>>

\* As a mutant of ReloadAfter: the list is not asked for while it is counted
\* as pending, so never.
NoReload == gets' = Stale(gets)

\* The finally of mutate: the list is asked for when nothing else is pending.
ReloadAfter ==
  gets' = IF pendingMutations = 1 THEN WithLoad(gets, TRUE) ELSE Stale(gets)

\* The same reply, as the write w left it.
Changed(list, w) ==
  LET c == writes[w] IN
  CASE c.op = "create" -> Append(list, [id |-> c.by, by |-> c.by])
    [] c.op = "edit" ->
         [i \in DOMAIN list |->
            IF list[i].id = c.id THEN [id |-> c.id, by |-> c.by] ELSE list[i]]
    [] c.op = "remove" -> Subsequence(list, {i \in DOMAIN list : list[i].id # c.id})
-----------------------------------------------------------------------------
(* What the user does.                                                      *)

isSaving == \E w \in Writes : writes[w].op \in {"create", "edit"} /\ writes[w].scope # "gone"

\* saveQuickReply, of a new reply or of one the list had when it was opened.
SaveQuickReply(w) ==
  /\ ~isSaving
  /\ \/ Mutate(w, "create", 0)
     \/ ~isLoading /\ \E id \in IdsIn(listed) : Mutate(w, "edit", id)
  /\ UNCHANGED deletingId

\* removeQuickReply
RemoveQuickReply(w) ==
  /\ ~isSaving /\ ~isLoading
  /\ \E id \in IdsIn(listed) \ {deletingId} : Mutate(w, "remove", id) /\ deletingId' = id

\* invalidate, then the first load of another token, or of the page opened
\* again, which knows nothing.
Invalidate(reopened) ==
  /\ gets' = WithLoad(gets, FALSE)
  /\ writes' = [w \in Writes |-> [writes[w] EXCEPT
       !.scope = IF reopened \/ @ = "gone" THEN "gone" ELSE "out"]]
  /\ pendingMutations' = 0 /\ isLoading' = TRUE
  /\ listed' = IF reopened THEN <<>> ELSE listed
  /\ confirmed' = IF reopened THEN {} ELSE confirmed
  /\ deletingId' = IF reopened THEN 0 ELSE deletingId
  /\ UNCHANGED <<rows, written, unreported>>
-----------------------------------------------------------------------------
(* The server.                                                              *)

\* A write of a reply that is gone is refused.  The answer to one of an earlier
\* scope is not shown, and one of a closed page has nobody to hear it.
ServeWrite(w) ==
  LET c == writes[w]
      taken == c.op = "create" \/ c.id \in IdsIn(rows)
      deaf == taken /\ c.scope # "in"
  IN
  /\ c.at = "sent"
  /\ rows' = IF taken THEN Changed(rows, w) ELSE rows
  /\ writes' = [writes EXCEPT ![w] =
       IF c.scope = "gone" THEN NoWrite ELSE [c EXCEPT !.at = IF taken THEN "ok" ELSE "no"]]
  /\ unreported' = (unreported \/ deaf)
  /\ gets' = [g \in Gets |-> [gets[g] EXCEPT !.fresh = @ /\ ~deaf]]
  /\ UNCHANGED <<listed, isLoading, pendingMutations, deletingId, written, confirmed>>

ServeGet(g) ==
  /\ gets[g].at = "sent"
  /\ gets' = [gets EXCEPT ![g].at = "served", ![g].says = rows, ![g].fresh = TRUE]
  /\ UNCHANGED <<rows, listed, isLoading, pendingMutations, deletingId, writes, written,
                 confirmed, unreported>>
-----------------------------------------------------------------------------
(* Answers.                                                                 *)

\* What the answer or the error of a write leaves on the page besides the list.
Ended(w, left) ==
  /\ writes' = [writes EXCEPT ![w] = left]
  /\ deletingId' = IF writes[w].op = "remove" /\ writes[w].scope # "gone" THEN 0 ELSE deletingId
  /\ UNCHANGED <<rows, isLoading, written, unreported>>

WriteAnswered(w) ==
  /\ writes[w].at = "ok" /\ writes[w].scope = "in"
  /\ listed' = Changed(listed, w)
  /\ confirmed' = confirmed \cup (IF writes[w].op = "create" THEN {writes[w].by} ELSE {})
  /\ ReloadAfter /\ pendingMutations' = pendingMutations - 1
  /\ Ended(w, NoWrite)

\* Refused, or the answer is lost; the server may still get to the request.
WriteFailed(w) ==
  /\ writes[w].scope = "in"
  /\ ReloadAfter /\ pendingMutations' = pendingMutations - 1
  /\ \/ Ended(w, NoWrite)
     \/ writes[w].at = "sent" /\ Ended(w, [writes[w] EXCEPT !.scope = "gone"])
  /\ UNCHANGED <<listed, confirmed>>

\* The answer or the error of a write of an earlier scope.
WriteIgnored(w) ==
  /\ writes[w] # NoWrite /\ writes[w].scope # "in"
  /\ Ended(w, NoWrite)
  /\ UNCHANGED <<listed, confirmed, pendingMutations, gets>>

GetAnswered(g) ==
  /\ gets[g].at = "served"
  /\ gets' = [gets EXCEPT ![g] = NoGet]
  /\ listed' = IF gets[g].current THEN gets[g].says ELSE listed
  /\ isLoading' = (isLoading /\ (gets[g].current => gets[g].background))
  /\ unreported' = (unreported /\ ~(gets[g].current /\ gets[g].fresh))
  /\ UNCHANGED <<rows, pendingMutations, deletingId, writes, written, confirmed>>

GetFailed(g) ==
  /\ gets[g] # NoGet
  /\ gets' = [gets EXCEPT ![g] = NoGet]
  /\ isLoading' = (isLoading /\ (gets[g].current => gets[g].background))
  /\ unreported' = (unreported \/ gets[g].current)
  /\ UNCHANGED <<rows, listed, pendingMutations, deletingId, writes, written, confirmed>>
-----------------------------------------------------------------------------
QuickNext ==
  \/ \E reopened \in BOOLEAN : Invalidate(reopened)
  \/ \E w \in Writes : \/ SaveQuickReply(w) \/ RemoveQuickReply(w) \/ ServeWrite(w)
                       \/ WriteAnswered(w) \/ WriteFailed(w) \/ WriteIgnored(w)
  \/ \E g \in Gets : ServeGet(g) \/ GetAnswered(g) \/ GetFailed(g)

QuickSpec == QuickInit /\ [][QuickNext]_quickVars
-----------------------------------------------------------------------------
(* What must hold.                                                          *)

\* SettingsPage.tsx:793: a list read before a write does not take the reply away
\* that the write brought; and when every write and answer is over the page
\* shows what the server has, in whatever order they came.
ListIsCurrent ==
  /\ confirmed \subseteq IdsIn(listed)
  /\ (\A g \in Gets : gets[g] = NoGet) /\ (\A w \in Writes : writes[w] = NoWrite) /\ ~unreported
       => listed = rows /\ ~isLoading /\ pendingMutations = 0
=============================================================================
