----------------------------- MODULE InboxProofs -----------------------------
(***************************************************************************)
(* Proofs about the inbox: that the conversations of Messenger, of the     *)
(* Telegram bot and of Zalo hold what was written, once, and that the page *)
(* shows what is of the open conversation and keeps the news.              *)
(*                                                                         *)
(* Each component has an inductive invariant: its types, what every call,  *)
(* delivery or request under way knows, and the property itself.  The last *)
(* section puts them together for the specification that the runs check.   *)
(***************************************************************************)
EXTENDS MCInbox, FiniteSetTheorems, SequenceTheorems, TLAPS

(* The Messenger conversation.                                              *)

\* What a call holds came from Meta, and is at least one event while it works.
CallsAreReal ==
  \A k \in Calls :
    /\ call[k].queue \in Seq(Inbound \cup accepted)
    /\ call[k].at \in {"owner", "store"} => call[k].queue # <<>>

\* A request to send has a conversation once it began, and Meta's word before it
\* is stored or found.
RequestsAreReal ==
  \A r \in Replies :
    /\ send[r].at # "new" => send[r].conv # 0
    /\ send[r].at \in {"persist", "lookup", "sent"} => r \in accepted

\* The customer's messages are in the conversation that exists, and a read mark
\* covered some of them.
RowsAreCurrent ==
  /\ conv.id \in {0, conv.made} /\ (conv.id = 0 => conv.unread = 0)
  /\ \A m \in Inbound : row[m] \in {0, conv.id}
  /\ conv.id # 0 => covered \subseteq In(conv.id)

MessengerInv ==
  /\ MessengerTypeOK /\ CallsAreReal /\ RequestsAreReal /\ RowsAreCurrent
  /\ UnreadIsExact /\ RepliesAreTrue

\* The types without the bound of the count, which follows from UnreadIsExact.
MessengerDocs ==
  /\ connected \in BOOLEAN
  /\ conv \in [id : 0..MaxConvs, unread : Nat, made : 0..MaxConvs]
  /\ row \in [TheMessages -> 0..MaxConvs]
  /\ covered \subseteq Inbound /\ marked \in BOOLEAN /\ erased \subseteq TheMessages
MessengerRequests ==
  /\ call \in [Calls -> [at : CallPoints, queue : Seq(TheMessages)]]
  /\ send \in [Replies -> [at : SendPoints, conv : 0..MaxConvs]]
  /\ accepted \subseteq Replies

LEMMA CallGoes ==
  ASSUME MessengerRequests, CallsAreReal, NEW k \in Calls, NEW point \in CallPoints,
         NEW queue \in Seq(Inbound \cup accepted), CallGoto(k, point, queue),
         point \in {"owner", "store"} => queue # <<>>,
         accepted' = accepted
  PROVE  call' \in [Calls -> [at : CallPoints, queue : Seq(TheMessages)]] /\ CallsAreReal'
<1>1. Seq(Inbound \cup accepted) \subseteq Seq(TheMessages)
  BY DEF MessengerRequests, TheMessages
<1>2. [at |-> point, queue |-> queue] \in [at : CallPoints, queue : Seq(TheMessages)]
  BY <1>1
<1>3. call' \in [Calls -> [at : CallPoints, queue : Seq(TheMessages)]]
  BY <1>2 DEF MessengerRequests, CallGoto
<1>4. \A l \in Calls : call'[l] = IF l = k THEN [at |-> point, queue |-> queue] ELSE call[l]
  BY DEF MessengerRequests, CallGoto
<1>. QED BY <1>3, <1>4 DEF CallsAreReal

LEMMA CallEndsWell ==
  ASSUME MessengerRequests, CallsAreReal, NEW k \in Calls, CallEnds(k), accepted' = accepted
  PROVE  call' \in [Calls -> [at : CallPoints, queue : Seq(TheMessages)]] /\ CallsAreReal'
<1>1. "over" \in CallPoints /\ <<>> \in Seq(Inbound \cup accepted)
  BY DEF CallPoints
<1>. QED BY <1>1, CallGoes DEF CallEnds

LEMMA TailsAreSeqs ==
  ASSUME NEW S, NEW s \in Seq(S), s # <<>>, Len(s) # 1
  PROVE  Tail(s) \in Seq(S) /\ Tail(s) # <<>>
<1>1. Len(s) \in Nat /\ Len(s) # 0
  BY EmptySeq
<1>2. Tail(s) \in Seq(S) /\ Len(Tail(s)) = Len(s) - 1
  BY <1>1
<1>3. Len(Tail(s)) # 0
  BY <1>1, <1>2
<1>. QED BY <1>2, <1>3, EmptySeq

LEMMA NextEventIsReal ==
  ASSUME MessengerRequests, CallsAreReal, NEW k \in Calls, call[k].at = "store",
         NextEvent(k) \/ CallEnds(k), accepted' = accepted
  PROVE  call' \in [Calls -> [at : CallPoints, queue : Seq(TheMessages)]] /\ CallsAreReal'
<1>1. CASE CallEnds(k)
  BY <1>1, CallEndsWell
<1>2. CASE NextEvent(k) /\ ~CallEnds(k)
  <2>1. call[k].queue \in Seq(Inbound \cup accepted) /\ call[k].queue # <<>>
    BY DEF CallsAreReal
  <2>2. Len(call[k].queue) # 1 /\ CallGoto(k, "store", Tail(call[k].queue))
    BY <1>2 DEF NextEvent
  <2>3. Tail(call[k].queue) \in Seq(Inbound \cup accepted) /\ Tail(call[k].queue) # <<>>
    BY <2>1, <2>2, TailsAreSeqs
  <2>4. "store" \in CallPoints
    BY DEF CallPoints
  <2>. QED BY <2>2, <2>3, <2>4, CallGoes
<1>. QED BY <1>1, <1>2

\* Meta's call brings at least one event.
LEMMA BatchIsSeq ==
  ASSUME NEW S, NEW queue \in Batches, \A i \in DOMAIN queue : queue[i] \in S
  PROVE  queue \in Seq(S) /\ queue # <<>>
<1>1. PICK n \in 1..MaxBatch : queue \in [1..n -> TheMessages]
  BY DEF Batches
<1>2. n \in Nat /\ n >= 1 /\ queue \in [1..n -> S]
  BY <1>1, MessengerBounds
<1>3. queue \in Seq(S) /\ Len(queue) = n
  BY <1>2
<1>. QED BY <1>2, <1>3

LEMMA CallTurns ==
  ASSUME MessengerRequests, CallsAreReal, NEW k \in Calls, ReceiveCall(k) \/ ResolveOwner(k) \/ StoreEvent(k)
  PROVE  MessengerRequests' /\ CallsAreReal'
<1>0. accepted' = accepted /\ send' = send
  BY DEF ReceiveCall, ResolveOwner, StoreEvent
<1>1. CASE ReceiveCall(k)
  <2>1. PICK queue \in Batches : /\ \A i \in DOMAIN queue : queue[i] \in Inbound \cup accepted
                                 /\ CallGoto(k, "owner", queue)
    BY <1>1 DEF ReceiveCall
  <2>2. queue \in Seq(Inbound \cup accepted) /\ queue # <<>>
    BY <2>1, BatchIsSeq
  <2>3. "owner" \in CallPoints
    BY DEF CallPoints
  <2>. QED BY <1>0, <2>1, <2>2, <2>3, CallGoes DEF MessengerRequests
<1>2. CASE ResolveOwner(k)
  <2>1. CASE CallEnds(k)
    BY <1>0, <2>1, CallEndsWell DEF MessengerRequests
  <2>2. CASE CallGoto(k, "store", call[k].queue)
    <3>1. call[k].queue \in Seq(Inbound \cup accepted) /\ call[k].queue # <<>>
      BY <1>2 DEF CallsAreReal, ResolveOwner
    <3>2. "store" \in CallPoints
      BY DEF CallPoints
    <3>. QED BY <1>0, <2>2, <3>1, <3>2, CallGoes DEF MessengerRequests
  <2>. QED BY <1>2, <2>1, <2>2 DEF ResolveOwner
<1>3. CASE StoreEvent(k)
  BY <1>0, <1>3, NextEventIsReal DEF StoreEvent, MessengerRequests
<1>. QED BY <1>1, <1>2, <1>3

\* An event is stored as one row, and counted with it.
LEMMA StoresExactly ==
  ASSUME MessengerInv, NEW m \in TheMessages, IsNew(m), MayUpsert,
         row' = [row EXCEPT ![m] = Upserted.id],
         conv' = [Upserted EXCEPT !.unread = IF CountsAsUnread(m) THEN @ + 1 ELSE @],
         IF conv.id = 0 THEN covered' = {} /\ marked' = FALSE ELSE UNCHANGED <<covered, marked>>,
         UNCHANGED <<connected, erased>>, m \in Inbound \cup accepted,
         UNCHANGED <<send, accepted>>
  PROVE  MessengerDocs' /\ RowsAreCurrent' /\ UnreadIsExact' /\ RepliesAreTrue'
<1>. DEFINE c == Upserted.id
            had == Upserted.unread
<1>. USE MessengerBounds, MessagesAssumption
<1>1. /\ conv \in [id : 0..MaxConvs, unread : Nat, made : 0..MaxConvs]
      /\ row \in [TheMessages -> 0..MaxConvs]
      /\ covered \subseteq Inbound /\ marked \in BOOLEAN /\ erased \subseteq TheMessages
      /\ connected \in BOOLEAN
  BY DEF MessengerInv, MessengerTypeOK
<1>2. /\ Upserted \in [id : 1..MaxConvs, unread : Nat, made : 0..MaxConvs]
      /\ Upserted.id = Upserted.made
      /\ conv.id # 0 => Upserted = conv
      /\ conv.id = 0 => had = 0
  BY <1>1 DEF MessengerInv, RowsAreCurrent, Upserted, MayUpsert
<1>3. /\ conv'.id = c /\ conv'.made = Upserted.made
      /\ conv'.unread = IF m \in Inbound THEN had + 1 ELSE had
      /\ conv' \in [id : 0..MaxConvs, unread : Nat, made : 0..MaxConvs]
  BY <1>2 DEF CountsAsUnread
<1>4. /\ row' \in [TheMessages -> 0..MaxConvs] /\ row[m] = 0
      /\ row'[m] = c
      /\ \A x \in TheMessages : x # m => row'[x] = row[x]
  BY <1>1, <1>2 DEF IsNew
<1>5. MessengerDocs'
  BY <1>1, <1>2, <1>3, <1>4 DEF MessengerDocs
<1>6. RowsAreCurrent'
  BY <1>1, <1>2, <1>3, <1>4 DEF RowsAreCurrent, MessengerInv, In, TheMessages
<1>7. RepliesAreTrue'
  BY <1>2, <1>4 DEF RepliesAreTrue, MessengerInv, TheMessages
<1>. DEFINE Left == (In(conv.id) \cap Inbound) \ covered
            Now == ((In(conv.id) \cap Inbound) \ covered)'
<1>8. IsFiniteSet(Left)
  BY FS_Subset
<1>9. CASE conv.id # 0
  <2>. USE <1>9
  <2>0. covered' = covered /\ conv'.id = conv.id /\ c = conv.id
    BY <1>2, <1>3
  <2>1. Now = IF m \in Inbound THEN Left \cup {m} ELSE Left
    <3>1. \A x : x \in Left <=> x \in Inbound /\ row[x] = conv.id /\ x \notin covered
      BY DEF In, TheMessages
    <3>2. \A x : x \in Now <=> x \in Inbound /\ row'[x] = conv.id /\ x \notin covered
      BY <2>0 DEF In, TheMessages
    <3>3. m \notin covered
      BY <1>4 DEF MessengerInv, RowsAreCurrent, In
    <3>4. \A x : x \in Now <=> x \in Left \/ (x = m /\ m \in Inbound)
      <4>. HIDE DEF Left, Now
      <4>. QED BY <1>4, <2>0, <3>1, <3>2, <3>3 DEF TheMessages
    <3>. HIDE DEF Left, Now
    <3>. QED BY <3>4
  <2>2. m \notin Left
    BY <1>4, <1>9 DEF In
  <2>3. Cardinality(Now) = IF m \in Inbound THEN Cardinality(Left) + 1 ELSE Cardinality(Left)
    <3>. HIDE DEF Left, Now
    <3>. QED BY <1>8, <2>1, <2>2, FS_AddElement
  <2>4. conv.unread = (IF marked THEN 1 ELSE 0) + Cardinality(Left) /\ Cardinality(Left) \in Nat
    BY <1>8, <1>9, FS_CardinalityType DEF MessengerInv, UnreadIsExact
  <2>5. conv'.unread = (IF marked' THEN 1 ELSE 0) + Cardinality(Now)
    BY <1>1, <1>2, <1>3, <1>9, <2>3, <2>4
  <2>. QED BY <1>3, <1>5, <1>6, <1>7, <2>5 DEF UnreadIsExact
<1>10. CASE conv.id = 0
  <2>1. Now = IF m \in Inbound THEN {m} ELSE {}
    BY <1>2, <1>4, <1>10 DEF In, TheMessages, MessengerInv, RowsAreCurrent
  <2>2. Cardinality(Now) = IF m \in Inbound THEN 1 ELSE 0
    BY <2>1, FS_EmptySet, FS_Singleton
  <2>3. conv'.unread = (IF marked' THEN 1 ELSE 0) + Cardinality(Now)
    BY <1>2, <1>3, <1>10, <2>2
  <2>. QED BY <1>3, <1>5, <1>6, <1>7, <2>3 DEF UnreadIsExact
<1>. QED BY <1>9, <1>10

LEMMA MessengerTypes == MessengerTypeOK => MessengerDocs /\ MessengerRequests
  BY FS_CardinalityType, MessagesAssumption DEF MessengerTypeOK, MessengerDocs, MessengerRequests

\* The badge is exact, and so at most one more than the messages there are.
LEMMA TypesFromCount ==
  MessengerDocs /\ MessengerRequests /\ RowsAreCurrent /\ UnreadIsExact => MessengerTypeOK
<1>. SUFFICES ASSUME MessengerDocs, MessengerRequests, RowsAreCurrent, UnreadIsExact PROVE MessengerTypeOK
  OBVIOUS
<1>1. IsFiniteSet((In(conv.id) \cap Inbound) \ covered) /\
      Cardinality((In(conv.id) \cap Inbound) \ covered) <= Cardinality(Inbound) /\
      Cardinality((In(conv.id) \cap Inbound) \ covered) \in Nat /\ Cardinality(Inbound) \in Nat
  BY FS_Subset, FS_CardinalityType, MessagesAssumption
<1>2. conv.unread \in 0..(Cardinality(Inbound) + 1)
  BY <1>1 DEF MessengerDocs, UnreadIsExact, RowsAreCurrent
<1>3. conv \in [id : 0..MaxConvs, unread : 0..(Cardinality(Inbound) + 1), made : 0..MaxConvs]
  BY <1>2 DEF MessengerDocs
<1>. QED BY <1>3 DEF MessengerTypeOK, MessengerDocs, MessengerRequests

\* What a reply goes through leaves the customer's messages alone.
LEMMA SendTurns ==
  ASSUME MessengerInv, NEW r \in Replies, SendStep(r)
  PROVE  /\ MessengerDocs' /\ MessengerRequests' /\ CallsAreReal' /\ RequestsAreReal' /\ RowsAreCurrent'
         /\ UnreadIsExact' /\ RepliesAreTrue'
<1>1. MessengerDocs /\ MessengerRequests /\ r \notin Inbound
  BY MessengerTypes, MessagesAssumption DEF MessengerInv
<1>2. /\ UNCHANGED <<connected, conv, call, covered, marked, erased>>
      /\ accepted \subseteq accepted' /\ accepted' \subseteq Replies
  BY <1>1 DEF SendStep, AskSend, PauseForSend, CheckWindow, DeliverReply, PersistReply, FindEcho,
              messengerMarks, MessengerRequests
<1>3. CallsAreReal'
  <2>1. \A k \in Calls : call[k].queue \in Seq(Inbound \cup accepted')
    BY <1>2 DEF MessengerInv, CallsAreReal
  <2>. QED BY <1>2, <2>1 DEF MessengerInv, CallsAreReal
<1>4. row' \in [TheMessages -> 0..MaxConvs] /\ \A m \in Inbound : row'[m] = row[m]
  BY <1>1 DEF SendStep, AskSend, PauseForSend, CheckWindow, DeliverReply, PersistReply, FindEcho,
              MessengerDocs, MessengerRequests, TheMessages
<1>5. MessengerDocs'
  BY <1>1, <1>2, <1>4 DEF MessengerDocs
<1>6. RowsAreCurrent'
  BY <1>2, <1>4, <1>1 DEF MessengerInv, RowsAreCurrent, In, TheMessages, MessengerDocs
<1>7. UnreadIsExact'
  <2>1. (In(conv.id) \cap Inbound)' = In(conv.id) \cap Inbound
    BY <1>2, <1>4 DEF In, TheMessages
  <2>. QED BY <1>2, <2>1 DEF MessengerInv, UnreadIsExact
<1>8. MessengerRequests' /\ RequestsAreReal' /\ RepliesAreTrue'
  <2>0. /\ send \in [Replies -> [at : SendPoints, conv : 0..MaxConvs]]
        /\ \A q \in Replies : /\ send[q].at # "new" => send[q].conv # 0
                              /\ send[q].at \in {"persist", "lookup", "sent"} => q \in accepted
                              /\ send[q].at = "sent" => row[q] # 0 \/ q \in erased
                              /\ row[q] # 0 => q \in accepted
    BY <1>1 DEF MessengerRequests, MessengerInv, RequestsAreReal, RepliesAreTrue
  <2>1. /\ \A q \in Replies \ {r} : row'[q] = row[q]
        /\ row'[r] = row[r] \/ (row'[r] = send[r].conv /\ send[r].at = "persist")
        /\ send[r].at = "lookup" /\ send'[r].at = "sent" => row[r] # 0
    BY <1>1 DEF SendStep, AskSend, PauseForSend, CheckWindow, DeliverReply, PersistReply, FindEcho,
                MessengerDocs, MessengerRequests, TheMessages, SendGoto
  <2>2. /\ send' \in [Replies -> [at : SendPoints, conv : 0..MaxConvs]]
        /\ \A q \in Replies \ {r} : send'[q] = send[q]
        /\ send[r].at # "sent"
        /\ (send'[r].conv = send[r].conv /\ send[r].at # "new") \/ send'[r].conv # 0
        /\ send'[r].at = "persist" => r \in accepted'
        /\ send'[r].at = "lookup" => send[r].at = "persist"
        /\ send'[r].at = "sent" => \/ send[r].at = "persist" /\ row'[r] = send[r].conv
                                   \/ send[r].at = "lookup"
    <3>. USE DEF SendPoints, SendGoto
    <3>1. CASE AskSend(r)
      BY <1>1, <2>0, <3>1 DEF AskSend, MessengerDocs
    <3>2. CASE PauseForSend(r)
      BY <2>0, <3>2 DEF PauseForSend
    <3>3. CASE CheckWindow(r)
      BY <2>0, <3>3 DEF CheckWindow
    <3>4. CASE DeliverReply(r)
      BY <2>0, <3>4 DEF DeliverReply
    <3>5. CASE PersistReply(r)
      BY <1>1, <2>0, <3>5 DEF PersistReply, MessengerDocs, TheMessages
    <3>6. CASE FindEcho(r)
      BY <2>0, <3>6 DEF FindEcho
    <3>. QED BY <3>1, <3>2, <3>3, <3>4, <3>5, <3>6 DEF SendStep
  <2>3. MessengerRequests'
    BY <1>1, <1>2, <2>2 DEF MessengerRequests
  <2>4. RequestsAreReal'
    BY <1>2, <2>0, <2>1, <2>2 DEF RequestsAreReal
  <2>5. RepliesAreTrue'
    BY <1>2, <2>0, <2>1, <2>2 DEF RepliesAreTrue
  <2>. QED BY <2>3, <2>4, <2>5
<1>. QED BY <1>2, <1>3, <1>5, <1>6, <1>7, <1>8

LEMMA WebhookTurns ==
  ASSUME MessengerInv, NEW k \in Calls, WebhookStep(k)
  PROVE  /\ MessengerDocs' /\ MessengerRequests' /\ CallsAreReal' /\ RequestsAreReal' /\ RowsAreCurrent'
         /\ UnreadIsExact' /\ RepliesAreTrue'
<1>1. MessengerDocs /\ MessengerRequests
  BY MessengerTypes DEF MessengerInv
<1>2. MessengerRequests' /\ CallsAreReal'
  BY <1>1, CallTurns DEF WebhookStep, MessengerInv
<1>3. RequestsAreReal' /\ UNCHANGED <<connected, send, accepted, erased>>
  BY DEF WebhookStep, ReceiveCall, ResolveOwner, StoreEvent, MessengerInv, RequestsAreReal,
         messengerMarks
<1>4. CASE UNCHANGED <<conv, row, covered, marked>>
  BY <1>1, <1>2, <1>3, <1>4 DEF MessengerInv, MessengerDocs, RowsAreCurrent, In, UnreadIsExact, RepliesAreTrue
<1>5. CASE StoreEvent(k) /\ ~UNCHANGED <<conv, row, covered, marked>>
  <2>. DEFINE m == Head(call[k].queue)
  <2>1. m \in Inbound \cup accepted
    BY <1>5 DEF StoreEvent, MessengerInv, CallsAreReal
  <2>2. m \in TheMessages
    BY <1>1, <2>1 DEF MessengerRequests, TheMessages
  <2>3. /\ IsNew(m) /\ MayUpsert
        /\ row' = [row EXCEPT ![m] = Upserted.id]
        /\ conv' = [Upserted EXCEPT !.unread = IF CountsAsUnread(m) THEN @ + 1 ELSE @]
        /\ IF conv.id = 0 THEN covered' = {} /\ marked' = FALSE ELSE UNCHANGED <<covered, marked>>
    BY <1>5 DEF StoreEvent
  <2>. HIDE DEF m
  <2>4. MessengerDocs' /\ RowsAreCurrent' /\ UnreadIsExact' /\ RepliesAreTrue'
    BY <1>3, <2>1, <2>2, <2>3, StoresExactly
  <2>. QED BY <1>2, <1>3, <2>4
<1>. QED BY <1>4, <1>5 DEF WebhookStep, ReceiveCall, ResolveOwner, messengerMarks

\* The marks of the inbox begin a new count; a deletion takes every message of
\* the customer.
LEMMA InboxTurns ==
  ASSUME MessengerInv,
         MarkRead \/ MarkUnread \/ DeleteThread \/ PageChanges \/ UNCHANGED messengerVars
  PROVE  /\ MessengerDocs' /\ MessengerRequests' /\ CallsAreReal' /\ RequestsAreReal' /\ RowsAreCurrent'
         /\ UnreadIsExact' /\ RepliesAreTrue'
<1>1. MessengerDocs /\ MessengerRequests
  BY MessengerTypes DEF MessengerInv
<1>2. UNCHANGED <<call, send, accepted>>
  BY DEF MarkRead, MarkUnread, DeleteThread, PageChanges, messengerVars, messengerMarks
<1>3. MessengerRequests' /\ CallsAreReal' /\ RequestsAreReal'
  BY <1>1, <1>2 DEF MessengerRequests, MessengerInv, CallsAreReal, RequestsAreReal
<1>4. CASE MarkRead \/ MarkUnread
  <2>0. /\ UNCHANGED <<connected, row, erased>> /\ conv'.id = conv.id /\ conv'.made = conv.made
        /\ covered' = In(conv.id) \cap Inbound /\ marked' \in BOOLEAN
        /\ conv' \in [id : 0..MaxConvs, unread : Nat, made : 0..MaxConvs]
        /\ conv'.unread = IF marked' THEN 1 ELSE 0
    <3>1. conv \in [id : 0..MaxConvs, unread : Nat, made : 0..MaxConvs]
      BY <1>1 DEF MessengerDocs
    <3>2. CASE MarkRead
      BY <3>1, <3>2 DEF MarkRead
    <3>3. CASE MarkUnread
      BY <3>1, <3>3 DEF MarkUnread
    <3>. QED BY <1>4, <3>2, <3>3
  <2>4. conv'.id # 0
    BY <1>4, <2>0 DEF MarkRead, MarkUnread
  <2>1. MessengerDocs' /\ RowsAreCurrent' /\ RepliesAreTrue'
    BY <1>1, <1>2, <2>0, <2>4 DEF MessengerInv, MessengerDocs, RowsAreCurrent, RepliesAreTrue, In
  <2>2. ((In(conv.id) \cap Inbound) \ covered)' = {}
    BY <2>0 DEF In
  <2>3. UnreadIsExact'
    BY <2>0, <2>2, FS_EmptySet DEF UnreadIsExact
  <2>. QED BY <1>3, <2>1, <2>3, <2>4
<1>5. CASE DeleteThread
  <2>0. /\ UNCHANGED <<connected, covered, marked>> /\ conv'.id = 0 /\ conv'.made = conv.made
        /\ conv'.unread = 0 /\ erased' = erased \cup In(conv.id)
        /\ conv' \in [id : 0..MaxConvs, unread : Nat, made : 0..MaxConvs]
        /\ row' = [m \in TheMessages |-> IF row[m] = conv.id THEN 0 ELSE row[m]]
    <3>1. conv \in [id : 0..MaxConvs, unread : Nat, made : 0..MaxConvs]
      BY <1>1 DEF MessengerDocs
    <3>2. conv' = [conv EXCEPT !.id = 0, !.unread = 0]
      BY <1>5 DEF DeleteThread
    <3>3. /\ conv'.id = 0 /\ conv'.unread = 0 /\ conv'.made = conv.made
          /\ conv' \in [id : 0..MaxConvs, unread : Nat, made : 0..MaxConvs]
      <4>1. conv' = [id |-> 0, unread |-> 0, made |-> conv.made]
        BY <3>1, <3>2
      <4>. QED BY <3>1, <4>1, MessengerBounds
    <3>. QED BY <1>5, <3>3 DEF DeleteThread
  <2>1. MessengerDocs'
    BY <1>1, <2>0, MessengerBounds DEF MessengerDocs, In
  <2>2. RowsAreCurrent' /\ UnreadIsExact'
    BY <1>1, <2>0 DEF MessengerInv, RowsAreCurrent, UnreadIsExact, TheMessages
  <2>3. RepliesAreTrue'
    BY <1>2, <2>0 DEF MessengerInv, RepliesAreTrue, TheMessages, In
  <2>. QED BY <1>3, <2>0, <2>1, <2>2, <2>3
<1>6. CASE PageChanges \/ UNCHANGED messengerVars
  <2>1. UNCHANGED <<conv, row, covered, marked, erased>> /\ connected' \in BOOLEAN
    BY <1>1, <1>6 DEF PageChanges, messengerVars, messengerMarks, MessengerDocs
  <2>. QED BY <1>1, <1>2, <1>3, <2>1
           DEF MessengerInv, MessengerDocs, RowsAreCurrent, In, UnreadIsExact, RepliesAreTrue
<1>. QED BY <1>4, <1>5, <1>6

LEMMA MessengerStarts == MessengerInit => MessengerInv
<1>. SUFFICES ASSUME MessengerInit PROVE MessengerInv
  OBVIOUS
<1>. USE MessengerBounds, MessagesAssumption DEF MessengerInit, NoConv
<1>1. MessengerDocs
  <2>1. conv \in [id : 0..MaxConvs, unread : Nat, made : 0..MaxConvs]
    BY DEF NoConv
  <2>. QED BY <2>1 DEF MessengerDocs
<1>2. MessengerRequests /\ CallsAreReal /\ RequestsAreReal
  <2>1. \A S : <<>> \in Seq(S)
    BY EmptySeq
  <2>2. call \in [Calls -> [at : CallPoints, queue : Seq(TheMessages)]] /\ CallsAreReal
    BY <2>1 DEF CallPoints, CallsAreReal
  <2>3. send \in [Replies -> [at : SendPoints, conv : 0..MaxConvs]]
    BY DEF SendPoints
  <2>. QED BY <2>2, <2>3 DEF MessengerRequests, RequestsAreReal
<1>3. RowsAreCurrent /\ UnreadIsExact /\ RepliesAreTrue
  BY DEF RowsAreCurrent, UnreadIsExact, RepliesAreTrue, TheMessages
<1>. QED BY <1>1, <1>2, <1>3, TypesFromCount DEF MessengerInv

LEMMA MessengerStep == MessengerInv /\ [MessengerNext]_messengerVars => MessengerInv'
<1>. SUFFICES ASSUME MessengerInv, [MessengerNext]_messengerVars PROVE MessengerInv'
  OBVIOUS
<1>1. /\ MessengerDocs' /\ MessengerRequests' /\ CallsAreReal' /\ RequestsAreReal' /\ RowsAreCurrent'
      /\ UnreadIsExact' /\ RepliesAreTrue'
  BY WebhookTurns, SendTurns, InboxTurns DEF MessengerNext
<1>2. MessengerTypeOK'
  BY <1>1, TypesFromCount, PTL
<1>. QED BY <1>1, <1>2 DEF MessengerInv

\* The unread count is that of the stored messages of the customer, and a stored
\* reply was taken by Meta (facebook-messenger.webhook.ts:29,
\* message.service.ts:363), whatever is delivered again or fails.
THEOREM MessengerCounts == MessengerSpec => []MessengerInv
  BY MessengerStarts, MessengerStep, PTL DEF MessengerSpec

-----------------------------------------------------------------------------
(* The Telegram bot.                                                        *)

BotRecords == [at : BotPoints, update : Updates \cup {NoUpdate}, owner : Admins \cup {NoUpdate},
               number : 0..MaxNumber]
Secrets == [number : 0..MaxNumber, owner : Admins \cup {NoUpdate}, last : 0..MaxNumber]

\* The types without the bound of the count.
BotTypes ==
  /\ secret \in Secrets
  /\ webhook \in BOOLEAN
  /\ chat \in [known : BOOLEAN, owner : Admins \cup {NoUpdate}, unread : Nat]
  /\ kept \subseteq Updates
  /\ bot \in [BotCalls -> BotRecords]
  /\ effect \in [Updates -> [counted : 0..1, answered : 0..1]]

\* What a call has read is still so: it has an update, and the owner of the
\* conversation.
CallsKnow ==
  \A k \in BotCalls :
    /\ bot[k].at \in IngestPoints => bot[k].update \in Updates
    /\ bot[k].at \in {"create", "count", "answer"} => chat.known /\ bot[k].owner = chat.owner
    /\ bot[k].at = "answer" => bot[k].owner # NoUpdate

\* The one call that stored an update counts it, and then takes it to the bot.
OneCallHandles ==
  /\ \A k \in BotCalls :
       LET u == bot[k].update IN
       /\ bot[k].at = "count" => u \in kept /\ effect[u].counted = 0
       /\ bot[k].at = "answer" => effect[u].counted = 1 /\ effect[u].answered = 0
  /\ \A j, k \in BotCalls :
       bot[j].at \in {"count", "answer"} /\ bot[k].at = bot[j].at /\ bot[k].update = bot[j].update
         => j = k
  /\ \A u \in Updates :
       /\ effect[u].answered <= effect[u].counted
       /\ effect[u].counted = 1 => u \in kept
       /\ effect[u].answered = 1 => chat.known /\ chat.owner # NoUpdate

CountedUpdates == {u \in Updates : effect[u].counted = 1}
CountIsBounded == chat.unread <= Cardinality(CountedUpdates)

BotInv == BotTypes /\ CallsKnow /\ OneCallHandles /\ CountIsBounded


\* A call goes on to a point, with what it remembers; the others stay.
BotMoved(k, point, update, owner) ==
  /\ bot' \in [BotCalls -> BotRecords]
  /\ \A j \in BotCalls \ {k} : bot'[j] = bot[j]
  /\ bot'[k].at = point /\ bot'[k].update = update /\ bot'[k].owner = owner

LEMMA BotStarts == BotInit => BotInv
<1>. SUFFICES ASSUME BotInit PROVE BotInv
  OBVIOUS
<1>. USE BotBounds DEF BotInit
<1>1. BotTypes
  <2>1. secret \in Secrets
    BY DEF NoSecret, Secrets
  <2>2. NoWork \in BotRecords
    BY DEF NoWork, BotRecords, BotPoints
  <2>3. chat \in [known : BOOLEAN, owner : Admins \cup {NoUpdate}, unread : Nat]
    OBVIOUS
  <2>4. effect \in [Updates -> [counted : 0..1, answered : 0..1]]
    OBVIOUS
  <2>. QED BY <2>1, <2>2, <2>3, <2>4 DEF BotTypes
<1>2. CallsKnow /\ OneCallHandles
  BY DEF CallsKnow, OneCallHandles, NoWork, IngestPoints
<1>3. CountIsBounded
  <2>1. CountedUpdates = {}
    BY DEF CountedUpdates
  <2>. QED BY <2>1, FS_EmptySet DEF CountIsBounded
<1>. QED BY <1>1, <1>2, <1>3 DEF BotInv

LEMMA BotMoves ==
  ASSUME BotTypes, NEW k \in BotCalls, NEW point \in BotPoints, BotGoto(k, point)
  PROVE  BotMoved(k, point, bot[k].update, bot[k].owner)
  BY DEF BotTypes, BotGoto, BotRecords, BotMoved

LEMMA DisconnectMoves ==
  ASSUME BotTypes, NEW k \in BotCalls, Disconnect(k)
  PROVE  BotMoved(k, "removeWebhook", bot[k].update, bot[k].owner)
<1>1. secret.number \in 0..MaxNumber
  BY DEF BotTypes, Secrets
<1>2. bot \in [BotCalls -> BotRecords]
  BY DEF BotTypes
<1>3. bot' = [bot EXCEPT ![k].at = "removeWebhook", ![k].number = secret.number]
  BY DEF Disconnect
<1>4. bot' \in [BotCalls -> BotRecords]
  BY <1>1, <1>2, <1>3 DEF BotRecords, BotPoints
<1>. QED BY <1>2, <1>3, <1>4 DEF BotMoved, BotRecords

LEMMA IngestMoves ==
  ASSUME BotTypes, NEW k \in BotCalls, NEW u \in Updates, Ingest(k, u)
  PROVE  BotMoved(k, "exists", u, bot[k].owner)
<1>1. bot \in [BotCalls -> BotRecords]
  BY DEF BotTypes
<1>2. bot' = [bot EXCEPT ![k].at = "exists", ![k].update = u]
  BY DEF Ingest
<1>3. bot' \in [BotCalls -> BotRecords]
  BY <1>1, <1>2 DEF BotRecords, BotPoints, IngestPoints
<1>. QED BY <1>1, <1>2, <1>3 DEF BotMoved, BotRecords

LEMMA OwnerMoves ==
  ASSUME BotTypes, NEW k \in BotCalls, NEW point \in BotPoints, NEW a \in Admins \cup {NoUpdate},
         bot' = [bot EXCEPT ![k].at = point, ![k].owner = a]
  PROVE  BotMoved(k, point, bot[k].update, a)
<1>1. bot \in [BotCalls -> BotRecords]
  BY DEF BotTypes
<1>2. bot' \in [BotCalls -> BotRecords]
  BY <1>1 DEF BotRecords
<1>. QED BY <1>1, <1>2 DEF BotMoved, BotRecords

\* Registering and disconnecting do not touch the conversation.
LEMMA RegistrationTurns ==
  ASSUME BotInv, NEW k \in BotCalls, RegistrationStep(k)
  PROVE  BotInv'
<1>0. BotTypes
  BY DEF BotInv
<1>1. UNCHANGED <<chat, kept, effect>>
  BY DEF RegistrationStep, Register, SetWebhook, Disconnect, RemoveWebhook, DeleteSecret
<1>2. \E point \in {"setWebhook", "removeWebhook", "deleteSecret", "over"} :
        BotMoved(k, point, bot[k].update, bot[k].owner)
  <2>1. CASE \E point \in {"setWebhook", "deleteSecret", "over"} : BotGoto(k, point)
    BY <1>0, <2>1, BotMoves DEF BotPoints
  <2>2. CASE Disconnect(k)
    BY <1>0, <2>2, DisconnectMoves
  <2>. QED BY <2>1, <2>2 DEF RegistrationStep, Register, SetWebhook, RemoveWebhook, DeleteSecret
<1>3. secret' \in Secrets /\ webhook' \in BOOLEAN
  <2>0. secret \in Secrets
    BY <1>0 DEF BotTypes
  <2>1. secret' = [NoSecret EXCEPT !.last = secret.last] => secret' \in Secrets
    BY <2>0, BotBounds DEF NoSecret, Secrets
  <2>2. \A a \in Admins : Register(k, a) => secret' \in Secrets
    BY <2>0, BotBounds DEF Register, Secrets
  <2>3. webhook' \in BOOLEAN
    BY <1>0 DEF BotTypes, RegistrationStep, Register, SetWebhook, Disconnect, RemoveWebhook,
                DeleteSecret, registrationVars
  <2>4. secret' \in Secrets
    BY <2>0, <2>1, <2>2 DEF RegistrationStep, SetWebhook, Disconnect, RemoveWebhook, DeleteSecret,
                            registrationVars
  <2>. QED BY <2>3, <2>4
<1>4. BotTypes'
  BY <1>0, <1>1, <1>2, <1>3 DEF BotTypes, BotMoved
<1>5. CallsKnow' /\ OneCallHandles'
  BY <1>1, <1>2 DEF BotInv, CallsKnow, OneCallHandles, IngestPoints, BotMoved
<1>. QED BY <1>1, <1>4, <1>5 DEF BotInv, CountIsBounded, CountedUpdates

LEMMA IngestTurns ==
  ASSUME BotInv, NEW k \in BotCalls, IngestStep(k)
  PROVE  BotInv'
<1>0. BotTypes /\ UNCHANGED registrationVars /\ secret' = secret /\ webhook' = webhook
  BY DEF BotInv, IngestStep, Ingest, LookForUpdate, ReadRegistration, UpsertChat, CreateUpdate,
         CountUpdate, AnswerUpdate, IngestFails, registrationVars
<1>. DEFINE u == bot[k].update
<1>1. ASSUME UNCHANGED <<chat, kept, effect>>,
             \/ BotMoved(k, "over", u, bot[k].owner)
             \/ \E point \in {"exists", "registration", "upsert"}, x \in Updates,
                   a \in Admins \cup {NoUpdate} : BotMoved(k, point, x, a)
      PROVE  BotInv'
  <2>1. BotTypes'
    BY <1>0, <1>1 DEF BotTypes, BotMoved
  <2>2. CallsKnow'
    BY <1>1 DEF CallsKnow, BotMoved, IngestPoints, BotInv
  <2>3. OneCallHandles'
    BY <1>1 DEF OneCallHandles, BotMoved, BotInv
  <2>. QED BY <1>1, <2>1, <2>2, <2>3 DEF BotInv, CountIsBounded, CountedUpdates
<1>2. CASE \E x \in Updates : Ingest(k, x)
  <2>1. bot[k].owner \in Admins \cup {NoUpdate}
    BY <1>0 DEF BotTypes, BotRecords
  <2>. QED BY <1>0, <1>1, <1>2, <2>1, IngestMoves DEF Ingest
<1>3. CASE LookForUpdate(k) \/ IngestFails(k)
  <2>1. bot[k].at \in IngestPoints /\ bot[k].owner \in Admins \cup {NoUpdate}
    BY <1>0, <1>3 DEF LookForUpdate, IngestFails, BotTypes, BotRecords, IngestPoints
  <2>2. u \in Updates
    BY <2>1 DEF BotInv, CallsKnow
  <2>3. \E point \in {"over", "registration"} : BotGoto(k, point)
    BY <1>3 DEF LookForUpdate, IngestFails
  <2>4. \E point \in {"over", "registration"} : BotMoved(k, point, u, bot[k].owner)
    BY <1>0, <2>3, BotMoves DEF BotPoints, IngestPoints
  <2>. QED BY <1>1, <1>3, <2>1, <2>2, <2>4 DEF LookForUpdate, IngestFails
<1>4. CASE ReadRegistration(k)
  <2>1. u \in Updates /\ secret.owner \in Admins \cup {NoUpdate} /\ "upsert" \in BotPoints
    BY <1>0, <1>4 DEF BotInv, CallsKnow, ReadRegistration, IngestPoints, BotPoints, BotTypes, Secrets
  <2>2. BotMoved(k, "upsert", u, secret.owner)
    BY <1>0, <1>4, <2>1, OwnerMoves DEF ReadRegistration
  <2>. QED BY <1>1, <1>4, <2>1, <2>2 DEF ReadRegistration
<1>5. CASE UpsertChat(k)
  <2>. DEFINE owner == IF chat.known THEN chat.owner ELSE bot[k].owner
  <2>1. u \in Updates /\ owner \in Admins \cup {NoUpdate} /\ "create" \in BotPoints
    BY <1>0, <1>5 DEF BotInv, CallsKnow, UpsertChat, IngestPoints, BotPoints, BotTypes, BotRecords
  <2>2. BotMoved(k, "create", u, owner)
    BY <1>0, <1>5, <2>1, OwnerMoves DEF UpsertChat
  <2>3. chat \in [known : BOOLEAN, owner : Admins \cup {NoUpdate}, unread : Nat]
    BY <1>0 DEF BotTypes
  <2>4. chat' = [known |-> TRUE, owner |-> owner, unread |-> chat.unread]
    BY <1>5, <2>3 DEF UpsertChat
  <2>5. UNCHANGED <<kept, effect>> /\ (chat.known => chat'.owner = chat.owner)
    BY <1>5, <2>4 DEF UpsertChat
  <2>. HIDE DEF owner
  <2>6. BotTypes'
    BY <1>0, <2>1, <2>2, <2>3, <2>4, <2>5 DEF BotTypes, BotMoved
  <2>7. CallsKnow'
    BY <2>1, <2>2, <2>4, <2>5 DEF CallsKnow, BotMoved, IngestPoints, BotInv
  <2>8. OneCallHandles'
    BY <2>2, <2>4, <2>5 DEF OneCallHandles, BotMoved, BotInv
  <2>. QED BY <2>4, <2>5, <2>6, <2>7, <2>8 DEF BotInv, CountIsBounded, CountedUpdates
<1>6. CASE CreateUpdate(k)
  <2>1. u \in Updates
    BY <1>0, <1>6 DEF BotInv, CallsKnow, CreateUpdate, IngestPoints
  <2>2. CASE BotGoto(k, "over") /\ UNCHANGED kept
    BY <1>0, <1>1, <1>6, <2>2, BotMoves DEF CreateUpdate, BotPoints
  <2>3. CASE u \notin kept /\ kept' = kept \cup {u} /\ BotGoto(k, "count")
    <3>1. BotMoved(k, "count", u, bot[k].owner)
      BY <1>0, <2>3, BotMoves DEF BotPoints, IngestPoints
    <3>2. UNCHANGED <<chat, effect>>
      BY <1>6 DEF CreateUpdate
    <3>3. effect[u].counted = 0
      BY <1>0, <2>1, <2>3 DEF BotInv, OneCallHandles, BotTypes
    <3>4. BotTypes'
      BY <1>0, <2>1, <2>3, <3>1, <3>2 DEF BotTypes, BotMoved
    <3>5. CallsKnow'
      BY <1>6, <2>1, <3>1, <3>2 DEF CallsKnow, BotMoved, IngestPoints, BotInv, CreateUpdate
    <3>6. OneCallHandles'
      BY <2>3, <3>1, <3>2, <3>3 DEF OneCallHandles, BotMoved, BotInv
    <3>. QED BY <3>2, <3>4, <3>5, <3>6 DEF BotInv, CountIsBounded, CountedUpdates
  <2>. QED BY <1>6, <2>2, <2>3 DEF CreateUpdate, MayCreate
<1>7. CASE CountUpdate(k)
  <2>1. u \in Updates /\ u \in kept /\ effect[u].counted = 0 /\ chat.known
    BY <1>0, <1>7 DEF BotInv, CallsKnow, OneCallHandles, CountUpdate, IngestPoints
  <2>2. PICK point \in {"answer", "over"} : /\ BotMoved(k, point, u, bot[k].owner)
                                            /\ point = "answer" => bot[k].owner # NoUpdate
    BY <1>0, <1>7, BotMoves DEF CountUpdate, BotPoints, IngestPoints
  <2>3. chat \in [known : BOOLEAN, owner : Admins \cup {NoUpdate}, unread : Nat]
        /\ effect \in [Updates -> [counted : 0..1, answered : 0..1]]
    BY <1>0 DEF BotTypes
  <2>4. chat' = [known |-> chat.known, owner |-> chat.owner, unread |-> chat.unread + 1]
        /\ kept' = kept
    BY <1>7, <2>3 DEF CountUpdate
  <2>5. /\ effect' \in [Updates -> [counted : 0..1, answered : 0..1]]
        /\ effect'[u].counted = 1 /\ effect'[u].answered = effect[u].answered
        /\ \A x \in Updates \ {u} : effect'[x] = effect[x]
    BY <1>7, <2>1, <2>3 DEF CountUpdate
  <2>6. effect[u].answered = 0
    BY <2>1, <2>3 DEF BotInv, OneCallHandles
  <2>7. BotTypes'
    BY <1>0, <2>1, <2>2, <2>3, <2>4, <2>5 DEF BotTypes, BotMoved
  <2>8. CallsKnow'
    BY <1>7, <2>1, <2>2, <2>4 DEF CallsKnow, BotMoved, IngestPoints, BotInv, CountUpdate
  <2>9. OneCallHandles'
    BY <1>7, <2>1, <2>2, <2>3, <2>4, <2>5, <2>6 DEF OneCallHandles, BotMoved, BotInv, CountUpdate
  <2>10. CountIsBounded'
    <3>1. CountedUpdates' = CountedUpdates \cup {u} /\ u \notin CountedUpdates
      BY <2>1, <2>3, <2>5 DEF CountedUpdates
    <3>2. IsFiniteSet(CountedUpdates)
      BY UpdateAssumption, FS_Subset DEF CountedUpdates
    <3>3. Cardinality(CountedUpdates') = Cardinality(CountedUpdates) + 1
          /\ Cardinality(CountedUpdates) \in Nat
      BY <3>1, <3>2, FS_AddElement, FS_CardinalityType
    <3>. QED BY <2>3, <2>4, <3>3 DEF CountIsBounded, BotInv
  <2>. QED BY <2>7, <2>8, <2>9, <2>10 DEF BotInv
<1>8. CASE AnswerUpdate(k)
  <2>1. /\ u \in Updates /\ effect[u].counted = 1 /\ effect[u].answered = 0
        /\ chat.known /\ chat.owner # NoUpdate
    BY <1>0, <1>8 DEF BotInv, CallsKnow, OneCallHandles, AnswerUpdate, IngestPoints
  <2>2. BotMoved(k, "over", u, bot[k].owner)
    BY <1>0, <1>8, BotMoves DEF AnswerUpdate, BotPoints
  <2>3. effect \in [Updates -> [counted : 0..1, answered : 0..1]]
    BY <1>0 DEF BotTypes
  <2>4. /\ effect' \in [Updates -> [counted : 0..1, answered : 0..1]]
        /\ effect'[u].answered = 1 /\ effect'[u].counted = effect[u].counted
        /\ \A x \in Updates \ {u} : effect'[x] = effect[x]
        /\ UNCHANGED <<chat, kept>>
    BY <1>8, <2>1, <2>3 DEF AnswerUpdate
  <2>5. BotTypes'
    BY <1>0, <2>1, <2>2, <2>3, <2>4 DEF BotTypes, BotMoved
  <2>6. CallsKnow'
    BY <2>2, <2>4 DEF CallsKnow, BotMoved, IngestPoints, BotInv
  <2>7. OneCallHandles'
    BY <1>8, <2>1, <2>2, <2>3, <2>4 DEF OneCallHandles, BotMoved, BotInv, AnswerUpdate
  <2>8. CountedUpdates' = CountedUpdates
    BY <2>1, <2>3, <2>4 DEF CountedUpdates
  <2>. QED BY <2>4, <2>5, <2>6, <2>7, <2>8 DEF BotInv, CountIsBounded
<1>. QED BY <1>2, <1>3, <1>4, <1>5, <1>6, <1>7, <1>8 DEF IngestStep

LEMMA BotStep == BotInv /\ [BotNext]_botVars => BotInv'
<1>. SUFFICES ASSUME BotInv, [BotNext]_botVars PROVE BotInv'
  OBVIOUS
<1>1. ASSUME NEW k \in BotCalls, RegistrationStep(k) \/ IngestStep(k) PROVE BotInv'
  BY <1>1, RegistrationTurns, IngestTurns
<1>2. CASE ReadChat
  <2>1. chat \in [known : BOOLEAN, owner : Admins \cup {NoUpdate}, unread : Nat]
    BY DEF BotInv, BotTypes
  <2>2. chat' = [known |-> chat.known, owner |-> chat.owner, unread |-> 0]
        /\ UNCHANGED <<registrationVars, kept, bot, effect>>
    BY <1>2, <2>1 DEF ReadChat
  <2>3. Cardinality(CountedUpdates) \in Nat
    BY UpdateAssumption, FS_Subset, FS_CardinalityType DEF CountedUpdates
  <2>. QED BY <2>1, <2>2, <2>3 DEF BotInv, BotTypes, CallsKnow, OneCallHandles, CountIsBounded,
                                   CountedUpdates, registrationVars
<1>3. CASE UNCHANGED botVars
  BY <1>3 DEF botVars, registrationVars, BotInv, BotTypes, CallsKnow, OneCallHandles,
              CountIsBounded, CountedUpdates
<1>. QED BY <1>1, <1>2, <1>3 DEF BotNext

\* The count is at most the number of updates.
LEMMA BotInvImplies == BotInv => BotTypeOK /\ UpdatesAreHandledOnce
<1>. SUFFICES ASSUME BotInv PROVE BotTypeOK /\ UpdatesAreHandledOnce
  OBVIOUS
<1>1. CountedUpdates \subseteq kept /\ kept \subseteq Updates
  BY DEF BotInv, OneCallHandles, CountedUpdates, BotTypes
<1>2. IsFiniteSet(kept) /\ Cardinality(kept) <= Cardinality(Updates)
  BY <1>1, UpdateAssumption, FS_Subset
<1>3. Cardinality(CountedUpdates) <= Cardinality(kept)
  BY <1>1, <1>2, FS_Subset
<1>4. /\ Cardinality(kept) \in Nat /\ Cardinality(Updates) \in Nat
      /\ Cardinality(CountedUpdates) \in Nat
  BY <1>1, <1>2, UpdateAssumption, FS_Subset, FS_CardinalityType
<1>5. chat.unread \in 0..Cardinality(Updates) /\ chat.unread <= Cardinality(kept)
  BY <1>2, <1>3, <1>4 DEF BotInv, CountIsBounded, BotTypes
<1>6. BotTypeOK
  <2>1. effect \in [Updates -> [counted : Nat, answered : Nat]]
    BY DEF BotInv, BotTypes
  <2>2. chat \in [known : BOOLEAN, owner : Admins \cup {NoUpdate}, unread : 0..Cardinality(Updates)]
    BY <1>5 DEF BotInv, BotTypes
  <2>. QED BY <2>1, <2>2 DEF BotTypeOK, BotInv, BotTypes, BotRecords, Secrets
<1>7. \A x \in Updates :
        /\ effect[x].counted <= 1 /\ effect[x].answered <= effect[x].counted
        /\ effect[x].counted > 0 => x \in kept
        /\ effect[x].answered > 0 => chat.owner # NoUpdate
  BY DEF BotInv, BotTypes, OneCallHandles
<1>. QED BY <1>5, <1>6, <1>7 DEF UpdatesAreHandledOnce

\* An update of the bot is counted and answered once, however often Telegram
\* delivers it (telegram.service.ts:22).
THEOREM BotHandles == BotSpec => []BotInv
  BY BotStarts, BotStep, PTL DEF BotSpec

-----------------------------------------------------------------------------
(* The Zalo conversations.                                                  *)

ZaloKeys == Accounts \X ZaloMessages
TalkRecords == [thread : MaybeThread, account : MaybeAccount, unread : Nat]
EventRecords == [at : EventPoints, m : ZaloMessages, account : MaybeAccount, talk : 0..MaxTalks]
ReplyRecords == [at : ReplyPoints, talk : 0..MaxTalks, thread : MaybeThread,
                 account : MaybeAccount, via : MaybeAccount]

ZaloDocTypes ==
  /\ listener \in MaybeAccount /\ session \in MaybeAccount
  /\ talk \in [Talks -> TalkRecords] /\ talks \in 0..MaxTalks
  /\ stored \in [ZaloKeys -> 0..MaxTalks] /\ inbound \subseteq ZaloKeys
  /\ record \in [Said -> {"none", "sent", "failed", "pending"}]
  /\ origin \in [ZaloMessages -> MaybeAccount]
  /\ slipped \subseteq ZaloKeys /\ crossed \subseteq Talks
EventTypes == event \in [Deliveries -> EventRecords]
ReplyTypes == reply \in [Said -> ReplyRecords]

LEMMA ZaloTypesAre == ZaloTypeOK <=> ZaloDocTypes /\ EventTypes /\ ReplyTypes
  BY DEF ZaloTypeOK, ZaloDocTypes, EventTypes, ReplyTypes, ZaloKeys, TalkRecords, EventRecords,
         ReplyRecords

Live(t) == talk[t].thread # NoAccount

\* What a delivery knows: the message came from an account, its key is an
\* account's, and its conversation was stored once.
EventKnows(e) ==
  /\ e.at \notin {"new", "over"} => origin[e.m] # NoAccount
  /\ e.at \in {"exists", "upsert", "create", "count"} => e.account \in Accounts
  /\ e.at \in {"create", "count"} => e.talk \in 1..talks
EventsKnow == \A d \in Deliveries : EventKnows(event[d])

\* Conversations are numbered as they come, and filed under the account of
\* their thread or known to be crossed.
TalksAreFiled ==
  /\ \A t \in Talks : t > talks => talk[t] = NoTalk
  /\ \A key \in ZaloKeys : stored[key] <= talks
  /\ \A t \in Talks : Live(t) => talk[t].thread \in ThreadsOf(talk[t].account) \/ t \in crossed

\* A message that is counted or slipped is stored, and one that is being counted
\* in a conversation that exists is so by one delivery, which stored it.
CountsAreOwn ==
  /\ \A key \in inbound \cup slipped : stored[key] # 0
  /\ \A d \in Deliveries : event[d].at = "count" /\ Live(event[d].talk) =>
       stored[Key(d)] = event[d].talk /\ Key(d) \in inbound /\ Key(d) \notin slipped
  /\ \A d, e \in Deliveries :
       /\ event[d].at = "count" /\ event[e].at = "count" /\ Key(d) = Key(e)
       /\ event[d].talk = event[e].talk /\ Live(event[d].talk)
       => d = e

Counted(t) == ((Keys(t) \cap inbound) \ slipped) \ BeingCounted(t)
BadgeIsExact == \A t \in Talks : Live(t) => IsFiniteSet(Counted(t)) /\ talk[t].unread = Cardinality(Counted(t))

\* What a request to send has read, and what became of it.
ReplyKnows(r) ==
  /\ reply[r].at \notin {"new", "persist", "note", "over"} => origin[r] = NoAccount
  /\ reply[r].at = "new" => origin[r] = NoAccount
  /\ reply[r].at = "persist" => origin[r] # NoAccount
  /\ reply[r].at \in {"resolve", "remap", "deliver", "persist"} => reply[r].via \in Accounts
  /\ reply[r].at # "new" => reply[r].talk \in 1..talks /\ reply[r].thread # NoAccount
  /\ reply[r].at \in {"client", "resolve"} =>
       reply[r].thread \in ThreadsOf(reply[r].account) \/ reply[r].talk \in crossed
  /\ reply[r].at = "deliver" => reply[r].thread \in ThreadsOf(reply[r].via) \/ reply[r].talk \in crossed
  /\ reply[r].at # "over" => record[r] = "none"
  /\ origin[r] # NoAccount => reply[r].thread \in ThreadsOf(origin[r]) \/ reply[r].talk \in crossed
  /\ record[r] = "sent" => origin[r] # NoAccount
  /\ record[r] = "failed" => origin[r] = NoAccount
RepliesKnow == \A r \in Said : ReplyKnows(r)

ZaloInv ==
  /\ ZaloDocTypes /\ EventTypes /\ ReplyTypes
  /\ EventsKnow /\ TalksAreFiled /\ CountsAreOwn /\ BadgeIsExact /\ RepliesKnow

LEMMA ZaloInvImplies == ZaloInv => ZaloTypeOK /\ ZaloUnreadIsExact /\ RecordsAreTrue /\ AddresseeIsRight
  BY ZaloTypesAre DEF ZaloInv, BadgeIsExact, Live, Counted, RepliesKnow, ReplyKnows,
     ZaloUnreadIsExact, RecordsAreTrue, AddresseeIsRight

LEMMA ZaloStarts == ZaloInit => ZaloInv
<1>. SUFFICES ASSUME ZaloInit PROVE ZaloInv
  OBVIOUS
<1>. USE ZaloBounds, ZaloMessagesAssumption DEF ZaloInit
<1>1. ZaloDocTypes
  BY DEF ZaloDocTypes, NoTalk, TalkRecords, MaybeAccount, MaybeThread, ZaloKeys
<1>2. EventTypes /\ EventsKnow
  BY DEF EventTypes, EventRecords, FreshEvent, EventPoints, ZaloMessages, MaybeAccount, EventsKnow, EventKnows
<1>3. ReplyTypes /\ RepliesKnow
  BY DEF ReplyTypes, ReplyRecords, FreshReply, ReplyPoints, MaybeAccount, MaybeThread, RepliesKnow, ReplyKnows, ZaloMessages
<1>4. TalksAreFiled /\ BadgeIsExact
  BY DEF TalksAreFiled, BadgeIsExact, Live, NoTalk, ZaloKeys
<1>5. CountsAreOwn
  BY DEF CountsAreOwn, FreshEvent
<1>. QED BY <1>1, <1>2, <1>3, <1>4, <1>5 DEF ZaloInv

Over == [FreshEvent EXCEPT !.at = "over"]

\* A delivery goes on, and the others stay where they are.
EventMoved(d) ==
  event' \in [Deliveries -> EventRecords] /\ \A x \in Deliveries \ {d} : event'[x] = event[x]

LEMMA EventMoves ==
  ASSUME EventTypes, NEW d \in Deliveries
  PROVE  /\ \A point \in EventPoints : EventGoto(d, point) =>
              /\ EventMoved(d) /\ event'[d].at = point /\ event'[d].m = event[d].m
              /\ event'[d].account = event[d].account /\ event'[d].talk = event[d].talk
         /\ EventEnds(d) => EventMoved(d) /\ event'[d].at = "over"
<1>1. event \in [Deliveries -> EventRecords]
  BY DEF EventTypes
<1>2. ASSUME NEW point \in EventPoints, EventGoto(d, point)
      PROVE  /\ EventMoved(d) /\ event'[d].at = point /\ event'[d].m = event[d].m
             /\ event'[d].account = event[d].account /\ event'[d].talk = event[d].talk
  <2>1. event'[d].at = point /\ event'[d].m = event[d].m
        /\ event'[d].account = event[d].account /\ event'[d].talk = event[d].talk
    BY <1>1, <1>2 DEF EventGoto, EventRecords
  <2>2. event' \in [Deliveries -> EventRecords]
    BY <1>1, <1>2 DEF EventGoto, EventRecords
  <2>3. \A x \in Deliveries \ {d} : event'[x] = event[x]
    BY <1>1, <1>2 DEF EventGoto
  <2>. QED BY <2>1, <2>2, <2>3 DEF EventMoved
<1>3. ASSUME EventEnds(d) PROVE EventMoved(d) /\ event'[d].at = "over"
  <2>1. FreshEvent.m \in Heard
    BY ZaloMessagesAssumption DEF FreshEvent
  <2>. DEFINE first == CHOOSE m \in Heard : TRUE
  <2>0. FreshEvent = [at |-> "new", m |-> first, account |-> NoAccount, talk |-> 0]
    BY DEF FreshEvent
  <2>. HIDE DEF first
  <2>2. Over = [at |-> "over", m |-> FreshEvent.m, account |-> NoAccount, talk |-> 0]
    BY <2>0 DEF Over
  <2>3. Over \in EventRecords
    BY <2>1, <2>2, ZaloBounds DEF EventRecords, EventPoints, MaybeAccount, ZaloMessages
  <2>4. event' = [event EXCEPT ![d] = Over]
    BY <1>3 DEF EventEnds, Over
  <2>. QED BY <1>1, <2>2, <2>3, <2>4 DEF EventMoved
<1>. QED BY <1>2, <1>3

\* Which keys are counted, in either state.
LEMMA CountedIs ==
  \A t : \A key : key \in Counted(t) <=>
    /\ key \in ZaloKeys /\ stored[key] = t /\ key \in inbound /\ key \notin slipped
    /\ \A d \in Deliveries : event[d].at = "count" /\ event[d].talk = t => Key(d) # key
  BY DEF Counted, Keys, BeingCounted, ZaloKeys

\* What a step keeps of the conversations that exist after it.
TalksKeep ==
  \A t \in Talks : Live(t)' =>
    \/ Live(t) /\ talk'[t].unread = talk[t].unread
    \/ t > talks /\ talk'[t].unread = 0

CountingKeeps ==
  \A d \in Deliveries : event'[d].at = "count" \/ event[d].at = "count" =>
    event'[d].at = event[d].at /\ event'[d].m = event[d].m /\ event'[d].account = event[d].account
    /\ event'[d].talk = event[d].talk

StoredKeeps ==
  /\ inbound' = inbound /\ slipped' = slipped
  /\ \A key \in ZaloKeys : stored[key] # 0 => stored'[key] = stored[key]

LEMMA CountsKeep ==
  ASSUME ZaloInv, TalksKeep, CountingKeeps, StoredKeeps
  PROVE  CountsAreOwn' /\ BadgeIsExact'
<1>. USE DEF ZaloInv
<1>0. \A d \in Deliveries : event[d].at = "count" => Key(d) \in ZaloKeys /\ event[d].talk \in Talks
                            /\ event[d].talk <= talks
  BY ZaloBounds DEF EventTypes, EventRecords, EventsKnow, EventKnows, Key, ZaloKeys, ZaloDocTypes, Talks
<1>1. \A d \in Deliveries : event'[d].at = "count" =>
        event[d].at = "count" /\ event'[d].talk = event[d].talk /\ Key(d)' = Key(d)
  BY DEF CountingKeeps, Key
<1>1a. \A d \in Deliveries : event[d].at = "count" =>
        event'[d].at = "count" /\ event'[d].talk = event[d].talk /\ Key(d)' = Key(d)
  BY DEF CountingKeeps, Key
<1>2. \A d \in Deliveries : event'[d].at = "count" /\ Live(event[d].talk)' => Live(event[d].talk)
  BY <1>0, <1>1, ZaloBounds DEF TalksKeep, ZaloDocTypes, Talks
<1>3. \A key \in ZaloKeys : stored[key] # 0 => stored'[key] = stored[key]
  BY DEF StoredKeeps
<1>4. CountsAreOwn'
  <2>1. \A key \in (inbound \cup slipped)' : stored'[key] # 0
    BY <1>3 DEF StoredKeeps, CountsAreOwn, ZaloDocTypes
  <2>2. \A d \in Deliveries : event'[d].at = "count" /\ Live(event[d].talk)' =>
          stored'[Key(d)'] = event'[d].talk /\ Key(d)' \in inbound' /\ Key(d)' \notin slipped'
    BY <1>0, <1>1, <1>2, <1>3 DEF StoredKeeps, CountsAreOwn, Talks
  <2>3. \A d, e \in Deliveries :
       /\ event'[d].at = "count" /\ event'[e].at = "count" /\ Key(d)' = Key(e)'
       /\ event'[d].talk = event'[e].talk /\ Live(event[d].talk)'
       => d = e
    BY <1>1, <1>2 DEF CountsAreOwn
  <2>. QED BY <2>1, <2>2, <2>3 DEF CountsAreOwn
<1>5. ASSUME NEW t \in Talks, Live(t)' PROVE Counted(t)' = Counted(t)
  <2>1. \A key : key \in Counted(t) <=>
    /\ key \in ZaloKeys /\ stored[key] = t /\ key \in inbound /\ key \notin slipped
    /\ \A d \in Deliveries : event[d].at = "count" /\ event[d].talk = t => Key(d) # key
    BY CountedIs
  <2>2. \A key : key \in Counted(t)' <=>
    /\ key \in ZaloKeys /\ stored'[key] = t /\ key \in inbound' /\ key \notin slipped'
    /\ \A d \in Deliveries : event'[d].at = "count" /\ event'[d].talk = t => Key(d)' # key
    BY DEF Counted, Keys, BeingCounted, ZaloKeys
  <2>3. \A key \in inbound : stored'[key] = stored[key]
    BY <1>3 DEF CountsAreOwn, ZaloDocTypes
  <2>4. \A key : key \in Counted(t)' <=> key \in Counted(t)
    BY <2>1, <2>2, <2>3, <1>1, <1>1a DEF StoredKeeps
  <2>. QED BY <2>4
<1>6. BadgeIsExact'
  <2>. SUFFICES ASSUME NEW t \in Talks, Live(t)'
                PROVE  IsFiniteSet(Counted(t)') /\ talk'[t].unread = Cardinality(Counted(t)')
    BY DEF BadgeIsExact
  <2>1. CASE Live(t) /\ talk'[t].unread = talk[t].unread
    BY <1>5, <2>1 DEF BadgeIsExact
  <2>2. CASE t > talks /\ talk'[t].unread = 0
    <3>1. Counted(t) = {}
      BY <2>2, CountedIs, ZaloBounds DEF TalksAreFiled, Talks, ZaloDocTypes
    <3>. QED BY <1>5, <2>2, <3>1, FS_EmptySet
  <2>. QED BY <2>1, <2>2 DEF TalksKeep
<1>. QED BY <1>4, <1>6

\* The session changes nothing that the conversations say.
LEMMA SessionTurns ==
  ASSUME ZaloInv, SessionUnchanged, listener' \in MaybeAccount, session' \in MaybeAccount
  PROVE  ZaloInv'
<1>. USE DEF ZaloInv, SessionUnchanged, zaloDocs, zaloHistory
<1>1. ZaloDocTypes' /\ EventTypes' /\ ReplyTypes'
  BY DEF ZaloDocTypes, EventTypes, ReplyTypes
<1>2. EventsKnow' /\ TalksAreFiled' /\ RepliesKnow'
  BY DEF EventsKnow, EventKnows, TalksAreFiled, Live, RepliesKnow, ReplyKnows
<1>3. CountsAreOwn' /\ BadgeIsExact'
  BY DEF CountsAreOwn, BadgeIsExact, Live, Key, Counted, Keys, BeingCounted
<1>. QED BY <1>1, <1>2, <1>3

\* A message keeps the account it has got, and a request of staff gets none
\* from the listener.
OriginGrows ==
  /\ origin' \in [ZaloMessages -> MaybeAccount]
  /\ \A m \in ZaloMessages : origin[m] # NoAccount => origin'[m] # NoAccount
  /\ \A r \in Said : origin'[r] = origin[r]

\* A delivery that is not at the count goes on.
LEMMA DeliveryGoes ==
  ASSUME ZaloInv, NEW d \in Deliveries, EventMoved(d), event[d].at # "count", event'[d].at # "count",
         EventKnows(event[d])', ListenerUnchanged, OriginGrows, UNCHANGED <<zaloDocs, slipped, crossed>>
  PROVE  ZaloInv'
<1>. USE DEF ZaloInv, ListenerUnchanged, zaloDocs
<1>1. ZaloDocTypes' /\ EventTypes' /\ ReplyTypes'
  BY DEF ZaloDocTypes, EventTypes, ReplyTypes, OriginGrows, EventMoved
<1>2. EventsKnow'
  BY DEF EventsKnow, EventKnows, EventMoved, OriginGrows, EventTypes, EventRecords
<1>3. TalksAreFiled' /\ RepliesKnow'
  BY DEF TalksAreFiled, Live, RepliesKnow, ReplyKnows, OriginGrows
<1>4. CountingKeeps
  BY DEF CountingKeeps, EventMoved
<1>5. TalksKeep
  BY DEF TalksKeep, Live
<1>6. StoredKeeps
  <2>1. stored' = stored /\ inbound' = inbound /\ slipped' = slipped
    OBVIOUS
  <2>. QED BY ONLY <2>1 DEF StoredKeeps
<1>. QED BY <1>1, <1>2, <1>3, <1>4, <1>5, <1>6, CountsKeep

LEMMA ListenerTurns ==
  ASSUME ZaloInv, NEW d \in Deliveries,
         HandOver(d) \/ Attach(d) \/ ReadSession(d) \/ SkipReplay(d)
  PROVE  ZaloInv'
<1>0. event \in [Deliveries -> EventRecords] /\ event[d] \in EventRecords /\ EventKnows(event[d])
  BY DEF ZaloInv, EventTypes, EventsKnow
<1>00. origin \in [ZaloMessages -> MaybeAccount] /\ listener \in MaybeAccount /\ session \in MaybeAccount
  BY DEF ZaloInv, ZaloDocTypes
<1>a. UNCHANGED origin => OriginGrows
  BY <1>00 DEF OriginGrows, ZaloMessages
<1>b. ASSUME EventEnds(d), event[d].at # "count", ListenerUnchanged,
             UNCHANGED <<zaloDocs, zaloHistory>>
      PROVE  ZaloInv'
  <2>1. EventMoved(d) /\ event'[d].at = "over"
    BY <1>b, EventMoves DEF ZaloInv
  <2>2. EventKnows(event[d])'
    BY <2>1 DEF EventKnows
  <2>. QED BY <1>a, <1>b, <2>1, <2>2, DeliveryGoes DEF zaloHistory
<1>1. CASE HandOver(d)
  <2>. USE <1>1 DEF HandOver
  <2>1. PICK m \in ZaloMessages :
       /\ (m \in Heard /\ origin[m] = NoAccount) \/ origin[m] = listener
       /\ origin' = [origin EXCEPT ![m] = listener]
       /\ event' = [event EXCEPT ![d].at = "attach", ![d].m = m]
    OBVIOUS
  <2>. DEFINE e == [at |-> "attach", m |-> m, account |-> event[d].account, talk |-> event[d].talk]
  <2>2. e \in EventRecords
    BY <1>0 DEF EventRecords, EventPoints
  <2>3. event' = [event EXCEPT ![d] = e]
    BY <2>1, <1>0 DEF EventRecords
  <2>4. EventMoved(d) /\ event'[d].at = "attach" /\ event'[d].m = m
    BY <2>2, <2>3, <1>0 DEF EventMoved
  <2>5. OriginGrows
    BY <2>1, <1>00, ZaloMessagesAssumption DEF OriginGrows, ZaloMessages
  <2>6. EventKnows(event[d])'
    BY <2>1, <1>00, <2>4 DEF EventKnows
  <2>. QED BY <2>4, <2>5, <2>6, DeliveryGoes
<1>2. CASE Attach(d)
  <2>. USE <1>2 DEF Attach
  <2>1. ASSUME EventGoto(d, "ingest") PROVE ZaloInv'
    <3>1. EventMoved(d) /\ event'[d].at = "ingest" /\ event'[d].m = event[d].m
      BY <2>1, EventMoves DEF ZaloInv, EventPoints
    <3>2. EventKnows(event[d])'
      BY <1>0, <3>1 DEF EventKnows, zaloHistory
    <3>. QED BY <3>1, <3>2, <1>a, DeliveryGoes DEF zaloHistory
  <2>. QED BY <1>b, <2>1
<1>3. CASE ReadSession(d)
  <2>. USE <1>3 DEF ReadSession
  <2>1. CASE session = NoAccount
    BY <2>1, <1>b
  <2>2. CASE session # NoAccount
    <3>. DEFINE e == [at |-> "exists", m |-> event[d].m, account |-> session, talk |-> event[d].talk]
    <3>2. e \in EventRecords
      BY <1>0, <1>00 DEF EventRecords, EventPoints
    <3>3. event' = [event EXCEPT ![d] = e]
      BY <2>2, <1>0 DEF EventRecords
    <3>4. EventMoved(d) /\ event'[d].at = "exists" /\ event'[d].m = event[d].m /\ event'[d].account = session
      BY <3>2, <3>3, <1>0 DEF EventMoved
    <3>6. EventKnows(event[d])'
      BY <1>0, <1>00, <2>2, <3>4 DEF EventKnows, zaloHistory, MaybeAccount
    <3>. QED BY <3>4, <3>6, <1>a, DeliveryGoes DEF zaloHistory
  <2>. QED BY <2>1, <2>2
<1>4. CASE SkipReplay(d)
  <2>. USE <1>4 DEF SkipReplay
  <2>1. ASSUME EventGoto(d, "upsert") PROVE ZaloInv'
    <3>1. EventMoved(d) /\ event'[d].at = "upsert" /\ event'[d].m = event[d].m
          /\ event'[d].account = event[d].account
      BY <2>1, EventMoves DEF ZaloInv, EventPoints
    <3>2. EventKnows(event[d])'
      BY <1>0, <3>1 DEF EventKnows, zaloHistory
    <3>. QED BY <3>1, <3>2, <1>a, DeliveryGoes DEF zaloHistory
  <2>. QED BY <1>b, <2>1
<1>. QED BY <1>1, <1>2, <1>3, <1>4

\* The upsert: the delivery finds a conversation of the thread, or files a new one.
LEMMA UpsertTurns ==
  ASSUME ZaloInv, NEW d \in Deliveries, UpsertTalk(d)
  PROVE  ZaloInv'
<1>. USE ZaloBounds DEF ZaloInv, UpsertTalk, ListenerUnchanged
<1>. DEFINE thread == ThreadOf(event[d].m)
            account == event[d].account
<1>0. /\ event \in [Deliveries -> EventRecords] /\ event[d] \in EventRecords /\ EventKnows(event[d])
      /\ event[d].at = "upsert"
  BY DEF EventTypes, EventsKnow
<1>00. /\ talk \in [Talks -> TalkRecords] /\ talks \in 0..MaxTalks /\ stored \in [ZaloKeys -> 0..MaxTalks]
       /\ crossed \subseteq Talks
  BY DEF ZaloDocTypes
<1>01. thread \in MaybeThread /\ thread # NoAccount /\ account \in Accounts /\ account # NoAccount
  <2>1. event[d].m \in ZaloMessages /\ origin[event[d].m] \in Accounts /\ account \in Accounts
    BY <1>0 DEF EventKnows, ZaloDocTypes, EventRecords, MaybeAccount
  <2>2. CASE event[d].m \in Heard
    BY <2>1, <2>2, ZaloMessagesAssumption DEF ThreadOf, MaybeThread, MaybeAccount
  <2>3. ASSUME NEW r \in Said, r = event[d].m, r \notin Heard
        PROVE  thread \in MaybeThread /\ thread # NoAccount
    <3>1. ReplyKnows(r) /\ reply[r] \in ReplyRecords /\ thread = reply[r].thread
      BY <2>3 DEF RepliesKnow, ReplyTypes, ThreadOf
    <3>2. reply[r].at # "new"
      BY <3>1, <2>1, <2>3, ZaloMessagesAssumption DEF ReplyKnows
    <3>. QED BY <3>1, <3>2 DEF ReplyKnows, ReplyRecords
  <2>. QED BY <2>1, <2>2, <2>3, ZaloMessagesAssumption DEF ZaloMessages
<1>02. UNCHANGED <<listener, session, reply, record, stored, inbound, origin, slipped>>
  OBVIOUS
<1>. HIDE DEF thread, account
<1>a. ASSUME NEW t \in Talks, t <= talks', talks' \in {talks, talks + 1}, talks' \in 0..MaxTalks,
             talk' \in [Talks -> TalkRecords],
             event' = [event EXCEPT ![d].at = "create", ![d].talk = t],
             crossed' = IF thread \in ThreadsOf(account) THEN crossed ELSE crossed \cup {t},
             talk'[t].thread = thread, talk'[t].account = account,
             \A x \in Talks \ {t} : talk'[x] = talk[x],
             \/ Live(t) /\ talk'[t].unread = talk[t].unread /\ talks' = talks
             \/ t = talks + 1 /\ talk'[t].unread = 0 /\ talks' = talks + 1
      PROVE  ZaloInv'
  <2>. DEFINE e == [at |-> "create", m |-> event[d].m, account |-> event[d].account, talk |-> t]
  <2>1a. e \in EventRecords
    BY <1>0 DEF EventRecords, EventPoints, Talks
  <2>1b. event'[d] = e
    BY <1>a, <1>0 DEF EventRecords
  <2>1c. event' = [x \in Deliveries |-> event'[x]] /\ \A x \in Deliveries \ {d} : event'[x] = event[x]
    BY <1>a, <1>0
  <2>. HIDE DEF e
  <2>1. event' \in [Deliveries -> EventRecords]
    BY <2>1a, <2>1b, <2>1c, <1>0
  <2>2. event'[d].at = "create" /\ event'[d].m = event[d].m
        /\ event'[d].account = event[d].account /\ event'[d].talk = t
    BY <1>a, <1>0 DEF EventRecords
  <2>3. EventMoved(d) /\ event'[d].at = "create" /\ event'[d].m = event[d].m
        /\ event'[d].account = event[d].account /\ event'[d].talk = t
    BY <1>a, <2>1, <2>2, <1>0 DEF EventMoved
  <2>4. talks' >= talks /\ crossed \subseteq crossed' /\ crossed' \subseteq Talks /\ t \in 1..talks'
    BY <1>a, <1>00 DEF Talks
  <2>5. ZaloDocTypes' /\ EventTypes' /\ ReplyTypes'
    BY <1>a, <1>02, <2>3, <2>4 DEF ZaloDocTypes, EventTypes, ReplyTypes, EventMoved
  <2>6. EventsKnow'
    <3>1. EventKnows(event[d])'
      BY <1>0, <1>01, <1>02, <2>3, <2>4 DEF EventKnows, account, thread
    <3>2. ASSUME NEW x \in Deliveries \ {d} PROVE EventKnows(event[x])'
      <4>1. EventKnows(event[x]) /\ event'[x] = event[x] /\ event[x] \in EventRecords
        BY <2>3, <1>0 DEF EventsKnow, EventMoved
      <4>. QED BY <4>1, <1>02, <2>4, <1>a, <1>00 DEF EventKnows, EventRecords
    <3>. QED BY <3>1, <3>2 DEF EventsKnow
  <2>7. TalksAreFiled'
    <3>1. \A x \in Talks : x > talks' => talk'[x] = NoTalk
      BY <1>a, <1>00, <2>4 DEF TalksAreFiled, Talks
    <3>2. \A key \in ZaloKeys : stored'[key] <= talks'
      BY <1>02, <2>4, <1>a, <1>00 DEF TalksAreFiled
    <3>3. ASSUME NEW x \in Talks, Live(x)' PROVE talk'[x].thread \in ThreadsOf(talk'[x].account) \/ x \in crossed'
      <4>1. CASE x = t
        BY <1>a, <4>1
      <4>2. CASE x # t
        BY <1>a, <4>2, <3>3, <2>4 DEF TalksAreFiled, Live
      <4>. QED BY <4>1, <4>2
    <3>. QED BY <3>1, <3>2, <3>3 DEF TalksAreFiled
  <2>8. RepliesKnow'
    <3>. SUFFICES ASSUME NEW r \in Said PROVE ReplyKnows(r)'
      BY DEF RepliesKnow
    <3>1. ReplyKnows(r) /\ reply[r] \in ReplyRecords
      BY DEF RepliesKnow, ReplyTypes
    <3>2. reply'[r] = reply[r] /\ origin'[r] = origin[r] /\ record'[r] = record[r]
      BY <1>02
    <3>. QED BY <3>1, <3>2, <2>4, <1>a, <1>00 DEF ReplyKnows, ReplyRecords
  <2>9. TalksKeep
    BY <1>a, <1>00 DEF TalksKeep, Live
  <2>10. CountingKeeps
    BY <2>3, <1>0 DEF CountingKeeps, EventMoved
  <2>11. StoredKeeps
    BY ONLY <1>02 DEF StoredKeeps
  <2>. QED BY <2>5, <2>6, <2>7, <2>8, <2>9, <2>10, <2>11, CountsKeep
<1>1. CASE EventEnds(d) /\ UNCHANGED <<talk, talks, crossed>>
  <2>1. EventMoved(d) /\ event'[d].at = "over"
    BY <1>1, EventMoves
  <2>2. EventKnows(event[d])'
    BY <2>1 DEF EventKnows
  <2>3. OriginGrows
    BY <1>02 DEF OriginGrows, ZaloDocTypes, ZaloMessages
  <2>. QED BY <1>0, <1>1, <1>02, <2>1, <2>2, <2>3, DeliveryGoes DEF zaloDocs
<1>2. CASE /\ TalkOf(thread) = {} /\ talks < MaxTalks /\ talks' = talks + 1
           /\ talk' = [talk EXCEPT ![talks'] = [thread |-> thread, account |-> account, unread |-> 0]]
           /\ event' = [event EXCEPT ![d].at = "create", ![d].talk = talks']
           /\ crossed' = IF thread \in ThreadsOf(account) THEN crossed ELSE crossed \cup {talks'}
  <2>. DEFINE t == talks + 1
              new == [thread |-> thread, account |-> account, unread |-> 0]
  <2>1. t \in Talks /\ t = talks' /\ new \in TalkRecords
    BY <1>2, <1>00, <1>01 DEF Talks, TalkRecords, MaybeAccount
  <2>2. talk' = [talk EXCEPT ![t] = new]
    BY <1>2
  <2>3. new.thread = thread /\ new.account = account /\ new.unread = 0
    OBVIOUS
  <2>. HIDE DEF new
  <2>4. talk' \in [Talks -> TalkRecords] /\ talk'[t] = new /\ \A x \in Talks \ {t} : talk'[x] = talk[x]
    BY <2>1, <2>2, <1>00
  <2>5. talks' \in 0..MaxTalks /\ talks' = talks + 1
    BY <1>2, <1>00
  <2>6. event' = [event EXCEPT ![d].at = "create", ![d].talk = t]
        /\ crossed' = IF thread \in ThreadsOf(account) THEN crossed ELSE crossed \cup {t}
    BY <1>2
  <2>7. t = talks + 1 /\ t <= talks'
    BY <2>5, <1>00
  <2>. HIDE DEF t
  <2>. QED BY <1>a, <2>1, <2>3, <2>4, <2>5, <2>6, <2>7
<1>3. ASSUME NEW t \in TalkOf(thread), UNCHANGED talks,
             event' = [event EXCEPT ![d].at = "create", ![d].talk = t],
             crossed' = IF thread \in ThreadsOf(account) THEN crossed ELSE crossed \cup {t},
             talk' = [talk EXCEPT ![t].account = account]
      PROVE  ZaloInv'
  <2>1. t \in Talks /\ talk[t].thread = thread /\ talk[t] \in TalkRecords
    BY <1>3, <1>00 DEF TalkOf
  <2>2. Live(t) /\ t <= talks
    BY <2>1, <1>01, <1>00 DEF Live, TalksAreFiled, NoTalk, Talks
  <2>. DEFINE new == [thread |-> talk[t].thread, account |-> account, unread |-> talk[t].unread]
  <2>3. new \in TalkRecords /\ new.thread = thread /\ new.account = account /\ new.unread = talk[t].unread
    BY <2>1, <1>01 DEF TalkRecords, MaybeAccount
  <2>4. talk' = [talk EXCEPT ![t] = new]
    BY <1>3, <2>1, <1>00 DEF TalkRecords
  <2>. HIDE DEF new
  <2>5. talk' \in [Talks -> TalkRecords] /\ talk'[t] = new /\ \A x \in Talks \ {t} : talk'[x] = talk[x]
    BY <2>1, <2>3, <2>4, <1>00
  <2>. QED BY <1>a, <1>3, <1>00, <2>1, <2>2, <2>3, <2>5
<1>. QED BY <1>1, <1>2, <1>3 DEF thread, account

\* What is kept of everything but the counts when a delivery at the create or at
\* the count goes on.
LEMMA RestStays ==
  ASSUME ZaloInv, NEW d \in Deliveries, EventMoved(d), EventKnows(event[d])', ListenerUnchanged,
         UNCHANGED <<talks, origin, crossed>>, talk' \in [Talks -> TalkRecords],
         \A t \in Talks : talk'[t].thread = talk[t].thread /\ talk'[t].account = talk[t].account,
         \A t \in Talks : t > talks => talk'[t] = talk[t],
         stored' \in [ZaloKeys -> 0..MaxTalks], \A key \in ZaloKeys : stored'[key] <= talks,
         inbound' \subseteq ZaloKeys, slipped' \subseteq ZaloKeys, CountsAreOwn', BadgeIsExact'
  PROVE  ZaloInv'
<1>. USE DEF ZaloInv, ListenerUnchanged
<1>1. ZaloDocTypes' /\ EventTypes' /\ ReplyTypes'
  BY DEF ZaloDocTypes, EventTypes, ReplyTypes, EventMoved
<1>2. EventsKnow'
  BY DEF EventsKnow, EventKnows, EventMoved
<1>3. TalksAreFiled'
  BY DEF TalksAreFiled, Live
<1>4. RepliesKnow'
  BY DEF RepliesKnow, ReplyKnows
<1>. QED BY <1>1, <1>2, <1>3, <1>4

LEMMA CreateTurns ==
  ASSUME ZaloInv, NEW d \in Deliveries, CreateMessage(d)
  PROVE  ZaloInv'
<1>. USE ZaloBounds DEF ZaloInv, CreateMessage, ListenerUnchanged
<1>0. /\ event \in [Deliveries -> EventRecords] /\ event[d] \in EventRecords /\ EventKnows(event[d])
      /\ event[d].at = "create"
  BY DEF EventTypes, EventsKnow
<1>00. UNCHANGED <<listener, session, reply, record, talk, talks, origin, slipped, crossed>>
  BY DEF zaloHistory
<1>1. CASE EventEnds(d) /\ UNCHANGED <<stored, inbound>>
  <2>1. EventMoved(d) /\ event'[d].at = "over"
    BY <1>1, EventMoves
  <2>2. EventKnows(event[d])'
    BY <2>1 DEF EventKnows
  <2>3. OriginGrows
    BY <1>00 DEF OriginGrows, ZaloDocTypes, ZaloMessages
  <2>. QED BY <1>0, <1>1, <1>00, <2>1, <2>2, <2>3, DeliveryGoes DEF zaloDocs
<1>2. CASE /\ stored[Key(d)] = 0 /\ stored' = [stored EXCEPT ![Key(d)] = event[d].talk]
           /\ inbound' = inbound \cup {Key(d)} /\ EventGoto(d, "count")
  <2>. DEFINE k == Key(d)
              t0 == event[d].talk
  <2>1. EventMoved(d) /\ event'[d].at = "count" /\ event'[d].m = event[d].m
        /\ event'[d].account = event[d].account /\ event'[d].talk = event[d].talk
    BY <1>2, EventMoves DEF EventPoints
  <2>2. EventKnows(event[d])'
    BY <1>0, <1>00, <2>1 DEF EventKnows
  <2>3. k \in ZaloKeys /\ t0 \in 1..talks /\ t0 \in Talks /\ t0 # 0 /\ stored[k] = 0
    BY <1>0, <1>2 DEF EventKnows, EventRecords, Key, ZaloKeys, ZaloDocTypes, Talks
  <2>4. stored' \in [ZaloKeys -> 0..MaxTalks] /\ stored'[k] = t0 /\ \A x \in ZaloKeys \ {k} : stored'[x] = stored[x]
    BY <2>3, <1>2 DEF ZaloDocTypes, Talks
  <2>5. \A key \in ZaloKeys : stored'[key] <= talks
    BY <2>3, <2>4, <1>00 DEF TalksAreFiled, ZaloDocTypes
  <2>6. Key(d)' = k /\ \A x \in Deliveries \ {d} : Key(x)' = Key(x) /\ event'[x] = event[x]
    BY <2>1 DEF Key, EventMoved
  <2>7. k \notin inbound /\ k \notin slipped /\ inbound' = inbound \cup {k} /\ slipped' = slipped
    BY <2>3, <1>00, <1>2 DEF CountsAreOwn
  <2>8. \A t : Live(t)' <=> Live(t)
    BY <1>00 DEF Live
  <2>9. \A x \in Deliveries : event[x].at = "count" /\ Live(event[x].talk) => Key(x) # k
    BY <2>3 DEF CountsAreOwn
  <2>9a. \A x \in Deliveries : event[x].at = "count" => Key(x) \in ZaloKeys
    BY <1>0 DEF EventsKnow, EventKnows, EventRecords, Key, ZaloKeys
  <2>. HIDE DEF k, t0
  <2>9b. event'[d].talk = t0 /\ event[d].at # "count"
    BY <2>1, <1>0 DEF t0
  <2>10. CountsAreOwn'
    <3>1. \A key \in (inbound \cup slipped)' : stored'[key] # 0
      BY <2>3, <2>4, <2>7 DEF CountsAreOwn, ZaloDocTypes
    <3>2. ASSUME NEW x \in Deliveries, event'[x].at = "count", Live(event[x].talk)'
          PROVE  stored'[Key(x)'] = event'[x].talk /\ Key(x)' \in inbound' /\ Key(x)' \notin slipped'
      <4>1. CASE x = d
        BY <4>1, <2>4, <2>6, <2>7, <2>9b
      <4>2. CASE x # d
        <5>1. event'[x] = event[x] /\ Key(x)' = Key(x)
          BY <4>2, <2>6
        <5>2. event[x].at = "count" /\ Live(event[x].talk)
          BY <5>1, <3>2, <2>8, <1>00 DEF Live
        <5>3. stored[Key(x)] = event[x].talk /\ Key(x) \in inbound /\ Key(x) \notin slipped
          BY <5>2 DEF CountsAreOwn
        <5>. QED BY <5>1, <5>2, <5>3, <2>4, <2>7, <2>9, <2>9a
      <4>. QED BY <4>1, <4>2
    <3>3. ASSUME NEW x \in Deliveries, NEW y \in Deliveries,
                 event'[x].at = "count", event'[y].at = "count", Key(x)' = Key(y)',
                 event'[x].talk = event'[y].talk, Live(event[x].talk)'
          PROVE  x = y
      <4>1. CASE x # d /\ y # d
        <5>1. event'[x] = event[x] /\ event'[y] = event[y] /\ Key(x)' = Key(x) /\ Key(y)' = Key(y)
          BY <4>1, <2>6
        <5>2. Live(event[x].talk)
          BY <5>1, <3>3, <2>8, <1>00 DEF Live
        <5>. QED BY <3>3, <5>1, <5>2 DEF CountsAreOwn
      <4>2. CASE x = d /\ y # d
        <5>1. event'[y] = event[y] /\ Key(y)' = Key(y) /\ Key(d)' = k
          BY <4>2, <2>6
        <5>2. Live(event[y].talk)
          BY <5>1, <3>3, <1>00 DEF Live
        <5>. QED BY <3>3, <4>2, <5>1, <5>2, <2>9
      <4>3. CASE y = d /\ x # d
        <5>1. event'[x] = event[x] /\ Key(x)' = Key(x) /\ Key(d)' = k
          BY <4>3, <2>6
        <5>2. Live(event[x].talk)
          BY <5>1, <3>3, <1>00 DEF Live
        <5>. QED BY <3>3, <4>3, <5>1, <5>2, <2>9
      <4>. QED BY <4>1, <4>2, <4>3
    <3>. QED BY <3>1, <3>2, <3>3 DEF CountsAreOwn
  <2>11. ASSUME NEW t \in Talks, Live(t) PROVE Counted(t)' = Counted(t)
    <3>1. \A key : key \in Counted(t) <=>
      /\ key \in ZaloKeys /\ stored[key] = t /\ key \in inbound /\ key \notin slipped
      /\ \A x \in Deliveries : event[x].at = "count" /\ event[x].talk = t => Key(x) # key
      BY CountedIs
    <3>2. \A key : key \in Counted(t)' <=>
      /\ key \in ZaloKeys /\ stored'[key] = t /\ key \in inbound' /\ key \notin slipped'
      /\ \A x \in Deliveries : event'[x].at = "count" /\ event'[x].talk = t => Key(x)' # key
      BY DEF Counted, Keys, BeingCounted, ZaloKeys
    <3>3. k \notin Counted(t) /\ k \notin Counted(t)'
      BY <3>1, <3>2, <2>1, <2>4, <2>6, <2>7, <2>9b
    <3>4. \A key : key # k => (key \in Counted(t)' <=> key \in Counted(t))
      BY <3>1, <3>2, <2>4, <2>6, <2>7, <2>9b
    <3>. QED BY <3>3, <3>4
  <2>12. BadgeIsExact'
    BY <2>8, <2>11, <1>00 DEF BadgeIsExact
  <2>13. inbound' \subseteq ZaloKeys /\ slipped' \subseteq ZaloKeys
    BY <2>3, <2>7 DEF ZaloDocTypes
  <2>14. talk' \in [Talks -> TalkRecords]
    BY <1>00 DEF ZaloDocTypes
  <2>. QED BY <2>1, <2>2, <2>4, <2>5, <2>10, <2>12, <2>13, <2>14, <1>00, RestStays
<1>. QED BY <1>1, <1>2

\* The count: the badge gains the message that was being counted, or the message
\* has slipped.
LEMMA CountTurns ==
  ASSUME ZaloInv, NEW d \in Deliveries, CountMessage(d)
  PROVE  ZaloInv'
<1>. USE ZaloBounds DEF ZaloInv
<1>0. /\ event \in [Deliveries -> EventRecords] /\ event[d] \in EventRecords /\ EventKnows(event[d])
      /\ event[d].at = "count"
  BY DEF EventTypes, EventsKnow, CountMessage
<1>3a. /\ Key(d) \in ZaloKeys /\ event[d].talk \in 1..talks /\ event[d].talk \in Talks
       /\ event[d].talk # 0 /\ talk[event[d].talk] \in TalkRecords
  BY <1>0 DEF EventKnows, EventRecords, Key, ZaloKeys, ZaloDocTypes, Talks
<1>3b. PICK t0 \in Talks : t0 = event[d].talk
  BY <1>3a
<1>3c. PICK k \in ZaloKeys : k = Key(d)
  BY <1>3a
<1>3. k \in ZaloKeys /\ t0 \in 1..talks /\ t0 \in Talks /\ t0 # 0 /\ talk[t0] \in TalkRecords
  BY <1>3a, <1>3b, <1>3c
<1>8. event[d].talk = t0 /\ Key(d) = k
  BY <1>3b, <1>3c
<1>00. UNCHANGED <<listener, session, reply, record, talks, stored, inbound, origin, crossed>>
  BY DEF CountMessage, ListenerUnchanged
<1>01. EventEnds(d)
  BY DEF CountMessage
<1>02. \/ /\ Live(t0) /\ talk' = [talk EXCEPT ![t0].unread = talk[t0].unread + 1] /\ slipped' = slipped
       \/ /\ talk' = talk
          /\ slipped' = IF stored[k] = t0 THEN slipped \cup {k} ELSE slipped
  BY <1>8 DEF CountMessage, Live
<1>1. EventMoved(d) /\ event'[d].at = "over"
  BY <1>01, EventMoves
<1>2. EventKnows(event[d])'
  BY <1>1 DEF EventKnows
<1>4. \A x \in Deliveries \ {d} : Key(x)' = Key(x) /\ event'[x] = event[x]
  BY <1>1 DEF Key, EventMoved
<1>5. /\ talk' \in [Talks -> TalkRecords]
      /\ \A t \in Talks : talk'[t].thread = talk[t].thread /\ talk'[t].account = talk[t].account
      /\ \A t \in Talks \ {t0} : talk'[t] = talk[t]
  <2>1. CASE talk' = talk
    BY <2>1 DEF ZaloDocTypes
  <2>2. CASE talk' = [talk EXCEPT ![t0].unread = talk[t0].unread + 1]
    <3>. DEFINE new == [thread |-> talk[t0].thread, account |-> talk[t0].account, unread |-> talk[t0].unread + 1]
    <3>1. new \in TalkRecords
      BY <1>3 DEF TalkRecords
    <3>2. talk'[t0] = new /\ talk' = [t \in Talks |-> talk'[t]] /\ \A t \in Talks \ {t0} : talk'[t] = talk[t]
      BY <2>2, <1>3 DEF TalkRecords, ZaloDocTypes
    <3>3. new.thread = talk[t0].thread /\ new.account = talk[t0].account
      OBVIOUS
    <3>. HIDE DEF new
    <3>. QED BY <3>1, <3>2, <3>3, <1>3 DEF ZaloDocTypes
  <2>. QED BY <2>1, <2>2, <1>02
<1>6. \A t \in Talks : Live(t)' <=> Live(t)
  BY <1>5 DEF Live
<1>7. \A x \in Deliveries : event[x].at = "count" => Key(x) \in ZaloKeys /\ event[x].talk \in Talks
  BY <1>0 DEF EventsKnow, EventKnows, EventRecords, Key, ZaloKeys, ZaloDocTypes, Talks
<1>9. Live(t0) => /\ stored[k] = t0 /\ k \in inbound /\ k \notin slipped
                  /\ \A x \in Deliveries \ {d} : event[x].at = "count" /\ event[x].talk = t0 => Key(x) # k
  BY <1>0, <1>8 DEF CountsAreOwn
<1>9a. \A t \in Talks \ {t0} : talk'[t] = talk[t]
  BY <1>5
<1>10. slipped \subseteq slipped' /\ slipped' \subseteq slipped \cup {k} /\ (slipped' # slipped => stored[k] = t0)
  BY <1>02
<1>11. CountsAreOwn'
  <2>1. \A key \in (inbound \cup slipped)' : stored'[key] # 0
    BY <1>00, <1>10, <1>3 DEF CountsAreOwn
  <2>2. ASSUME NEW x \in Deliveries, event'[x].at = "count", Live(event[x].talk)'
        PROVE  /\ x # d /\ event'[x] = event[x] /\ Key(x)' = Key(x) /\ event[x].at = "count"
               /\ Live(event[x].talk)
               /\ stored[Key(x)] = event[x].talk /\ Key(x) \in inbound /\ Key(x) \notin slipped
    <3>1. x # d /\ event'[x] = event[x] /\ Key(x)' = Key(x) /\ event[x].at = "count"
      BY <2>2, <1>1, <1>4
    <3>2. event[x].talk \in Talks
      BY <3>1, <1>7
    <3>3. Live(event[x].talk)
      BY <2>2, <3>1, <3>2, <1>5 DEF Live
    <3>. QED BY <3>1, <3>3 DEF CountsAreOwn
  <2>3. ASSUME NEW x \in Deliveries, event'[x].at = "count", Live(event[x].talk)'
        PROVE  stored'[Key(x)'] = event'[x].talk /\ Key(x)' \in inbound' /\ Key(x)' \notin slipped'
    <3>1. /\ x # d /\ event'[x] = event[x] /\ Key(x)' = Key(x) /\ event[x].at = "count"
          /\ Live(event[x].talk)
          /\ stored[Key(x)] = event[x].talk /\ Key(x) \in inbound /\ Key(x) \notin slipped
      BY <2>2, <2>3
    <3>2. Key(x) \notin slipped'
      <4>. SUFFICES ASSUME Key(x) \in slipped' PROVE FALSE
        OBVIOUS
      <4>1. Key(x) = k /\ stored[k] = t0
        BY <3>1, <1>10
      <4>2. event[x].talk = t0 /\ Live(t0)
        BY <3>1, <4>1
      <4>. QED BY <3>1, <4>1, <4>2, <1>9
    <3>. QED BY <3>1, <3>2, <1>00
  <2>4. ASSUME NEW x \in Deliveries, NEW y \in Deliveries,
               event'[x].at = "count", event'[y].at = "count", Key(x)' = Key(y)',
               event'[x].talk = event'[y].talk, Live(event[x].talk)'
        PROVE  x = y
    <3>1. x # d /\ y # d
      BY <2>4, <1>1
    <3>2. event'[x] = event[x] /\ event'[y] = event[y] /\ Key(x)' = Key(x) /\ Key(y)' = Key(y)
      BY <3>1, <1>4
    <3>3. Live(event[x].talk)
      BY <2>2, <2>4
    <3>. QED BY <2>4, <3>2, <3>3 DEF CountsAreOwn
  <2>. QED BY <2>1, <2>3, <2>4 DEF CountsAreOwn
<1>12. \A t \in Talks : \A key : key \in Counted(t) <=>
         /\ key \in ZaloKeys /\ stored[key] = t /\ key \in inbound /\ key \notin slipped
         /\ \A x \in Deliveries : event[x].at = "count" /\ event[x].talk = t => Key(x) # key
  BY CountedIs
<1>13. \A t \in Talks : \A key : key \in Counted(t)' <=>
         /\ key \in ZaloKeys /\ stored[key] = t /\ key \in inbound /\ key \notin slipped'
         /\ \A x \in Deliveries : event'[x].at = "count" /\ event'[x].talk = t => Key(x)' # key
  BY <1>00 DEF Counted, Keys, BeingCounted, ZaloKeys
<1>14. ASSUME NEW t \in Talks \ {t0}, Live(t) PROVE Counted(t)' = Counted(t)
  <2>1. \A key : key \in Counted(t)' <=> key \in Counted(t)
    BY <1>12, <1>13, <1>1, <1>4, <1>8, <1>10
  <2>. QED BY <2>1
<1>17. ASSUME BadgeIsExact' PROVE ZaloInv'
  <2>1. \A t \in Talks : t > talks => talk'[t] = talk[t]
    BY <1>9a, <1>3, <1>00 DEF Talks, ZaloDocTypes
  <2>2. stored' \in [ZaloKeys -> 0..MaxTalks] /\ \A key \in ZaloKeys : stored'[key] <= talks
    BY <1>00 DEF ZaloDocTypes, TalksAreFiled
  <2>3. inbound' \subseteq ZaloKeys /\ slipped' \subseteq ZaloKeys
    BY <1>00, <1>10, <1>3 DEF ZaloDocTypes
  <2>4. ListenerUnchanged
    BY <1>00 DEF ListenerUnchanged
  <2>. QED BY <1>17, <2>1, <2>2, <2>3, <2>4, <1>00, <1>1, <1>2, <1>5, <1>11, RestStays
<1>15. CASE /\ Live(t0) /\ talk' = [talk EXCEPT ![t0].unread = talk[t0].unread + 1] /\ slipped' = slipped
  <2>1. k \notin Counted(t0)
    BY <1>3, <1>12, <1>0, <1>8
  <2>2. \A key : key \in Counted(t0)' <=> key \in Counted(t0) \cup {k}
    BY <1>3, <1>12, <1>13, <1>15, <1>9, <1>1, <1>4, <1>8, <1>0
  <2>3. Counted(t0)' = Counted(t0) \cup {k}
    BY <2>2
  <2>4. IsFiniteSet(Counted(t0)) /\ talk[t0].unread = Cardinality(Counted(t0))
    BY <1>3, <1>15 DEF BadgeIsExact
  <2>. DEFINE C == Counted(t0)
  <2>5. IsFiniteSet(C) /\ k \notin C
    BY <2>1, <2>4
  <2>. HIDE DEF C
  <2>6. IsFiniteSet(C \cup {k}) /\ Cardinality(C \cup {k}) = Cardinality(C) + 1
    BY <2>5, FS_AddElement
  <2>7. talk'[t0].unread = talk[t0].unread + 1
    BY <1>15, <1>3 DEF ZaloDocTypes, TalkRecords
  <2>8. IsFiniteSet(Counted(t0)') /\ talk'[t0].unread = Cardinality(Counted(t0)')
    BY <2>3, <2>4, <2>6, <2>7 DEF C
  <2>9. \A t \in Talks \ {t0} : Live(t) => IsFiniteSet(Counted(t)') /\ talk'[t].unread = Cardinality(Counted(t)')
    BY <1>14, <1>9a DEF BadgeIsExact
  <2>10. BadgeIsExact'
    BY <2>8, <2>9, <1>6, <1>3 DEF BadgeIsExact
  <2>. QED BY <2>10, <1>17
<1>16. CASE talk' = talk /\ slipped' = IF stored[k] = t0 THEN slipped \cup {k} ELSE slipped
  <2>1. ASSUME Live(t0) PROVE Counted(t0)' = Counted(t0)
    <3>1. k \notin Counted(t0) /\ k \notin Counted(t0)'
      BY <1>3, <1>12, <1>13, <1>0, <1>8, <1>9, <1>16, <2>1
    <3>2. \A key : key # k => (key \in Counted(t0)' <=> key \in Counted(t0))
      BY <1>3, <1>12, <1>13, <1>16, <1>1, <1>4, <1>8, <1>0
    <3>. QED BY <3>1, <3>2
  <2>2. \A t \in Talks : Live(t) => Counted(t)' = Counted(t)
    BY <2>1, <1>14
  <2>3. BadgeIsExact'
    BY <2>2, <1>6, <1>16 DEF BadgeIsExact
  <2>. QED BY <2>3, <1>17
<1>. QED BY <1>02, <1>15, <1>16

\* A conversation is deleted with its messages.
LEMMA DeleteTurns ==
  ASSUME ZaloInv, NEW t0 \in Talks, DeleteTalk(t0)
  PROVE  ZaloInv'
<1>. USE ZaloBounds DEF ZaloInv
<1>1. UNCHANGED <<talks, listener, session, event, reply, record, origin, crossed>>
  BY DEF DeleteTalk
<1>2. /\ talk \in [Talks -> TalkRecords] /\ talks \in 0..MaxTalks /\ stored \in [ZaloKeys -> 0..MaxTalks]
      /\ inbound \subseteq ZaloKeys /\ slipped \subseteq ZaloKeys
  BY DEF ZaloDocTypes
<1>3. talk' \in [Talks -> TalkRecords] /\ talk'[t0] = NoTalk /\ \A t \in Talks \ {t0} : talk'[t] = talk[t]
  <2>1. NoTalk \in TalkRecords
    BY DEF NoTalk, TalkRecords, MaybeAccount, MaybeThread
  <2>. QED BY <1>2, <2>1 DEF DeleteTalk
<1>4. stored' \in [ZaloKeys -> 0..MaxTalks]
      /\ \A key \in ZaloKeys : stored'[key] = IF stored[key] = t0 THEN 0 ELSE stored[key]
  BY <1>2 DEF DeleteTalk, ZaloKeys
<1>5. \A key : /\ key \in inbound' <=> key \in inbound /\ stored[key] # t0
               /\ key \in slipped' <=> key \in slipped /\ stored[key] # t0
  BY <1>2 DEF DeleteTalk, Keys, ZaloKeys
<1>6. t0 # 0 /\ \A t \in Talks : Live(t)' <=> t # t0 /\ Live(t)
  BY <1>3 DEF Live, NoTalk, Talks
<1>7. ZaloDocTypes' /\ EventTypes' /\ ReplyTypes'
  BY <1>1, <1>2, <1>3, <1>4, <1>5 DEF ZaloDocTypes, EventTypes, ReplyTypes
<1>8. EventsKnow' /\ RepliesKnow'
  BY <1>1 DEF EventsKnow, EventKnows, RepliesKnow, ReplyKnows
<1>9. TalksAreFiled'
  <2>1. \A t \in Talks : t > talks => talk'[t] = NoTalk
    BY <1>3 DEF TalksAreFiled
  <2>2. \A key \in ZaloKeys : stored'[key] <= talks
    BY <1>4, <1>2 DEF TalksAreFiled
  <2>3. \A t \in Talks : Live(t)' => talk'[t].thread \in ThreadsOf(talk'[t].account) \/ t \in crossed
    BY <1>3, <1>6 DEF TalksAreFiled
  <2>. QED BY <1>1, <2>1, <2>2, <2>3 DEF TalksAreFiled
<1>10. \A x \in Deliveries : Key(x)' = Key(x) /\ event'[x] = event[x]
  BY <1>1 DEF Key
<1>11. \A x \in Deliveries : event[x].at = "count" => Key(x) \in ZaloKeys /\ event[x].talk \in Talks
  BY DEF EventTypes, EventsKnow, EventKnows, EventRecords, Key, ZaloKeys, ZaloDocTypes, Talks
<1>12. CountsAreOwn'
  <2>1. \A key \in (inbound \cup slipped)' : stored'[key] # 0
    BY <1>2, <1>4, <1>5, <1>6 DEF CountsAreOwn
  <2>2. ASSUME NEW x \in Deliveries, event'[x].at = "count", Live(event[x].talk)'
        PROVE  event[x].at = "count" /\ Live(event[x].talk) /\ event[x].talk # t0
    <3>1. event[x].at = "count" /\ event[x].talk \in Talks
      BY <2>2, <1>1, <1>11
    <3>2. talk'[event[x].talk].thread # NoAccount
      BY <2>2, <1>1 DEF Live
    <3>3. event[x].talk # t0
      BY <3>2, <1>3 DEF NoTalk
    <3>. QED BY <3>1, <3>2, <3>3, <1>3 DEF Live
  <2>3. ASSUME NEW x \in Deliveries, event'[x].at = "count", Live(event[x].talk)'
        PROVE  stored'[Key(x)'] = event'[x].talk /\ Key(x)' \in inbound' /\ Key(x)' \notin slipped'
    <3>1. event[x].at = "count" /\ Live(event[x].talk) /\ event[x].talk # t0
      BY <2>2, <2>3
    <3>2. stored[Key(x)] = event[x].talk /\ Key(x) \in inbound /\ Key(x) \notin slipped /\ Key(x) \in ZaloKeys
      BY <3>1, <1>11 DEF CountsAreOwn
    <3>. QED BY <3>1, <3>2, <1>4, <1>5, <1>10
  <2>4. ASSUME NEW x \in Deliveries, NEW y \in Deliveries,
               event'[x].at = "count", event'[y].at = "count", Key(x)' = Key(y)',
               event'[x].talk = event'[y].talk, Live(event[x].talk)'
        PROVE  x = y
    <3>1. Live(event[x].talk)
      BY <2>2, <2>4
    <3>. QED BY <3>1, <2>4, <1>10 DEF CountsAreOwn
  <2>. QED BY <2>1, <2>3, <2>4 DEF CountsAreOwn
<1>13. ASSUME NEW t \in Talks \ {t0} PROVE Counted(t)' = Counted(t)
  <2>1. \A key : key \in Counted(t) <=>
          /\ key \in ZaloKeys /\ stored[key] = t /\ key \in inbound /\ key \notin slipped
          /\ \A x \in Deliveries : event[x].at = "count" /\ event[x].talk = t => Key(x) # key
    BY CountedIs
  <2>2. \A key : key \in Counted(t)' <=>
          /\ key \in ZaloKeys /\ stored'[key] = t /\ key \in inbound' /\ key \notin slipped'
          /\ \A x \in Deliveries : event'[x].at = "count" /\ event'[x].talk = t => Key(x)' # key
    BY DEF Counted, Keys, BeingCounted, ZaloKeys
  <2>3. t # 0 /\ t # t0
    BY DEF Talks
  <2>4. \A key \in ZaloKeys : stored'[key] = t <=> stored[key] = t
    BY <1>4, <2>3
  <2>5. \A key : key \in Counted(t)' <=> key \in Counted(t)
    BY <2>1, <2>2, <2>3, <2>4, <1>5, <1>10
  <2>. QED BY <2>5
<1>14. BadgeIsExact'
  BY <1>13, <1>6, <1>3 DEF BadgeIsExact
<1>. QED BY <1>7, <1>8, <1>9, <1>12, <1>14

\* What a request to send may do: it goes on, the others stay, its message may
\* have got an account and its conversation may have moved to that account.
ReplyMoved(r) ==
  reply' \in [Said -> ReplyRecords] /\ \A x \in Said \ {r} : reply'[x] = reply[x]

LEMMA ReplyGoes ==
  ASSUME ZaloInv, NEW r \in Said, ReplyMoved(r), ReplyKnows(r)',
         UNCHANGED <<listener, session, event, slipped, talks, inbound, crossed>>,
         \A x \in Said \ {r} : origin'[x] = origin[x] /\ record'[x] = record[x],
         record' \in [Said -> {"none", "sent", "failed", "pending"}],
         origin' \in [ZaloMessages -> MaybeAccount],
         \A m \in ZaloMessages : origin[m] # NoAccount => origin'[m] # NoAccount,
         talk' \in [Talks -> TalkRecords], TalksAreFiled', TalksKeep,
         stored' \in [ZaloKeys -> 0..MaxTalks],
         \A key \in ZaloKeys : stored[key] # 0 => stored'[key] = stored[key]
  PROVE  ZaloInv'
<1>. USE DEF ZaloInv
<1>1. ZaloDocTypes' /\ EventTypes' /\ ReplyTypes'
  BY DEF ZaloDocTypes, EventTypes, ReplyTypes, ReplyMoved
<1>2. EventsKnow'
  BY DEF EventsKnow, EventKnows, EventTypes, EventRecords
<1>3. RepliesKnow'
  <2>. SUFFICES ASSUME NEW x \in Said \ {r} PROVE ReplyKnows(x)'
    BY DEF RepliesKnow
  <2>. QED BY DEF RepliesKnow, ReplyKnows, ReplyMoved
<1>4. CountingKeeps
  BY DEF CountingKeeps
<1>5. StoredKeeps
  BY DEF StoredKeeps
<1>. QED BY <1>1, <1>2, <1>3, <1>4, <1>5, CountsKeep

LEMMA ReplyMoves ==
  ASSUME ReplyTypes, NEW r \in Said, NEW point \in ReplyPoints, ReplyGoto(r, point)
  PROVE  /\ ReplyMoved(r) /\ reply'[r].at = point /\ reply'[r].talk = reply[r].talk
         /\ reply'[r].thread = reply[r].thread /\ reply'[r].account = reply[r].account
         /\ reply'[r].via = reply[r].via
<1>1. reply \in [Said -> ReplyRecords]
  BY DEF ReplyTypes
<1>2. reply'[r].at = point /\ reply'[r].talk = reply[r].talk
      /\ reply'[r].thread = reply[r].thread /\ reply'[r].account = reply[r].account
      /\ reply'[r].via = reply[r].via
  BY <1>1 DEF ReplyGoto, ReplyRecords
<1>3. reply' \in [Said -> ReplyRecords]
  BY <1>1 DEF ReplyGoto, ReplyRecords
<1>4. \A x \in Said \ {r} : reply'[x] = reply[x]
  BY <1>1 DEF ReplyGoto
<1>. QED BY <1>2, <1>3, <1>4 DEF ReplyMoved

\* A request goes on without writing any document of the conversations.
LEMMA ReplySaysOnly ==
  ASSUME ZaloInv, NEW r \in Said, ReplyMoved(r), ReplyKnows(r)', ReplyUnchanged, UNCHANGED <<zaloDocs, crossed>>,
         \A x \in Said \ {r} : origin'[x] = origin[x] /\ record'[x] = record[x],
         record' \in [Said -> {"none", "sent", "failed", "pending"}],
         origin' \in [ZaloMessages -> MaybeAccount],
         \A m \in ZaloMessages : origin[m] # NoAccount => origin'[m] # NoAccount
  PROVE  ZaloInv'
<1>1. UNCHANGED <<listener, session, event, slipped, talk, talks, stored, inbound, crossed>>
  BY DEF ReplyUnchanged, zaloDocs
<1>2. talk' \in [Talks -> TalkRecords] /\ stored' \in [ZaloKeys -> 0..MaxTalks]
      /\ \A key \in ZaloKeys : stored[key] # 0 => stored'[key] = stored[key]
  BY <1>1 DEF ZaloInv, ZaloDocTypes
<1>3. TalksAreFiled' /\ TalksKeep
  BY <1>1 DEF ZaloInv, TalksAreFiled, TalksKeep, Live
<1>. QED BY <1>1, <1>2, <1>3, ReplyGoes

LEMMA RequestTurns ==
  ASSUME ZaloInv, NEW r \in Said,
         AskReply(r) \/ TakeClient(r) \/ ResolveAccount(r) \/ DeliverOut(r) \/ NoteOutcome(r)
  PROVE  ZaloInv'
<1>0. /\ reply \in [Said -> ReplyRecords] /\ reply[r] \in ReplyRecords /\ ReplyKnows(r)
      /\ talk \in [Talks -> TalkRecords] /\ listener \in MaybeAccount
      /\ record \in [Said -> {"none", "sent", "failed", "pending"}]
      /\ origin \in [ZaloMessages -> MaybeAccount] /\ r \in ZaloMessages
  BY DEF ZaloInv, ReplyTypes, RepliesKnow, ZaloDocTypes, ZaloMessages
<1>00. ReplyTypes /\ ReplyUnchanged /\ UNCHANGED <<zaloDocs, crossed>>
  BY DEF ZaloInv, AskReply, TakeClient, ResolveAccount, DeliverOut, NoteOutcome
<1>a. ASSUME NEW point \in ReplyPoints, ReplyGoto(r, point), UNCHANGED <<record, origin>>,
             ReplyKnows(r)'
      PROVE  ZaloInv'
  BY <1>a, <1>0, <1>00, ReplyMoves, ReplySaysOnly
<1>1. CASE AskReply(r)
  <2>. USE <1>1 DEF AskReply
  <2>1. PICK t \in Talks :
       /\ talk[t].thread # NoAccount
       /\ reply' = [reply EXCEPT ![r] = [at |-> "client", talk |-> t, thread |-> talk[t].thread,
                                         account |-> talk[t].account, via |-> NoAccount]]
    OBVIOUS
  <2>. DEFINE e == [at |-> "client", talk |-> t, thread |-> talk[t].thread,
                    account |-> talk[t].account, via |-> NoAccount]
  <2>2. e \in ReplyRecords
    BY <1>0, ZaloBounds DEF ReplyRecords, ReplyPoints, TalkRecords, Talks, MaybeAccount
  <2>3. /\ e.at = "client" /\ e.talk = t /\ e.thread = talk[t].thread /\ e.account = talk[t].account
    OBVIOUS
  <2>. HIDE DEF e
  <2>4. ReplyMoved(r) /\ reply'[r] = e
    BY <2>1, <2>2, <1>0 DEF ReplyMoved, e
  <2>5. t \in 1..talks /\ (talk[t].thread \in ThreadsOf(talk[t].account) \/ t \in crossed)
    BY <2>1, ZaloBounds DEF ZaloInv, ZaloDocTypes, TalksAreFiled, NoTalk, Talks, Live
  <2>6. ReplyKnows(r)'
    BY <2>3, <2>4, <2>5, <1>0, <1>00 DEF ReplyKnows, zaloDocs
  <2>. QED BY <1>0, <1>00, <2>4, <2>6, ReplySaysOnly
<1>2. CASE TakeClient(r)
  <2>. USE <1>2 DEF TakeClient
  <2>1. CASE /\ listener # NoAccount /\ session = listener
             /\ reply' = [reply EXCEPT ![r].at = "resolve", ![r].via = listener]
    <3>. DEFINE e == [at |-> "resolve", talk |-> reply[r].talk, thread |-> reply[r].thread,
                      account |-> reply[r].account, via |-> listener]
    <3>1. e \in ReplyRecords
      BY <1>0 DEF ReplyRecords, ReplyPoints
    <3>2. /\ e.at = "resolve" /\ e.talk = reply[r].talk /\ e.thread = reply[r].thread
          /\ e.account = reply[r].account /\ e.via = listener
      OBVIOUS
    <3>3. reply'[r] = e
      BY <2>1, <1>0 DEF ReplyRecords
    <3>4. reply' = [x \in Said |-> reply'[x]] /\ \A x \in Said \ {r} : reply'[x] = reply[x]
      BY <2>1, <1>0
    <3>. HIDE DEF e
    <3>5. ReplyMoved(r)
      BY <3>1, <3>3, <3>4, <1>0 DEF ReplyMoved
    <3>6. ReplyKnows(r)'
      BY <2>1, <3>2, <3>3, <1>0, <1>00 DEF ReplyKnows, zaloDocs, MaybeAccount
    <3>. QED BY <1>0, <1>00, <3>5, <3>6, ReplySaysOnly
  <2>2. ASSUME NEW point \in {"refuse", "note"}, ReplyGoto(r, point) PROVE ZaloInv'
    <3>1. point \in ReplyPoints
      BY DEF ReplyPoints
    <3>2. ReplyKnows(r)'
      BY <1>0, <1>00, <2>2, <3>1, ReplyMoves DEF ReplyKnows, zaloDocs
    <3>. QED BY <2>2, <3>1, <3>2, <1>a
  <2>. QED BY <2>1, <2>2
<1>3. CASE ResolveAccount(r)
  <2>. USE <1>3 DEF ResolveAccount
  <2>1. CASE BelongsTo(r, reply[r].via) /\ ReplyGoto(r, "deliver")
    <3>1. "deliver" \in ReplyPoints
      BY DEF ReplyPoints
    <3>2. ReplyKnows(r)'
      BY <1>0, <1>00, <2>1, <3>1, ReplyMoves DEF ReplyKnows, zaloDocs, BelongsTo
    <3>. QED BY <2>1, <3>1, <3>2, <1>a
  <2>2. ASSUME NEW point \in {"remap", "refuse", "note"}, ReplyGoto(r, point) PROVE ZaloInv'
    <3>1. point \in ReplyPoints
      BY DEF ReplyPoints
    <3>2. ReplyKnows(r)'
      BY <1>0, <1>00, <2>2, <3>1, ReplyMoves DEF ReplyKnows, zaloDocs
    <3>. QED BY <2>2, <3>1, <3>2, <1>a
  <2>. QED BY <2>1, <2>2
<1>4. CASE DeliverOut(r)
  <2>. USE <1>4 DEF DeliverOut
  <2>1. CASE origin' = [origin EXCEPT ![r] = reply[r].via] /\ (ReplyGoto(r, "persist") \/ ReplyGoto(r, "note"))
    <3>1. PICK point \in {"persist", "note"} : ReplyGoto(r, point)
      BY <2>1
    <3>2. point \in ReplyPoints
      BY DEF ReplyPoints
    <3>3. /\ ReplyMoved(r) /\ reply'[r].at = point /\ reply'[r].talk = reply[r].talk
          /\ reply'[r].thread = reply[r].thread /\ reply'[r].account = reply[r].account
          /\ reply'[r].via = reply[r].via
      BY <3>1, <3>2, <1>00, ReplyMoves
    <3>4. reply[r].via \in Accounts /\ reply[r].via # NoAccount
      BY <1>0, ZaloMessagesAssumption DEF ReplyKnows
    <3>5. /\ origin' \in [ZaloMessages -> MaybeAccount] /\ origin'[r] = reply[r].via
          /\ \A m \in ZaloMessages \ {r} : origin'[m] = origin[m]
      BY <2>1, <1>0, <3>4 DEF MaybeAccount
    <3>6. ReplyKnows(r)'
      BY <1>0, <1>00, <3>3, <3>4, <3>5 DEF ReplyKnows, zaloDocs
    <3>7. /\ \A x \in Said \ {r} : origin'[x] = origin[x] /\ record'[x] = record[x]
          /\ \A m \in ZaloMessages : origin[m] # NoAccount => origin'[m] # NoAccount
      BY <3>4, <3>5 DEF ZaloMessages
    <3>. QED BY <1>0, <1>00, <3>3, <3>5, <3>6, <3>7, ReplySaysOnly
  <2>2. CASE UNCHANGED origin /\ ReplyGoto(r, "note")
    <3>1. "note" \in ReplyPoints
      BY DEF ReplyPoints
    <3>2. ReplyKnows(r)'
      BY <1>0, <1>00, <2>2, <3>1, ReplyMoves DEF ReplyKnows, zaloDocs
    <3>. QED BY <2>2, <3>1, <3>2, <1>a
  <2>. QED BY <2>1, <2>2
<1>5. CASE NoteOutcome(r)
  <2>. USE <1>5 DEF NoteOutcome, OutcomeUnknown
  <2>1. "over" \in ReplyPoints
    BY DEF ReplyPoints
  <2>2. /\ ReplyMoved(r) /\ reply'[r].at = "over" /\ reply'[r].talk = reply[r].talk
        /\ reply'[r].thread = reply[r].thread
    BY <2>1, <1>00, ReplyMoves
  <2>3. /\ record' \in [Said -> {"none", "sent", "failed", "pending"}]
        /\ \A x \in Said \ {r} : record'[x] = record[x]
        /\ record'[r] \in {record[r], IF reply[r].at = "refuse" THEN "failed" ELSE "pending"}
    BY <1>0
  <2>4. ReplyKnows(r)'
    BY <2>2, <2>3, <1>0, <1>00 DEF ReplyKnows, zaloDocs
  <2>. QED BY <1>0, <1>00, <2>2, <2>3, <2>4, ReplySaysOnly
<1>. QED BY <1>1, <1>2, <1>3, <1>4, <1>5

\* The conversation moves to the thread of the account that will send.
LEMMA RemapTurns ==
  ASSUME ZaloInv, NEW r \in Said, Remap(r)
  PROVE  ZaloInv'
<1>. USE ZaloBounds
<1>0. /\ reply \in [Said -> ReplyRecords] /\ reply[r] \in ReplyRecords /\ ReplyKnows(r)
      /\ talk \in [Talks -> TalkRecords] /\ reply[r].at = "remap" /\ ReplyTypes
      /\ talks \in 0..MaxTalks /\ stored \in [ZaloKeys -> 0..MaxTalks]
      /\ record \in [Said -> {"none", "sent", "failed", "pending"}]
      /\ origin \in [ZaloMessages -> MaybeAccount] /\ TalksAreFiled
  BY DEF ZaloInv, ReplyTypes, RepliesKnow, ZaloDocTypes, Remap
<1>00. UNCHANGED <<listener, session, event, slipped, talks, stored, inbound, record, origin, crossed>>
  BY DEF Remap, ReplyUnchanged
<1>01. reply[r].talk \in Talks /\ reply[r].talk <= talks /\ reply[r].via \in Accounts /\ reply[r].via # NoAccount
  BY <1>0, ZaloMessagesAssumption DEF ReplyKnows, Talks
<1>02. PICK t \in Talks : t = reply[r].talk
  BY <1>01
<1>03. PICK via \in Accounts : via = reply[r].via
  BY <1>01
<1>1. CASE ReplyGoto(r, "note") /\ UNCHANGED talk
  <2>1. "note" \in ReplyPoints
    BY DEF ReplyPoints
  <2>2. ReplyKnows(r)'
    BY <1>0, <1>00, <1>1, <2>1, ReplyMoves DEF ReplyKnows
  <2>. QED BY <1>0, <1>00, <1>1, <2>1, <2>2, ReplyMoves, ReplySaysOnly DEF ReplyUnchanged, zaloDocs
<1>2. ASSUME NEW found \in ThreadsOf(via),
             reply' = [reply EXCEPT ![r].at = "deliver", ![r].thread = found],
             talk' = IF talk[t].thread = NoAccount THEN talk
                     ELSE [talk EXCEPT ![t].thread = found, ![t].account = via]
      PROVE  ZaloInv'
  <2>0. found \in MaybeThread /\ found # NoAccount
    BY <1>2, ThreadsAssumption, ZaloMessagesAssumption DEF ThreadsOf, MaybeThread, MaybeAccount
  <2>. DEFINE e == [at |-> "deliver", talk |-> t, thread |-> found, account |-> reply[r].account, via |-> via]
  <2>1. e \in ReplyRecords
    BY <1>0, <1>01, <1>02, <2>0 DEF ReplyRecords, ReplyPoints, MaybeAccount, Talks
  <2>2. e.at = "deliver" /\ e.talk = t /\ e.thread = found /\ e.via = via
    OBVIOUS
  <2>3. reply'[r] = e
    BY <1>2, <1>0, <1>02, <1>03 DEF ReplyRecords
  <2>4. reply' = [x \in Said |-> reply'[x]] /\ \A x \in Said \ {r} : reply'[x] = reply[x]
    BY <1>2, <1>0
  <2>. HIDE DEF e
  <2>5. ReplyMoved(r)
    BY <2>1, <2>3, <2>4, <1>0 DEF ReplyMoved
  <2>6. ReplyKnows(r)'
    BY <1>2, <2>0, <2>2, <2>3, <1>0, <1>00, <1>02, <1>03, <1>01 DEF ReplyKnows
  <2>7. /\ talk' \in [Talks -> TalkRecords] /\ \A x \in Talks \ {t} : talk'[x] = talk[x]
        /\ talk'[t].unread = talk[t].unread /\ (Live(t)' => Live(t))
        /\ (talk'[t] = talk[t] \/ talk'[t].thread \in ThreadsOf(talk'[t].account))
    <3>1. CASE talk[t].thread = NoAccount
      BY <3>1, <1>2, <1>0 DEF Live
    <3>2. CASE talk[t].thread # NoAccount
      <4>. DEFINE new == [thread |-> found, account |-> via, unread |-> talk[t].unread]
      <4>1. new \in TalkRecords
        BY <1>0, <2>0 DEF TalkRecords, MaybeAccount
      <4>2. talk'[t] = new
        BY <3>2, <1>2, <1>0 DEF TalkRecords
      <4>3. talk' = [x \in Talks |-> talk'[x]] /\ \A x \in Talks \ {t} : talk'[x] = talk[x]
        BY <3>2, <1>2, <1>0
      <4>4. new.thread = found /\ new.account = via /\ new.unread = talk[t].unread
        OBVIOUS
      <4>. HIDE DEF new
      <4>. QED BY <1>2, <4>1, <4>2, <4>3, <4>4, <3>2, <1>0 DEF Live
    <3>. QED BY <3>1, <3>2
  <2>8. TalksAreFiled'
    <3>1. \A x \in Talks : x > talks => talk'[x] = NoTalk
      BY <2>7, <1>0, <1>01, <1>02 DEF TalksAreFiled, Talks
    <3>2. \A x \in Talks : Live(x)' => talk'[x].thread \in ThreadsOf(talk'[x].account) \/ x \in crossed
      BY <2>7, <1>0 DEF TalksAreFiled, Live
    <3>. QED BY <3>1, <3>2, <1>00, <1>0 DEF TalksAreFiled
  <2>9. TalksKeep
    BY <2>7 DEF TalksKeep, Live
  <2>10. stored' \in [ZaloKeys -> 0..MaxTalks] /\ \A key \in ZaloKeys : stored[key] # 0 => stored'[key] = stored[key]
    BY <1>0, <1>00
  <2>. QED BY <1>0, <1>00, <2>5, <2>6, <2>7, <2>8, <2>9, <2>10, ReplyGoes
<1>3. PICK found \in ThreadsOf(via) :
        \/ /\ reply' = [reply EXCEPT ![r].at = "deliver", ![r].thread = found]
           /\ talk' = IF talk[t].thread = NoAccount THEN talk
                      ELSE [talk EXCEPT ![t].thread = found, ![t].account = via]
        \/ ReplyGoto(r, "note") /\ UNCHANGED talk
  BY <1>02, <1>03 DEF Remap
<1>. QED BY <1>1, <1>2, <1>3

\* The row of what was sent.
LEMMA PersistTurns ==
  ASSUME ZaloInv, NEW r \in Said, PersistOut(r)
  PROVE  ZaloInv'
<1>. USE ZaloBounds
<1>0. /\ reply \in [Said -> ReplyRecords] /\ reply[r] \in ReplyRecords /\ ReplyKnows(r)
      /\ talk \in [Talks -> TalkRecords] /\ reply[r].at = "persist" /\ ReplyTypes
      /\ talks \in 0..MaxTalks /\ stored \in [ZaloKeys -> 0..MaxTalks]
      /\ record \in [Said -> {"none", "sent", "failed", "pending"}]
      /\ origin \in [ZaloMessages -> MaybeAccount] /\ TalksAreFiled
  BY DEF ZaloInv, ReplyTypes, RepliesKnow, ZaloDocTypes, PersistOut
<1>00. UNCHANGED <<listener, session, event, slipped, talk, talks, inbound, origin, crossed>>
  BY DEF PersistOut, ReplyUnchanged
<1>1. "over" \in ReplyPoints
  BY DEF ReplyPoints
<1>2. ReplyMoved(r) /\ reply'[r].at = "over" /\ reply'[r].talk = reply[r].talk
      /\ reply'[r].thread = reply[r].thread
  BY <1>0, <1>1, ReplyMoves DEF PersistOut
<1>3. /\ record' \in [Said -> {"none", "sent", "failed", "pending"}]
      /\ \A x \in Said \ {r} : record'[x] = record[x]
      /\ record'[r] \in {record[r], "sent"}
  BY <1>0 DEF PersistOut
<1>4. ReplyKnows(r)'
  BY <1>0, <1>00, <1>2, <1>3 DEF ReplyKnows
<1>5. /\ stored' \in [ZaloKeys -> 0..MaxTalks]
      /\ \A key \in ZaloKeys : stored[key] # 0 => stored'[key] = stored[key]
      /\ \A key \in ZaloKeys : stored'[key] <= talks
  <2>1. reply[r].talk \in 0..talks /\ reply[r].talk \in 0..MaxTalks
    BY <1>0 DEF ReplyKnows
  <2>2. CASE UNCHANGED stored
    BY <2>2, <1>0 DEF TalksAreFiled
  <2>3. CASE stored' = [stored EXCEPT ![<<reply[r].via, r>>] = IF @ = 0 THEN reply[r].talk ELSE @]
    <3>1. <<reply[r].via, r>> \in ZaloKeys
      BY <1>0 DEF ZaloKeys, ReplyKnows, ZaloMessages
    <3>2. PICK k \in ZaloKeys : k = <<reply[r].via, r>>
      BY <3>1
    <3>3. stored' = [stored EXCEPT ![k] = IF stored[k] = 0 THEN reply[r].talk ELSE stored[k]]
      BY <2>3, <3>2
    <3>. QED BY <3>3, <2>1, <1>0 DEF TalksAreFiled
  <2>. QED BY <2>2, <2>3 DEF PersistOut
<1>6. TalksAreFiled' /\ TalksKeep
  BY <1>0, <1>00, <1>5 DEF TalksAreFiled, TalksKeep, Live
<1>. QED BY <1>0, <1>00, <1>2, <1>3, <1>4, <1>5, <1>6, ReplyGoes

LEMMA ZaloStep == ZaloInv /\ [ZaloNext]_zaloVars => ZaloInv'
<1>. SUFFICES ASSUME ZaloInv, [ZaloNext]_zaloVars PROVE ZaloInv'
  OBVIOUS
<1>0. listener \in MaybeAccount /\ session \in MaybeAccount /\ NoAccount \in MaybeAccount /\ Accounts \subseteq MaybeAccount
  BY DEF ZaloInv, ZaloDocTypes, MaybeAccount
<1>1. CASE UNCHANGED zaloVars
  BY <1>0, <1>1, SessionTurns DEF zaloVars, SessionUnchanged, zaloDocs, zaloHistory
<1>2. CASE \/ \E a \in Accounts : StartListening(a)
           \/ SaveSession \/ StopListening \/ DeleteSession
  BY <1>0, <1>2, SessionTurns DEF StartListening, SaveSession, StopListening, DeleteSession
<1>3. ASSUME NEW d \in Deliveries, DeliveryStep(d) PROVE ZaloInv'
  BY <1>3, ListenerTurns, UpsertTurns, CreateTurns, CountTurns DEF DeliveryStep
<1>4. ASSUME NEW r \in Said, ReplyStep(r) PROVE ZaloInv'
  BY <1>4, RequestTurns, RemapTurns, PersistTurns DEF ReplyStep
<1>5. ASSUME NEW t \in Talks, DeleteTalk(t) PROVE ZaloInv'
  BY <1>5, DeleteTurns
<1>. QED BY <1>1, <1>2, <1>3, <1>4, <1>5 DEF ZaloNext

\* The badge counts each stored message once, a record says what became of its
\* request, and a reply goes to a thread of the account that sends it, the
\* customer's or that of a friend of the customer's name
\* (zalo-personal.service.ts:545, message.service.ts:123, :241 and :294).
THEOREM ZaloCounts == ZaloSpec => []ZaloInv
<1>1. ZaloInit => ZaloInv
  BY ZaloStarts
<1>2. ZaloInv /\ [ZaloNext]_zaloVars => ZaloInv'
  BY ZaloStep
<1>. QED BY <1>1, <1>2, PTL DEF ZaloSpec

-----------------------------------------------------------------------------
(* The open conversation.                                                   *)

PinRequests == [of : Threads, served : 0..Unserved]
SendRequests == [mail : Posts, served : BOOLEAN]
Known(m) == home[m] \in Threads

\* What is on the way, and what the window shows, is of a known conversation.
LoadKnows(r) ==
  /\ \A m \in r.mails : home[m] = r.of
  /\ r.live /\ r.served /\ r.kind = "pins" /\ r.of = active => r.pins >= told
LoadsKnow == asks \subseteq Loads /\ \A r \in asks : LoadKnows(r)

RequestsKnow ==
  /\ pinAsks \subseteq PinRequests
  /\ sends \subseteq SendRequests /\ \A s \in sends : Known(s.mail)
  /\ retryable \subseteq Posts

\* Pins are heard in the order of their changes, and none is told ahead of the server.
HeardKnows ==
  /\ heard \in [mails : SUBSET Mails, pins : SUBSET Versions]
  /\ \A m \in heard.mails : home[m] = active /\ active \in Threads
  /\ \A v \in heard.pins : active \in Threads /\ told <= v /\ v <= pinned[active]
  /\ told \in Versions /\ (active \in Threads => told <= pinned[active])

ServerKnows ==
  /\ home \in [Mails -> Threads \cup {Nowhere}]
  /\ log \subseteq Mails /\ \A m \in log : Known(m)
  /\ pinned \in [Threads -> Versions]
  /\ moves \in 0..MaxMoves

ViewKnows ==
  /\ view \subseteq Entries
  /\ \A e, f \in view : e.mail = f.mail => e = f
  /\ \A e \in view : Known(e.mail) /\ (home[e.mail] = active \/ (e.mail \in Posts /\ e.form = "stored"))

TabKnows ==
  /\ active \in Threads \cup {NoThread}
  /\ pins \in [of : Threads \cup {NoThread}, seen : Versions] /\ pins.of = active
  /\ advice \in {NoThread, active}
  /\ room \in {"out", "in", "hidden"} /\ (room # "out" => active \in Threads)

ThreadInv == TabKnows /\ ViewKnows /\ ServerKnows /\ HeardKnows /\ RequestsKnow /\ LoadsKnow

LEMMA PinNumbers == MaxPins \in Nat /\ MaxMoves \in Nat /\ NoThread \notin Threads /\ Letters \cap Posts = {}
                    /\ Nowhere = NoThread /\ Unserved = MaxPins + 1 /\ 0 \in Versions /\ Versions = 0..MaxPins
                    /\ Posts \subseteq Mails /\ Letters \subseteq Mails /\ Versions \subseteq Nat
  BY ThreadBounds, ThreadAssumption DEF Nowhere, Unserved, Versions, Mails

LEMMA ThreadInvImplies == ThreadInv => ThreadTypeOK /\ ViewIsOfActive
  BY DEF ThreadInv, TabKnows, ViewKnows, ServerKnows, HeardKnows, RequestsKnow, LoadsKnow, PinRequests,
         SendRequests, ThreadTypeOK, ViewIsOfActive

LEMMA ThreadStarts == ThreadInit => ThreadInv
<1>. SUFFICES ASSUME ThreadInit PROVE ThreadInv
  OBVIOUS
<1>. USE PinNumbers DEF ThreadInit
<1>1. TabKnows
  BY DEF TabKnows
<1>2. HeardKnows
  BY DEF HeardKnows, Silence
<1>3. ViewKnows /\ ServerKnows /\ RequestsKnow /\ LoadsKnow
  BY DEF ViewKnows, ServerKnows, RequestsKnow, LoadsKnow
<1>. QED BY <1>1, <1>2, <1>3 DEF ThreadInv

\* A message stays in its conversation, and the pins only grow.
ServerKeeps ==
  /\ \A m \in Mails : Known(m) => home'[m] = home[m]
  /\ \A t \in Threads : pinned[t] <= pinned'[t]

LEMMA ViewStays == ViewKnows /\ ServerKeeps /\ view' = view /\ active' = active => ViewKnows'
  BY DEF ViewKnows, ServerKeeps, Known, Entries

LEMMA ViewGains ==
  ASSUME ViewKnows, ServerKeeps, active' = active, NEW mails \in SUBSET Mails, view' = Appended(view, mails),
         \A m \in mails : home'[m] \in Threads /\ (home'[m] = active \/ m \in Posts)
  PROVE  ViewKnows'
<1>1. \A e : e \in [mail : mails, form : {"stored"}] =>
        e \in Entries /\ e.mail \in mails /\ e = [mail |-> e.mail, form |-> "stored"] /\ e.form = "stored"
  BY DEF Entries
<1>2. \A e \in view : e \in Entries /\ e.mail \in Mails
  BY DEF ViewKnows, Entries
<1>3. \A e \in view' : (e \in view /\ e.mail \notin mails) \/ e \in [mail : mails, form : {"stored"}]
  BY DEF Appended
<1>4. view' \subseteq Entries
  BY <1>1, <1>2, <1>3
<1>5. \A e, f \in view' : e.mail = f.mail => e = f
  BY <1>1, <1>3 DEF ViewKnows
<1>6. \A e \in view' : home'[e.mail] \in Threads /\ (home'[e.mail] = active \/ (e.mail \in Posts /\ e.form = "stored"))
  BY <1>1, <1>2, <1>3 DEF ViewKnows, ServerKeeps, Known
<1>. QED BY <1>4, <1>5, <1>6 DEF ViewKnows, Known

\* An optimistic message is new to the window.
LEMMA ViewStarts ==
  ASSUME ViewKnows, ServerKeeps, active' = active, NEW p \in Posts, ~Known(p), home'[p] = active, active \in Threads,
         NEW old \in SUBSET view, view' = old \cup {Optimistic(p)}
  PROVE  ViewKnows'
<1>1. Optimistic(p) \in Entries /\ Optimistic(p).mail = p
  BY DEF Optimistic, Entries, Mails
<1>2. \A e \in old : e \in Entries /\ e.mail \in Mails /\ e.mail # p /\ home'[e.mail] = home[e.mail]
  BY DEF ViewKnows, Entries, ServerKeeps
<1>. HIDE DEF Optimistic
<1>. QED BY <1>1, <1>2 DEF ViewKnows, Known

\* A send that fails leaves a failed message in the place of the optimistic one.
LEMMA ViewFails ==
  ASSUME ViewKnows, ServerKeeps, active' = active, NEW p \in Posts,
         view' = {IF e = Optimistic(p) THEN [e EXCEPT !.form = "failed"] ELSE e : e \in view}
  PROVE  ViewKnows'
<1>1. ASSUME NEW e \in Entries
      PROVE  /\ [e EXCEPT !.form = "failed"] \in Entries /\ [e EXCEPT !.form = "failed"].mail = e.mail
             /\ [e EXCEPT !.form = "failed"].form = "failed"
  BY DEF Entries
<1>2. Optimistic(p).mail = p /\ Optimistic(p).form = "pending"
  BY DEF Optimistic
<1>. DEFINE F(e) == IF e = Optimistic(p) THEN [e EXCEPT !.form = "failed"] ELSE e
<1>3. ASSUME NEW f \in view'
      PROVE  \E e \in view : f = F(e) /\ f \in Entries /\ f.mail = e.mail /\ (e # f => e.form = "pending")
  <2>1. PICK e \in view : f = F(e)
    OBVIOUS
  <2>2. e \in Entries
    BY DEF ViewKnows
  <2>. QED BY <2>1, <2>2, <1>1, <1>2
<1>4. view' \subseteq Entries
  BY <1>3
<1>5. \A e, f \in view' : e.mail = f.mail => e = f
  BY <1>3 DEF ViewKnows
<1>6. ASSUME NEW f \in view' PROVE Known(f.mail)' /\ (home'[f.mail] = active \/ (f.mail \in Posts /\ f.form = "stored"))
  <2>1. PICK e \in view : f = F(e) /\ f \in Entries /\ f.mail = e.mail /\ (e # f => e.form = "pending")
    BY <1>3
  <2>2. Known(e.mail) /\ (home[e.mail] = active \/ (e.mail \in Posts /\ e.form = "stored")) /\ e.mail \in Mails
    BY DEF ViewKnows, Entries
  <2>3. home'[f.mail] = home[e.mail]
    BY <2>1, <2>2 DEF ServerKeeps
  <2>. QED BY <2>1, <2>2, <2>3 DEF Known
<1>. QED BY <1>4, <1>5, <1>6 DEF ViewKnows

LEMMA RequestsStay ==
  ASSUME RequestsKnow, ServerKeeps, pinAsks' \subseteq PinRequests, sends' \subseteq SendRequests,
         \A s \in sends' : (\E x \in sends : s.mail = x.mail) \/ home'[s.mail] \in Threads,
         retryable' \subseteq Posts
  PROVE  RequestsKnow'
  BY DEF RequestsKnow, ServerKeeps, Known, SendRequests, Mails

\* The loads after a step: those of before, possibly stale, and new ones.
LoadsKeep ==
  \A r \in asks' :
    \/ ~r.served /\ r.mails = {}
    \/ \E x \in asks : /\ r.mails = x.mails /\ r.of = x.of /\ r.served = x.served /\ r.kind = x.kind
                       /\ r.pins = x.pins /\ (r.live => x.live)

LEMMA LoadsStay ==
  ASSUME LoadsKnow, ServerKeeps, asks' \subseteq Loads, LoadsKeep, active' = active, told' = told
  PROVE  LoadsKnow'
<1>1. \A x \in asks : x \in Loads /\ x.mails \subseteq Mails /\ x.of \in Threads
  BY DEF LoadsKnow, Loads
<1>. QED BY <1>1 DEF LoadsKnow, LoadKnows, LoadsKeep, ServerKeeps, Known

LEMMA HeardStays ==
  ASSUME HeardKnows, ServerKeeps, ServerKnows, ServerKnows', heard' \in {heard, Silence}, active' = active,
         told' = told
  PROVE  HeardKnows'
<1>1. \A m \in heard.mails : m \in Mails
  BY DEF HeardKnows
<1>2. \A v \in heard.pins : v \in Nat /\ active \in Threads /\ v <= pinned[active]
  BY PinNumbers DEF HeardKnows
<1>3. \A t \in Threads : pinned[t] \in Nat /\ pinned'[t] \in Nat
  BY PinNumbers DEF ServerKnows
<1>4. told \in Nat
  BY PinNumbers DEF HeardKnows
<1>5. heard' \in [mails : SUBSET Mails, pins : SUBSET Versions]
  BY DEF HeardKnows, Silence
<1>6. \A m \in heard'.mails : m \in heard.mails
  BY DEF Silence
<1>7. \A v \in heard'.pins : v \in heard.pins
  BY DEF Silence
<1>8. \A m \in heard'.mails : home'[m] = active /\ active \in Threads
  BY <1>1, <1>6 DEF HeardKnows, ServerKeeps, Known
<1>9. \A v \in heard'.pins : active \in Threads /\ told <= v /\ v <= pinned'[active]
  BY <1>2, <1>3, <1>4, <1>7 DEF HeardKnows, ServerKeeps
<1>10. active \in Threads => told <= pinned'[active]
  BY <1>3, <1>4 DEF HeardKnows, ServerKeeps
<1>. QED BY <1>5, <1>8, <1>9, <1>10 DEF HeardKnows

\* What is told to the room of the open conversation.
LEMMA MailTold ==
  ASSUME HeardKnows, ServerKeeps, ServerKnows, ServerKnows', active' = active, told' = told,
         NEW t \in Threads, NEW m \in Mails, home'[m] = t, TellMail(t, m)
  PROVE  HeardKnows'
<1>1. CASE heard' = heard
  BY <1>1, HeardStays
<1>2. CASE active = t /\ heard' = [heard EXCEPT !.mails = @ \cup {m}]
  <2>0. heard \in [mails : SUBSET Mails, pins : SUBSET Versions]
    BY DEF HeardKnows
  <2>1. heard' \in [mails : SUBSET Mails, pins : SUBSET Versions]
        /\ heard'.mails = heard.mails \cup {m} /\ heard'.pins = heard.pins
    BY ONLY <1>2, <2>0, m \in Mails
  <2>2. \A t1 \in Threads : pinned[t1] \in Nat /\ pinned'[t1] \in Nat
    BY PinNumbers DEF ServerKnows
  <2>3. \A v \in heard'.pins : active \in Threads /\ told <= v /\ v <= pinned'[active]
    BY <2>0, <2>1, <2>2, PinNumbers DEF HeardKnows, ServerKeeps
  <2>4. \A x \in heard'.mails : home'[x] = active /\ active \in Threads
    BY <2>0, <2>1, <1>2 DEF HeardKnows, ServerKeeps, Known
  <2>5. told <= pinned'[active]
    BY <1>2, <2>2, PinNumbers DEF HeardKnows, ServerKeeps
  <2>. QED BY <2>1, <2>3, <2>4, <2>5 DEF HeardKnows
<1>. QED BY <1>1, <1>2 DEF TellMail

LEMMA PinsTold ==
  ASSUME HeardKnows, ServerKnows, active' = active, told' = told, UNCHANGED home,
         NEW t \in Threads, pinned[t] < MaxPins, pinned' = [pinned EXCEPT ![t] = @ + 1], TellPins(t, pinned[t] + 1)
  PROVE  HeardKnows'
<1>. USE PinNumbers
<1>0. /\ heard \in [mails : SUBSET Mails, pins : SUBSET Versions] /\ pinned \in [Threads -> Versions]
      /\ told \in Versions
  BY DEF HeardKnows, ServerKnows
<1>1. \A t1 \in Threads : pinned[t1] \in Nat /\ pinned'[t1] \in Nat /\ pinned[t1] <= pinned'[t1]
  BY <1>0
<1>2. pinned'[t] = pinned[t] + 1 /\ pinned[t] + 1 \in Versions
  BY <1>0
<1>3. CASE heard' = heard
  BY <1>0, <1>1, <1>3 DEF HeardKnows
<1>4. CASE active = t /\ heard' = [heard EXCEPT !.pins = @ \cup {pinned[t] + 1}]
  <2>1. heard' \in [mails : SUBSET Mails, pins : SUBSET Versions]
        /\ heard'.mails = heard.mails /\ heard'.pins = heard.pins \cup {pinned[t] + 1}
    BY ONLY <1>4, <1>0, <1>2
  <2>3. \A v \in heard'.pins : active \in Threads /\ told <= v /\ v <= pinned'[active]
    BY <1>0, <1>1, <1>2, <1>4, <2>1 DEF HeardKnows
  <2>4. \A x \in heard'.mails : home'[x] = active /\ active \in Threads
    BY <2>1, <1>4 DEF HeardKnows
  <2>5. told <= pinned'[active]
    BY <1>0, <1>1, <1>4 DEF HeardKnows
  <2>. QED BY <2>1, <2>3, <2>4, <2>5, <1>0 DEF HeardKnows
<1>. QED BY <1>3, <1>4 DEF TellPins

\* A load is new, stale, or served.
LEMMA LoadIs ==
  ASSUME NEW t \in Threads, NEW k \in {"history", "pins", "advice"}
  PROVE  Load(k, t) \in Loads /\ ~Load(k, t).served /\ Load(k, t).mails = {} /\ Load(k, t).of = t
  BY PinNumbers DEF Load, Loads

LEMMA StaleIs ==
  ASSUME NEW r \in Loads, NEW b \in BOOLEAN
  PROVE  /\ [r EXCEPT !.live = b] \in Loads /\ [r EXCEPT !.live = b].mails = r.mails
         /\ [r EXCEPT !.live = b].of = r.of /\ [r EXCEPT !.live = b].served = r.served
         /\ [r EXCEPT !.live = b].kind = r.kind /\ [r EXCEPT !.live = b].pins = r.pins
         /\ [r EXCEPT !.live = b].live = b
  BY DEF Loads

LEMMA AdvisedKeeps ==
  ASSUME LoadsKnow, active \in Threads, asks' = Advised
  PROVE  asks' \subseteq Loads /\ LoadsKeep
<1>1. Load("advice", active) \in Loads /\ ~Load("advice", active).served /\ Load("advice", active).mails = {}
  BY LoadIs
<1>2. ASSUME NEW x \in asks
      PROVE  LET r == [x EXCEPT !.live = @ /\ x.kind # "advice"] IN
               /\ r \in Loads /\ r.mails = x.mails /\ r.of = x.of /\ r.served = x.served /\ r.kind = x.kind
               /\ r.pins = x.pins /\ (r.live => x.live)
  <2>1. x \in Loads /\ (x.live /\ x.kind # "advice") \in BOOLEAN
    BY DEF LoadsKnow
  <2>. QED BY <2>1, StaleIs
<1>3. ASSUME NEW r \in asks'
      PROVE  /\ r \in Loads
             /\ \/ ~r.served /\ r.mails = {}
                \/ \E x \in asks : /\ r.mails = x.mails /\ r.of = x.of /\ r.served = x.served /\ r.kind = x.kind
                                   /\ r.pins = x.pins /\ (r.live => x.live)
  <2>1. CASE r = Load("advice", active)
    BY <1>1, <2>1
  <2>2. ASSUME NEW x \in asks, r = [x EXCEPT !.live = @ /\ x.kind # "advice"]
        PROVE  /\ r \in Loads /\ r.mails = x.mails /\ r.of = x.of /\ r.served = x.served /\ r.kind = x.kind
               /\ r.pins = x.pins /\ (r.live => x.live)
    BY <1>2, <2>2
  <2>. QED BY <2>1, <2>2 DEF Advised
<1>. QED BY <1>3 DEF LoadsKeep

LEMMA ServerSame == ServerKnows /\ UNCHANGED <<home, pinned>> => ServerKeeps
<1>. SUFFICES ASSUME ServerKnows, UNCHANGED <<home, pinned>> PROVE ServerKeeps
  OBVIOUS
<1>1. \A t \in Threads : pinned[t] \in Nat
  BY PinNumbers DEF ServerKnows
<1>. QED BY <1>1 DEF ServerKeeps

LEMMA OpenTurns ==
  ASSUME ThreadInv, NEW t \in Threads \cup {NoThread}, Open(t)
  PROVE  ThreadInv'
<1>. USE PinNumbers DEF ThreadInv, Open, Moves, serverSide
<1>1. ServerKnows' /\ ServerKeeps
  BY DEF ServerKnows, ServerKeeps, Known
<1>2. TabKnows'
  BY DEF TabKnows
<1>3. ViewKnows'
  BY DEF ViewKnows
<1>4. HeardKnows'
  <2>1. heard' \in [mails : SUBSET Mails, pins : SUBSET Versions] /\ heard'.mails = {} /\ heard'.pins = {}
    BY DEF Silence
  <2>2. \A x \in Threads : 0 <= pinned'[x]
    BY DEF ServerKnows
  <2>. QED BY <2>1, <2>2 DEF HeardKnows
<1>5. RequestsKnow'
  BY DEF RequestsKnow, Known
<1>6. LoadsKnow'
  <2>. SUFFICES ASSUME NEW r \in asks' PROVE r \in Loads /\ LoadKnows(r)'
    BY DEF LoadsKnow
  <2>1. CASE r \in Cancelled
    <3>1. PICK x \in asks : r = [x EXCEPT !.live = FALSE]
      BY <2>1 DEF Cancelled
    <3>2. x \in Loads /\ \A m \in x.mails : home[m] = x.of
      BY DEF LoadsKnow, LoadKnows
    <3>3. r \in Loads /\ ~r.live /\ r.mails = x.mails /\ r.of = x.of
      BY <3>1, <3>2, StaleIs
    <3>. QED BY <3>2, <3>3 DEF LoadKnows
  <2>2. ASSUME NEW k \in LoadedAtOnce, t # NoThread, r = Load(k, t) PROVE r \in Loads /\ LoadKnows(r)'
    <3>1. k \in {"history", "pins", "advice"}
      BY DEF LoadedAtOnce
    <3>2. r \in Loads /\ ~r.served /\ r.mails = {}
      BY <2>2, <3>1, LoadIs
    <3>. QED BY <3>2 DEF LoadKnows
  <2>. QED BY <2>1, <2>2
<1>. QED BY <1>1, <1>2, <1>3, <1>4, <1>5, <1>6

\* The socket, and what the user asks for.
LEMMA SocketTurns ==
  ASSUME ThreadInv, Join \/ Hide \/ Resume \/ AskAdvice \/ AskPin
  PROVE  ThreadInv'
<1>. USE PinNumbers DEF ThreadInv, Moves, serverSide
<1>1. /\ UNCHANGED <<active, view, pins, advice, retryable, sends, home, log, pinned, told>>
      /\ heard' \in {heard, Silence} /\ moves' \in 0..MaxMoves
  BY DEF Join, Hide, Resume, AskAdvice, AskPin, ServerKnows
<1>2. ServerKnows' /\ ServerKeeps
  BY <1>1, ServerSame DEF ServerKnows, Known
<1>3. TabKnows'
  BY <1>1 DEF TabKnows, Join, Hide, Resume, AskAdvice, AskPin
<1>4. ViewKnows' /\ HeardKnows'
  BY <1>1, <1>2, ViewStays, HeardStays
<1>5. asks' \subseteq Loads /\ LoadsKeep
  <2>1. CASE asks' = asks
    BY <2>1 DEF LoadsKeep, LoadsKnow
  <2>2. CASE Resume
    <3>1. active \in Threads
      BY <2>2 DEF Resume, TabKnows
    <3>2. Load("history", active) \in Loads /\ ~Load("history", active).served /\ Load("history", active).mails = {}
      BY <3>1, LoadIs
    <3>. QED BY <2>2, <3>2 DEF Resume, LoadsKeep, LoadsKnow
  <2>3. CASE AskAdvice
    BY <2>3, AdvisedKeeps DEF AskAdvice, TabKnows
  <2>. QED BY <2>1, <2>2, <2>3 DEF Join, Hide, AskPin
<1>6. LoadsKnow'
  BY <1>1, <1>2, <1>5, LoadsStay
<1>7. pinAsks' \subseteq PinRequests
  <2>1. active \in Threads => [of |-> active, served |-> Unserved] \in PinRequests
    BY DEF PinRequests
  <2>. QED BY <2>1 DEF RequestsKnow, Join, Hide, Resume, AskAdvice, AskPin, TabKnows
<1>8. RequestsKnow'
  <2>1. sends' \subseteq SendRequests /\ retryable' \subseteq Posts
    BY <1>1 DEF RequestsKnow
  <2>. QED BY <2>1, <1>1, <1>2, <1>7, RequestsStay
<1>. QED BY <1>2, <1>3, <1>4, <1>6, <1>8

\* A load is served, or answered.
LEMMA LoadTurns ==
  ASSUME ThreadInv, NEW r \in asks, Serve(r) \/ Answer(r)
  PROVE  ThreadInv'
<1>. USE PinNumbers DEF ThreadInv, serverSide
<1>0. r \in Loads /\ LoadKnows(r) /\ r.of \in Threads /\ r.mails \subseteq Mails /\ r.pins \in Versions
  BY DEF LoadsKnow, Loads
<1>1. UNCHANGED <<active, retryable, pinAsks, sends, room, heard, home, log, pinned, moves, told>>
  BY DEF Serve, Answer
<1>2. ServerKnows' /\ ServerKeeps
  BY <1>1, ServerSame DEF ServerKnows, Known
<1>3. HeardKnows' /\ RequestsKnow'
  BY <1>1, <1>2, HeardStays DEF RequestsKnow, Known
<1>4. CASE Serve(r)
  <2>. DEFINE ms == {m \in log : home[m] = r.of /\ r.kind = "history"}
              n == IF r.kind = "pins" THEN pinned[r.of] ELSE 0
              x == [r EXCEPT !.served = TRUE, !.mails = ms, !.pins = n]
  <2>1. ms \in SUBSET Mails /\ n \in Versions /\ \A m \in ms : home[m] = r.of
    BY <1>0 DEF ServerKnows
  <2>2. (r.kind = "pins" /\ r.of = active => n >= told)
    BY <1>0 DEF HeardKnows, ServerKnows
  <2>3. asks' = (asks \ {r}) \cup {x}
    BY <1>4 DEF Serve
  <2>. HIDE DEF ms, n
  <2>4. x \in Loads /\ x.mails = ms /\ x.pins = n /\ x.kind = r.kind /\ x.of = r.of
    BY ONLY <1>0, <2>1 DEF Loads
  <2>. HIDE DEF x
  <2>5. LoadsKnow'
    BY <1>1, <2>1, <2>2, <2>3, <2>4 DEF LoadsKnow, LoadKnows
  <2>6. ViewKnows' /\ TabKnows'
    BY <1>1, <1>2, <1>4, ViewStays DEF Serve, TabKnows
  <2>. QED BY <1>2, <1>3, <2>5, <2>6
<1>5. CASE Answer(r)
  <2>1. LoadsKnow'
    BY <1>1, <1>5 DEF Answer, LoadsKnow, LoadKnows
  <2>2. TabKnows'
    BY <1>0, <1>1, <1>5 DEF Answer, TabKnows, IsCurrent
  <2>3. ViewKnows'
    <3>1. CASE view' = view
      BY <3>1, <1>1, <1>2, ViewStays
    <3>2. CASE view' = Appended(view, r.mails) /\ r.of = active
      BY <3>2, <1>0, <1>1, <1>2, ViewGains DEF LoadKnows
    <3>. QED BY <3>1, <3>2, <1>5 DEF Answer, IsCurrent
  <2>. QED BY <1>2, <1>3, <2>1, <2>2, <2>3
<1>. QED BY <1>4, <1>5

\* The server is told of a message or of a change of the pins.
LEMMA EventTurns ==
  ASSUME ThreadInv, NEW t \in Threads, PinElsewhere(t) \/ \E m \in Letters : Write(m, t)
  PROVE  ThreadInv'
<1>. USE PinNumbers DEF ThreadInv, Moves
<1>1. UNCHANGED <<active, view, pins, advice, retryable, asks, pinAsks, sends, room, told>>
      /\ moves' \in 0..MaxMoves
  BY DEF PinElsewhere, Write, ServerKnows
<1>2. TabKnows'
  BY <1>1 DEF TabKnows
<1>3. ASSUME ServerKnows', ServerKeeps, HeardKnows' PROVE ThreadInv'
  <2>1. LoadsKeep
    BY <1>1 DEF LoadsKeep
  <2>2. LoadsKnow'
    BY <1>1, <1>3, <2>1, LoadsStay DEF LoadsKnow
  <2>3. RequestsKnow'
    BY <1>1, <1>3, RequestsStay DEF RequestsKnow
  <2>. QED BY <1>1, <1>2, <1>3, <2>2, <2>3, ViewStays
<1>4. CASE PinElsewhere(t)
  <2>. USE <1>4 DEF PinElsewhere
  <2>1. \A x \in Threads : pinned[x] \in Nat /\ pinned[x] <= MaxPins
    BY DEF ServerKnows
  <2>2. pinned' \in [Threads -> Versions] /\ \A x \in Threads : pinned[x] <= pinned'[x]
    BY <2>1 DEF ServerKnows
  <2>3. ServerKnows' /\ ServerKeeps
    BY <1>1, <2>2 DEF ServerKnows, ServerKeeps, Known
  <2>4. HeardKnows'
    BY <1>1, PinsTold
  <2>. QED BY <1>3, <2>3, <2>4
<1>5. ASSUME NEW m \in Letters, Write(m, t) PROVE ThreadInv'
  <2>. USE <1>5 DEF Write
  <2>1. \A x \in Threads : pinned[x] \in Nat
    BY DEF ServerKnows
  <2>2. home' \in [Mails -> Threads \cup {Nowhere}] /\ home'[m] = t /\ m \in Mails
        /\ \A x \in Mails \ {m} : home'[x] = home[x]
    BY DEF ServerKnows
  <2>3. ~Known(m)
    BY DEF Known
  <2>4. ServerKeeps
    BY <2>1, <2>2, <2>3 DEF ServerKeeps
  <2>5. ServerKnows'
    BY <1>1, <2>2 DEF ServerKnows, Known
  <2>6. HeardKnows'
    BY <1>1, <2>2, <2>4, <2>5, MailTold
  <2>. QED BY <1>3, <2>4, <2>5, <2>6
<1>. QED BY <1>4, <1>5

LEMMA InvalidatedKeeps ==
  ASSUME LoadsKnow, asks' = PinsInvalidated
  PROVE  asks' \subseteq Loads /\ LoadsKeep /\ \A r \in asks' : ~(r.live /\ r.kind = "pins")
<1>1. ASSUME NEW r \in asks'
      PROVE  /\ r \in Loads /\ ~(r.live /\ r.kind = "pins")
             /\ \E x \in asks : /\ r.mails = x.mails /\ r.of = x.of /\ r.served = x.served /\ r.kind = x.kind
                                /\ r.pins = x.pins /\ (r.live => x.live)
  <2>1. PICK x \in asks : r = [x EXCEPT !.live = @ /\ x.kind # "pins"]
    BY DEF PinsInvalidated
  <2>2. x \in Loads /\ (x.live /\ x.kind # "pins") \in BOOLEAN
    BY DEF LoadsKnow
  <2>. QED BY <2>1, <2>2, StaleIs
<1>. QED BY <1>1 DEF LoadsKeep

\* The tab hears of a message.
LEMMA MailTurns ==
  ASSUME ThreadInv, NEW m \in Mails, HearMail(m)
  PROVE  ThreadInv'
<1>. USE PinNumbers DEF ThreadInv, HearMail, serverSide
<1>1. ServerKnows' /\ ServerKeeps
  BY ServerSame DEF ServerKnows, Known
<1>2. home[m] = active /\ active \in Threads /\ heard \in [mails : SUBSET Mails, pins : SUBSET Versions]
  BY DEF HeardKnows
<1>3. TabKnows'
  BY DEF TabKnows
<1>4. ViewKnows'
  BY <1>1, <1>2, ViewGains
<1>5. HeardKnows'
  <2>1. heard' \in [mails : SUBSET Mails, pins : SUBSET Versions]
        /\ heard'.mails = heard.mails \ {m} /\ heard'.pins = heard.pins
    <3>1. heard' = [heard EXCEPT !.mails = @ \ {m}]
      OBVIOUS
    <3>. QED BY ONLY <3>1, <1>2
  <2>. QED BY <2>1 DEF HeardKnows
<1>6. asks' \subseteq Loads /\ LoadsKeep
  BY <1>2, AdvisedKeeps DEF LoadsKeep, LoadsKnow
<1>7. LoadsKnow'
  BY <1>1, <1>6, LoadsStay
<1>8. RequestsKnow'
  BY <1>1, RequestsStay DEF RequestsKnow
<1>. QED BY <1>1, <1>3, <1>4, <1>5, <1>7, <1>8

\* The tab hears of a change of the pins.
LEMMA PinTurns ==
  ASSUME ThreadInv, HearPins
  PROVE  ThreadInv'
<1>. USE PinNumbers DEF ThreadInv, serverSide
<1>1. PICK v \in heard.pins :
        /\ \A w \in heard.pins : v <= w
        /\ heard' = [heard EXCEPT !.pins = @ \ {v}]
        /\ pins' = [of |-> active, seen |-> v]
        /\ told' = v
        /\ asks' = PinsInvalidated
        /\ UNCHANGED <<active, view, advice, retryable, pinAsks, sends, room, serverSide, moves>>
  BY DEF HearPins
<1>2. active \in Threads /\ v \in Versions /\ v <= pinned[active] /\ heard \in [mails : SUBSET Mails, pins : SUBSET Versions]
  BY DEF HeardKnows
<1>3. ServerKnows' /\ ServerKeeps
  BY <1>1, ServerSame DEF ServerKnows, Known
<1>4. TabKnows'
  BY <1>1, <1>2 DEF TabKnows
<1>5. ViewKnows'
  BY <1>1, <1>3, ViewStays
<1>6. HeardKnows'
  <2>1. heard' \in [mails : SUBSET Mails, pins : SUBSET Versions]
        /\ heard'.mails = heard.mails /\ heard'.pins = heard.pins \ {v}
    BY ONLY <1>1, <1>2
  <2>. QED BY <2>1, <1>1, <1>2 DEF HeardKnows
<1>7. /\ asks' \subseteq Loads /\ LoadsKeep /\ \A r \in asks' : ~(r.live /\ r.kind = "pins")
  BY <1>1, InvalidatedKeeps
<1>8. LoadsKnow'
  <2>1. \A x \in asks : x \in Loads /\ x.mails \subseteq Mails /\ x.of \in Threads
    BY DEF LoadsKnow, Loads
  <2>. QED BY <1>1, <1>3, <1>7, <2>1 DEF LoadsKnow, LoadKnows, LoadsKeep, ServerKeeps, Known
<1>9. RequestsKnow'
  BY <1>1, <1>3, RequestsStay DEF RequestsKnow
<1>. QED BY <1>3, <1>4, <1>5, <1>6, <1>8, <1>9

\* A change of the pins by the user.
LEMMA PinAskTurns ==
  ASSUME ThreadInv, NEW r \in pinAsks, ServePin(r) \/ AnswerPin(r)
  PROVE  ThreadInv'
<1>. USE PinNumbers DEF ThreadInv, serverSide
<1>1. UNCHANGED <<active, view, advice, retryable, asks, sends, room, home, log, moves, told>>
  BY DEF ServePin, AnswerPin
<1>2. r \in PinRequests /\ r.of \in Threads /\ r.served \in 0..Unserved
  BY DEF RequestsKnow, PinRequests
<1>3. ASSUME ServerKnows', ServerKeeps, HeardKnows', TabKnows', pinAsks' \subseteq PinRequests PROVE ThreadInv'
  <2>1. LoadsKeep
    BY <1>1 DEF LoadsKeep
  <2>2. LoadsKnow'
    BY <1>1, <1>3, <2>1, LoadsStay DEF LoadsKnow
  <2>3. RequestsKnow'
    BY <1>1, <1>3, RequestsStay DEF RequestsKnow
  <2>. QED BY <1>1, <1>3, <2>2, <2>3, ViewStays
<1>4. CASE ServePin(r)
  <2>. USE <1>4 DEF ServePin
  <2>1. \A x \in Threads : pinned[x] \in Nat /\ pinned[x] <= MaxPins
    BY DEF ServerKnows
  <2>2. pinned' \in [Threads -> Versions] /\ \A x \in Threads : pinned[x] <= pinned'[x]
    BY <1>2, <2>1 DEF ServerKnows
  <2>3. ServerKnows' /\ ServerKeeps
    BY <1>1, <2>2 DEF ServerKnows, ServerKeeps, Known
  <2>4. HeardKnows'
    BY <1>1, <1>2, PinsTold
  <2>5. TabKnows'
    BY <1>1 DEF TabKnows
  <2>6. pinned[r.of] + 1 \in 0..Unserved
    BY <1>2, <2>1
  <2>7. pinAsks' \subseteq PinRequests
    BY <1>2, <2>6 DEF RequestsKnow, PinRequests
  <2>. QED BY <1>3, <2>3, <2>4, <2>5, <2>7
<1>5. CASE AnswerPin(r)
  <2>. USE <1>5 DEF AnswerPin
  <2>1. ServerKnows' /\ ServerKeeps
    BY <1>1, ServerSame DEF ServerKnows, Known
  <2>2. HeardKnows'
    BY <1>1, <2>1, HeardStays
  <2>3. TabKnows'
    <3>1. r.served # Unserved => r.served \in Versions
      BY <1>2
    <3>. QED BY <1>1, <1>2, <3>1 DEF TabKnows
  <2>. QED BY <1>3, <2>1, <2>2, <2>3 DEF RequestsKnow
<1>. QED BY <1>4, <1>5

\* A text is sent, or a failed one again.
LEMMA TextTurns ==
  ASSUME ThreadInv, NEW p \in Posts, NEW old \in SUBSET view, Starts(p), Moves,
         view' = old \cup {Optimistic(p)}, retryable' \subseteq Posts,
         UNCHANGED <<active, pins, advice, asks, pinAsks, room, heard, log, pinned, told>>
  PROVE  ThreadInv'
<1>. USE PinNumbers DEF ThreadInv, Starts, Moves
<1>0. active \in Threads /\ ~Known(p) /\ p \in Mails
  BY DEF TabKnows, Known
<1>1. home' \in [Mails -> Threads \cup {Nowhere}] /\ home'[p] = active /\ \A x \in Mails \ {p} : home'[x] = home[x]
  BY <1>0 DEF ServerKnows
<1>2. \A x \in Threads : pinned[x] \in Nat
  BY DEF ServerKnows
<1>3. ServerKeeps
  BY <1>0, <1>1, <1>2 DEF ServerKeeps
<1>4. ServerKnows'
  BY <1>0, <1>1 DEF ServerKnows, Known
<1>5. ViewKnows'
  BY <1>0, <1>1, <1>3, ViewStarts
<1>6. TabKnows'
  BY DEF TabKnows
<1>7. HeardKnows'
  BY <1>3, <1>4, HeardStays
<1>8. LoadsKeep
  BY DEF LoadsKeep
<1>9. LoadsKnow'
  BY <1>3, <1>8, LoadsStay DEF LoadsKnow
<1>10. sends' \subseteq SendRequests /\ \A s \in sends' : (\E x \in sends : s.mail = x.mail) \/ home'[s.mail] \in Threads
  <2>1. [mail |-> p, served |-> FALSE] \in SendRequests /\ [mail |-> p, served |-> FALSE].mail = p
    BY DEF SendRequests
  <2>. QED BY <2>1, <1>0, <1>1 DEF RequestsKnow
<1>11. RequestsKnow'
  BY <1>3, <1>10, RequestsStay DEF RequestsKnow
<1>. QED BY <1>4, <1>5, <1>6, <1>7, <1>9, <1>11

LEMMA SendsTurn ==
  ASSUME ThreadInv, NEW p \in Posts, SendText(p) \/ \E q \in Posts : RetryMessage(p, q)
  PROVE  ThreadInv'
<1>0. retryable \subseteq Posts
  BY DEF ThreadInv, RequestsKnow
<1>1. CASE SendText(p)
  BY <1>0, <1>1, TextTurns DEF SendText
<1>2. ASSUME NEW q \in Posts, RetryMessage(p, q) PROVE ThreadInv'
  <2>1. view \ {[mail |-> p, form |-> "failed"]} \in SUBSET view
    OBVIOUS
  <2>. QED BY <1>0, <1>2, <2>1, TextTurns DEF RetryMessage
<1>. QED BY <1>1, <1>2

\* A send is served, answered, or fails.
LEMMA SendEnds ==
  ASSUME ThreadInv, NEW s \in sends, ServeSend(s) \/ AnswerSend(s) \/ FailSend(s)
  PROVE  ThreadInv'
<1>. USE PinNumbers DEF ThreadInv, serverSide
<1>1. UNCHANGED <<active, pins, advice, asks, pinAsks, room, home, pinned, moves, told>>
  BY DEF ServeSend, AnswerSend, FailSend
<1>2. s \in SendRequests /\ s.mail \in Posts /\ s.mail \in Mails /\ home[s.mail] \in Threads
  BY DEF RequestsKnow, SendRequests, Known
<1>3. ServerKeeps
  BY <1>1, ServerSame
<1>4. ServerKnows'
  BY <1>1, <1>2 DEF ServerKnows, Known, ServeSend, AnswerSend, FailSend
<1>5. LoadsKeep
  BY <1>1 DEF LoadsKeep
<1>6. LoadsKnow' /\ TabKnows'
  BY <1>1, <1>3, <1>5, LoadsStay DEF LoadsKnow, TabKnows
<1>7. RequestsKnow'
  <2>1. [s EXCEPT !.served = TRUE] \in SendRequests /\ [s EXCEPT !.served = TRUE].mail = s.mail
    BY <1>2 DEF SendRequests
  <2>2. /\ sends' \subseteq SendRequests /\ \A x \in sends' : \E y \in sends : x.mail = y.mail
        /\ retryable' \subseteq Posts
    BY <2>1 DEF RequestsKnow, ServeSend, AnswerSend, FailSend
  <2>. QED BY <1>1, <1>3, <2>2, RequestsStay DEF RequestsKnow
<1>8. HeardKnows'
  BY <1>1, <1>2, <1>3, <1>4, MailTold, HeardStays DEF ServeSend, AnswerSend, FailSend
<1>9. ViewKnows'
  <2>1. CASE ServeSend(s)
    BY <2>1, <1>1, <1>3, ViewStays DEF ServeSend
  <2>2. CASE AnswerSend(s)
    BY <2>2, <1>1, <1>2, <1>3, ViewGains DEF AnswerSend
  <2>3. CASE FailSend(s)
    BY <2>3, <1>1, <1>2, <1>3, ViewFails DEF FailSend
  <2>. QED BY <2>1, <2>2, <2>3
<1>. QED BY <1>4, <1>6, <1>7, <1>8, <1>9

LEMMA ThreadMoves == ThreadInv /\ [ThreadNext]_threadVars => ThreadInv'
<1>. SUFFICES ASSUME ThreadInv, [ThreadNext]_threadVars PROVE ThreadInv'
  OBVIOUS
<1>1. CASE UNCHANGED threadVars
  <2>. USE <1>1 DEF threadVars, serverSide, ThreadInv
  <2>1. ServerKnows' /\ ServerKeeps
    BY ServerSame DEF ServerKnows, Known
  <2>2. TabKnows' /\ RequestsKnow'
    BY DEF TabKnows, RequestsKnow, Known
  <2>3. HeardKnows' /\ ViewKnows'
    BY <2>1, HeardStays, ViewStays
  <2>4. LoadsKnow'
    BY DEF LoadsKnow, LoadKnows
  <2>. QED BY <2>1, <2>2, <2>3, <2>4
<1>2. CASE TabStep
  BY <1>2, OpenTurns, SocketTurns, SendsTurn DEF TabStep
<1>3. CASE AnswerStep
  BY <1>3, LoadTurns, PinAskTurns, SendEnds DEF AnswerStep
<1>4. CASE EventStep
  BY <1>4, EventTurns, MailTurns, PinTurns DEF EventStep
<1>. QED BY <1>1, <1>2, <1>3, <1>4 DEF ThreadNext

\* What a load or an event may do to the pins that are shown.
LEMMA PinsRespected == ThreadInv /\ [ThreadNext]_threadVars => LoadsRespectPins
<1>. SUFFICES ASSUME ThreadInv, [ThreadNext]_threadVars, active' = active, asks' # asks, pins' # pins
              PROVE  pins'.seen >= told
  BY DEF LoadsRespectPins
<1>. USE PinNumbers
<1>1. CASE UNCHANGED threadVars
  BY <1>1 DEF threadVars
<1>2. CASE TabStep
  BY <1>2 DEF TabStep, Open, Join, Hide, Resume, AskAdvice, AskPin, SendText, RetryMessage
<1>3. CASE AnswerStep
  <2>1. ASSUME NEW r \in asks, Answer(r) PROVE pins'.seen >= told
    <3>1. pins' = [of |-> r.of, seen |-> r.pins] /\ IsCurrent(r) /\ r.kind = "pins" /\ r.served
      BY <2>1 DEF Answer
    <3>2. r.pins >= told
      BY <3>1 DEF ThreadInv, LoadsKnow, LoadKnows, IsCurrent
    <3>. QED BY <3>1, <3>2
  <2>. QED BY <1>3, <2>1 DEF AnswerStep, Serve, ServePin, AnswerPin, ServeSend, AnswerSend, FailSend
<1>4. CASE EventStep
  <2>1. CASE HearPins
    BY <2>1 DEF HearPins, ThreadInv, HeardKnows
  <2>. QED BY <1>4, <2>1 DEF EventStep, PinElsewhere, Write, HearMail
<1>. QED BY <1>1, <1>2, <1>3, <1>4 DEF ThreadNext

\* What is shown belongs to the open conversation, and the answer of a load of the
\* pins is not older than what an event has shown (InboxPage.tsx:53,
\* inbox-pins.ts:59).
THEOREM ThreadIsOfActive == ThreadSpec => []ThreadInv /\ [][ViewIsOfActive' /\ LoadsRespectPins]_threadVars
<1>1. ThreadInit => ThreadInv
  BY ThreadStarts
<1>2. ThreadInv /\ [ThreadNext]_threadVars => ThreadInv'
  BY ThreadMoves
<1>3. ThreadInv /\ [ThreadNext]_threadVars => LoadsRespectPins
  BY PinsRespected
<1>4. ThreadInv' => ViewIsOfActive'
  BY ThreadInvImplies, PTL
<1>. QED BY <1>1, <1>2, <1>3, <1>4, PTL DEF ThreadSpec

-----------------------------------------------------------------------------
(* The list of conversations.                                               *)

ReadRecords == [of : Chats, gen : Nat, served : BOOLEAN, news : Counts \cup {None}]
ListRecords == [kind : {"load", "resume", "unread"}, served : BOOLEAN,
                got : [Chats -> Counts \cup {None}], news : SUBSET Chats]
MarkRecords == [gen : Nat, base : Counts, rev : Nat, confirmed : BOOLEAN]
UpdateRecords == [of : Chats, count : Counts \cup {Deleted, Ring}]

ListTabTypes ==
  /\ opened \in Chats \cup {NoChat} /\ list \subseteq Chats /\ unreadIds \subseteq Chats
  /\ badge \in [Chats -> Counts] /\ \A t \in Chats \ list : badge[t] = 0
  /\ revision \in [Chats -> Nat] /\ mark \in [Chats -> MarkRecords] /\ lastGen \in Nat
RequestTypes == reads \subseteq ReadRecords /\ lists \subseteq ListRecords
ListServerTypes ==
  /\ updates \subseteq UpdateRecords /\ alive \subseteq Chats
  /\ unread \in [Chats -> Counts] /\ used \in 0..MaxUsed
  /\ \A t \in Chats : unread[t] <= used + 1

LEMMA ListTypesAre == ListTabTypes /\ RequestTypes /\ ListServerTypes => ListTypeOK
  BY DEF ListTypeOK, ListTabTypes, RequestTypes, ListServerTypes, ReadRecords, ListRecords,
         MarkRecords, UpdateRecords

\* A mark is not ahead of its conversation, and a read mark under way that heard
\* of something newer can only be confirmed by it.
MarksKnow == \A t \in Chats : mark[t].rev <= revision[t]
ReadsKnow ==
  \A r \in reads :
    /\ r.gen \in 1..lastGen
    /\ r.news # None /\ MayApply(r) => r.news = 0 /\ mark[r.of].confirmed

\* What a load was told was shown since is newer than the load.
ListsKnow == \A l \in lists : \A t \in l.news : revision[t] > 0

ListInv == ListTabTypes /\ RequestTypes /\ ListServerTypes /\ MarksKnow /\ ReadsKnow /\ ListsKnow

LEMMA NoCounts == /\ Counts \subseteq Nat /\ 0 \in Counts /\ None \notin Counts /\ Deleted \notin Counts
                  /\ Ring \notin Counts /\ 1 \in Counts /\ Counts = 0..(MaxUsed + 1)
                  /\ MaxUsed \in Nat
  BY ListBounds DEF Counts, None, Deleted, Ring

LEMMA ListStarts == ListInit => ListInv
<1>. SUFFICES ASSUME ListInit PROVE ListInv
  OBVIOUS
<1>. USE NoCounts DEF ListInit
<1>1. NoMark \in MarkRecords /\ NoMark.rev = 0
  BY DEF NoMark, MarkRecords
<1>2. Asked("load") \in ListRecords /\ Asked("load").news = {}
  BY DEF Asked, ListRecords
<1>3. ListTabTypes /\ MarksKnow
  BY <1>1 DEF ListTabTypes, MarksKnow
<1>4. RequestTypes /\ ReadsKnow /\ ListsKnow
  BY <1>2 DEF RequestTypes, ReadsKnow, ListsKnow
<1>5. ListServerTypes
  BY DEF ListServerTypes
<1>. QED BY <1>3, <1>4, <1>5 DEF ListInv

\* The requests under way stay what they were when revisions and marks do.
LEMMA TabStays ==
  ASSUME ListInv, UNCHANGED <<badge, refs>>, list' = list, opened' \in Chats \cup {NoChat},
         unreadIds' \subseteq Chats, reads' \subseteq reads \cup ReadRecords,
         \A r \in reads' : r \in reads \/ (\E s \in reads : r.of = s.of /\ r.gen = s.gen /\ r.news = s.news),
         lists' \subseteq ListRecords,
         \A l \in lists' : \A t \in l.news : \E k \in lists : t \in k.news,
         ListServerTypes'
  PROVE  ListInv'
<1>. USE DEF ListInv, refs
<1>1. ListTabTypes' /\ RequestTypes' /\ MarksKnow'
  BY DEF ListTabTypes, RequestTypes, MarksKnow
<1>2. ReadsKnow'
  BY DEF ReadsKnow, MayApply
<1>3. ListsKnow'
  BY DEF ListsKnow
<1>. QED BY <1>1, <1>2, <1>3

LEMMA PeopleTurn ==
  ASSUME ListInv,
         ResumeList \/ \E t \in Chats : AskUnread(t) \/ CustomerWrites(t) \/ ReadElsewhere(t) \/ DeleteElsewhere(t)
  PROVE  ListInv'
<1>. USE NoCounts DEF ListInv, Uses
<1>0. reads \subseteq ReadRecords /\ lists \subseteq ListRecords /\ unreadIds \subseteq Chats /\ list \subseteq Chats
      /\ updates \subseteq UpdateRecords /\ unread \in [Chats -> Counts] /\ used \in 0..MaxUsed
      /\ alive \subseteq Chats /\ opened \in Chats \cup {NoChat}
      /\ \A t \in Chats : unread[t] <= used + 1
  BY DEF ListTabTypes, RequestTypes, ListServerTypes
<1>1. CASE ResumeList
  <2>. USE <1>1 DEF ResumeList
  <2>1. Asked("resume") \in ListRecords /\ Asked("resume").news = {}
    BY DEF Asked, ListRecords
  <2>2. ListServerTypes'
    BY <1>0 DEF ListServerTypes
  <2>. QED BY <2>1, <2>2, <1>0, TabStays
<1>2. ASSUME NEW t \in Chats, AskUnread(t) PROVE ListInv'
  <2>. USE <1>2 DEF AskUnread
  <2>. DEFINE g == [x \in Chats |-> None]
              h == [c \in Chats |-> IF c = t THEN 1 ELSE None]
  <2>0. g \in [Chats -> Counts \cup {None}] /\ h \in [Chats -> Counts \cup {None}]
    OBVIOUS
  <2>01. Asked("unread") = [kind |-> "unread", served |-> FALSE, got |-> g, news |-> {}]
    BY DEF Asked
  <2>02. lists' = lists \cup {[Asked("unread") EXCEPT !.got = h]}
    OBVIOUS
  <2>. HIDE DEF g, h
  <2>03. PICK a : a = Asked("unread")
    OBVIOUS
  <2>04. a = [kind |-> "unread", served |-> FALSE, got |-> g, news |-> {}]
    BY <2>01, <2>03
  <2>2. [a EXCEPT !.got = h] \in ListRecords /\ [a EXCEPT !.got = h].news = {}
    BY ONLY <2>0, <2>04 DEF ListRecords
  <2>. DEFINE l == [a EXCEPT !.got = h]
  <2>3. lists' = lists \cup {l} /\ l \in ListRecords /\ l.news = {}
    BY <2>2, <2>02, <2>03
  <2>. HIDE DEF l
  <2>4. ListServerTypes'
    BY <1>0 DEF ListServerTypes
  <2>. QED BY <2>3, <2>4, <1>0, TabStays
<1>3. ASSUME NEW t \in Chats, CustomerWrites(t) PROVE ListInv'
  <2>. USE <1>3 DEF CustomerWrites
  <2>1. unread[t] + 1 \in Counts /\ unread[t] + 1 <= used' + 1
    BY <1>0
  <2>2. unread' \in [Chats -> Counts] /\ \A x \in Chats : unread'[x] <= used' + 1
    BY <2>1, <1>0
  <2>3. updates' \subseteq UpdateRecords
    BY <2>1, <1>0 DEF UpdateRecords
  <2>4. ListServerTypes'
    BY <2>2, <2>3, <1>0 DEF ListServerTypes
  <2>. QED BY <2>4, <1>0, TabStays
<1>4. ASSUME NEW t \in Chats, ReadElsewhere(t) PROVE ListInv'
  <2>. USE <1>4 DEF ReadElsewhere, Tell
  <2>1. unread' \in [Chats -> Counts] /\ \A x \in Chats : unread'[x] <= used' + 1
    BY <1>0
  <2>2. updates' \subseteq UpdateRecords
    BY <1>0 DEF UpdateRecords
  <2>3. ListServerTypes'
    BY <2>1, <2>2, <1>0 DEF ListServerTypes
  <2>. QED BY <2>3, <1>0, TabStays
<1>5. ASSUME NEW t \in Chats, DeleteElsewhere(t) PROVE ListInv'
  <2>. USE <1>5 DEF DeleteElsewhere, Tell
  <2>2. updates' \subseteq UpdateRecords
    BY <1>0 DEF UpdateRecords
  <2>3. ListServerTypes'
    BY <2>2, <1>0 DEF ListServerTypes
  <2>. QED BY <2>3, <1>0, TabStays
<1>. QED BY <1>1, <1>2, <1>3, <1>4, <1>5

\* A read mark begins: its generation is new, so no older answer may apply to it.
LEMMA ReadBegins ==
  ASSUME NEW t \in Chats, NEW STATE pending, NEW STATE counts, NEW STATE revisions, NEW STATE marks,
         BeginRead(t, pending, counts, revisions, marks),
         lastGen \in Nat, counts \in [Chats -> Counts], revisions \in [Chats -> Nat],
         marks \in [Chats -> MarkRecords], pending \subseteq ReadRecords,
         \A c \in Chats : marks[c].rev <= revisions[c],
         \A r \in pending :
           /\ r.gen \in 1..lastGen
           /\ r.of # t /\ r.news # None /\ marks[r.of].gen = r.gen /\ marks[r.of].rev = revisions[r.of]
              => r.news = 0 /\ marks[r.of].confirmed
  PROVE  /\ badge' \in [Chats -> Counts] /\ \A c \in Chats : badge'[c] \in {0, counts[c]}
         /\ revision' \in [Chats -> Nat] /\ \A c \in Chats : revision'[c] >= revisions[c]
         /\ mark' \in [Chats -> MarkRecords] /\ lastGen' \in Nat
         /\ reads' \subseteq ReadRecords /\ MarksKnow' /\ ReadsKnow'
<1>. USE NoCounts DEF BeginRead
<1>. DEFINE base == Baseline(t, counts, revisions, marks)
            mine == [gen |-> lastGen + 1, rev |-> revisions[t] + 1, confirmed |-> FALSE, base |-> base]
            ask == [of |-> t, gen |-> lastGen + 1, served |-> FALSE, news |-> None]
<1>1. base \in Counts
  BY DEF Baseline, MarkRecords
<1>2. mine \in MarkRecords /\ mine.gen = lastGen + 1 /\ mine.rev = revisions[t] + 1
  <2>. HIDE DEF base
  <2>. QED BY <1>1 DEF MarkRecords
<1>3. ask \in ReadRecords /\ ask.of = t /\ ask.gen = lastGen + 1 /\ ask.news = None
  BY DEF ReadRecords
<1>4. badge' \in [Chats -> Counts] /\ \A c \in Chats : badge'[c] \in {0, counts[c]}
  OBVIOUS
<1>5. /\ revision' \in [Chats -> Nat] /\ revision'[t] = revisions[t] + 1
      /\ \A c \in Chats \ {t} : revision'[c] = revisions[c]
  OBVIOUS
<1>6. lastGen' = lastGen + 1 /\ mark' = [marks EXCEPT ![t] = mine] /\ reads' = pending \cup {ask}
  OBVIOUS
<1>. HIDE DEF mine, ask
<1>7. /\ mark' \in [Chats -> MarkRecords] /\ mark'[t] = mine
      /\ \A c \in Chats \ {t} : mark'[c] = marks[c]
  BY <1>2, <1>6
<1>8. reads' \subseteq ReadRecords
  BY <1>3, <1>6
<1>9. MarksKnow'
  BY <1>2, <1>5, <1>7 DEF MarksKnow
<1>10. ReadsKnow'
  <2>. SUFFICES ASSUME NEW r \in reads'
                PROVE  /\ r.gen \in 1..lastGen'
                       /\ r.news # None /\ mark'[r.of].gen = r.gen /\ mark'[r.of].rev = revision'[r.of]
                          => r.news = 0 /\ mark'[r.of].confirmed
    BY DEF ReadsKnow, MayApply
  <2>1. CASE r = ask
    BY <1>3, <1>6, <2>1
  <2>2. CASE r \in pending /\ r.of = t
    BY <1>2, <1>6, <1>7, <2>2
  <2>3. CASE r \in pending /\ r.of # t
    <3>1. r.of \in Chats
      BY <2>3 DEF ReadRecords
    <3>. QED BY <3>1, <1>5, <1>6, <1>7, <2>3
  <2>. QED BY <1>6, <2>1, <2>2, <2>3
<1>. QED BY <1>4, <1>5, <1>6, <1>7, <1>8, <1>9, <1>10

\* The requests that were told keep their kinds and generations.
LEMMA ToldAre ==
  ASSUME RequestTypes, NEW t \in Chats, NEW count \in Counts
  PROVE  /\ Told(t, count) \subseteq ReadRecords
         /\ \A r \in Told(t, count) : \E s \in reads :
              r.of = s.of /\ r.gen = s.gen /\ r.news = IF s.of = t THEN count ELSE s.news
         /\ ToldLists(t) \subseteq ListRecords
         /\ \A l \in ToldLists(t) : \E k \in lists : l.kind = k.kind /\ l.news = k.news \cup {t}
<1>. USE DEF RequestTypes
<1>1. ASSUME NEW s \in reads
      PROVE  LET r == IF s.of = t THEN [s EXCEPT !.news = count] ELSE s IN
             r \in ReadRecords /\ r.of = s.of /\ r.gen = s.gen /\ r.news = IF s.of = t THEN count ELSE s.news
  BY DEF ReadRecords
<1>2. ASSUME NEW k \in lists
      PROVE  LET l == [k EXCEPT !.news = @ \cup {t}] IN
             l \in ListRecords /\ l.kind = k.kind /\ l.news = k.news \cup {t}
  BY DEF ListRecords
<1>3. Told(t, count) \subseteq ReadRecords
         /\ \A r \in Told(t, count) : \E s \in reads :
              r.of = s.of /\ r.gen = s.gen /\ r.news = IF s.of = t THEN count ELSE s.news
  BY <1>1 DEF Told
<1>4. ToldLists(t) \subseteq ListRecords
         /\ \A l \in ToldLists(t) : \E k \in lists : l.kind = k.kind /\ l.news = k.news \cup {t}
  BY <1>2 DEF ToldLists
<1>. QED BY <1>3, <1>4

\* The answer or the failure of a read mark.
LEMMA ReadEnds ==
  ASSUME ListInv, NEW r \in reads, AnswerRead(r) \/ FailRead(r)
  PROVE  ListInv'
<1>. USE NoCounts DEF ListInv
<1>0. /\ r \in ReadRecords /\ r.of \in Chats /\ badge \in [Chats -> Counts] /\ mark \in [Chats -> MarkRecords]
      /\ mark[r.of] \in MarkRecords /\ reads \subseteq ReadRecords
  BY DEF ListTabTypes, RequestTypes, ReadRecords
<1>1. /\ reads' = reads \ {r}
      /\ UNCHANGED <<opened, list, revision, lastGen, lists, unreadIds, updates, unread, alive, used>>
  BY DEF AnswerRead, FailRead
<1>2. NoMark \in MarkRecords /\ NoMark.rev = 0 /\ NoMark.gen = 0
  BY DEF NoMark, MarkRecords
<1>3. /\ mark' \in [Chats -> MarkRecords]
      /\ \A c \in Chats : mark'[c] = mark[c] \/ mark'[c] = NoMark
  <2>1. mark' \in {mark, [mark EXCEPT ![r.of] = NoMark]}
    BY DEF AnswerRead, FailRead
  <2>. HIDE DEF NoMark
  <2>. QED BY <2>1, <1>0, <1>2
<1>4. /\ badge' \in [Chats -> Counts]
      /\ \A c \in Chats \ list : badge'[c] = badge[c] \/ badge'[c] = 0
  <2>1. mark[r.of].base \in Counts /\ badge[r.of] \in Counts
    BY <1>0 DEF MarkRecords
  <2>2. CASE AnswerRead(r)
    BY <2>2, <1>0 DEF AnswerRead
  <2>3. CASE FailRead(r)
    BY <2>1, <2>3, <1>0 DEF FailRead
  <2>. QED BY <2>2, <2>3
<1>5. ListTabTypes' /\ RequestTypes' /\ ListServerTypes'
  BY <1>1, <1>3, <1>4 DEF ListTabTypes, RequestTypes, ListServerTypes
<1>6. MarksKnow' /\ ListsKnow'
  <2>1. revision' = revision /\ lists' = lists /\ \A c \in Chats : revision[c] >= 0 /\ mark[c].rev <= revision[c]
    BY <1>1 DEF MarksKnow, ListTabTypes
  <2>2. ListsKnow'
    BY <2>1 DEF ListsKnow
  <2>3. \A c \in Chats : mark'[c].rev <= revision[c]
    BY ONLY <2>1, <1>2, <1>3
  <2>. QED BY <2>1, <2>2, <2>3 DEF MarksKnow
<1>7. ReadsKnow'
  <2>. SUFFICES ASSUME NEW s \in reads'
                PROVE  /\ s.gen \in 1..lastGen'
                       /\ s.news # None /\ mark'[s.of].gen = s.gen /\ mark'[s.of].rev = revision'[s.of]
                          => s.news = 0 /\ mark'[s.of].confirmed
    BY DEF ReadsKnow, MayApply
  <2>1. s \in reads /\ s.of \in Chats /\ s.gen \in 1..lastGen
    BY <1>0, <1>1 DEF ReadsKnow, ReadRecords
  <2>2. CASE mark'[s.of] = NoMark
    BY <2>1, <2>2, <1>1, <1>2
  <2>3. CASE mark'[s.of] = mark[s.of]
    BY <2>1, <2>3, <1>1 DEF ReadsKnow, MayApply
  <2>. QED BY <2>1, <2>2, <2>3, <1>3
<1>. QED BY <1>5, <1>6, <1>7

\* Requests that are served or answered without a word to the read marks.
LEMMA ServerTurns ==
  ASSUME ListInv,
         \/ \E r \in reads : ServeRead(r)
         \/ \E l \in lists : ServeList(l) \/ FailList(l) \/ \E t \in Chats : ServeUnread(l, t)
  PROVE  ListInv'
<1>. USE NoCounts DEF ListInv
<1>0. reads \subseteq ReadRecords /\ lists \subseteq ListRecords /\ unreadIds \subseteq Chats /\ list \subseteq Chats
      /\ updates \subseteq UpdateRecords /\ unread \in [Chats -> Counts] /\ used \in 0..MaxUsed
      /\ alive \subseteq Chats /\ opened \in Chats \cup {NoChat}
      /\ \A t \in Chats : unread[t] <= used + 1
  BY DEF ListTabTypes, RequestTypes, ListServerTypes
<1>1. ASSUME NEW r \in reads, ServeRead(r) PROVE ListInv'
  <2>. USE <1>1 DEF ServeRead
  <2>0. r \in ReadRecords
    BY <1>0
  <2>. DEFINE s == [r EXCEPT !.served = TRUE]
  <2>1. s \in ReadRecords /\ s.of = r.of /\ s.gen = r.gen /\ s.news = r.news
    BY ONLY <2>0 DEF ReadRecords
  <2>. HIDE DEF s
  <2>2. reads' = (reads \ {r}) \cup {s}
    BY DEF s
  <2>3. ListServerTypes'
    BY <1>0, <2>0 DEF ListServerTypes, UpdateRecords, ReadRecords
  <2>. QED BY <2>1, <2>2, <2>3, <1>0, TabStays
<1>2. ASSUME NEW l \in lists, ServeList(l) PROVE ListInv'
  <2>. USE <1>2 DEF ServeList
  <2>0. l \in ListRecords
    BY <1>0
  <2>. DEFINE g == [t \in Chats |-> IF t \in alive THEN unread[t] ELSE None]
              k == [l EXCEPT !.served = TRUE, !.got = g]
  <2>1. g \in [Chats -> Counts \cup {None}]
    BY <1>0
  <2>2. lists' = (lists \ {l}) \cup {k}
    OBVIOUS
  <2>. HIDE DEF g
  <2>3. k \in ListRecords /\ k.news = l.news
    BY ONLY <2>0, <2>1 DEF ListRecords
  <2>. HIDE DEF k
  <2>4. ListServerTypes'
    BY <1>0 DEF ListServerTypes
  <2>. QED BY <2>2, <2>3, <2>4, <1>0, TabStays
<1>3. ASSUME NEW l \in lists, FailList(l) PROVE ListInv'
  <2>. USE <1>3 DEF FailList
  <2>1. ListServerTypes'
    BY <1>0 DEF ListServerTypes
  <2>. QED BY <2>1, <1>0, TabStays
<1>4. ASSUME NEW l \in lists, NEW t \in Chats, ServeUnread(l, t) PROVE ListInv'
  <2>. USE <1>4 DEF ServeUnread, Tell
  <2>0. l \in ListRecords
    BY <1>0
  <2>. DEFINE k == [l EXCEPT !.served = TRUE]
  <2>1. k \in ListRecords /\ k.news = l.news
    BY ONLY <2>0 DEF ListRecords
  <2>2. lists' = (lists \ {l}) \cup {k}
    OBVIOUS
  <2>. HIDE DEF k
  <2>3. updates' \subseteq UpdateRecords
    BY <1>0 DEF UpdateRecords
  <2>4. unread' \in [Chats -> Counts] /\ \A x \in Chats : unread'[x] <= used' + 1
    BY <1>0
  <2>5. ListServerTypes'
    BY <1>0, <2>3, <2>4 DEF ListServerTypes
  <2>. QED BY <2>1, <2>2, <2>5, <1>0, TabStays
<1>. QED BY <1>1, <1>2, <1>3, <1>4

\* The answer of a list.
LEMMA ListTurns ==
  ASSUME ListInv, NEW l \in lists, AnswerList(l)
  PROVE  ListInv'
<1>. USE NoCounts DEF ListInv, AnswerList, refs
<1>0. l \in ListRecords /\ l.got \in [Chats -> Counts \cup {None}]
  BY DEF RequestTypes, ListRecords
<1>1. badge' \in [Chats -> Counts]
  BY <1>0 DEF ListTabTypes, Believes
<1>2. \A t \in Chats \ list' : badge'[t] = 0
  BY DEF ListTabTypes
<1>3. ListTabTypes' /\ RequestTypes' /\ ListServerTypes'
  BY <1>1, <1>2 DEF ListTabTypes, RequestTypes, ListServerTypes
<1>4. MarksKnow' /\ ReadsKnow' /\ ListsKnow'
  BY DEF MarksKnow, ReadsKnow, MayApply, ListsKnow
<1>. QED BY <1>3, <1>4

\* A conversation is picked, and read.
LEMMA PickTurns ==
  ASSUME ListInv, NEW t \in Chats, Pick(t)
  PROVE  ListInv'
<1>. USE NoCounts DEF ListInv, Pick, Uses
<1>1. /\ badge' \in [Chats -> Counts] /\ \A c \in Chats : badge'[c] \in {0, badge[c]}
      /\ revision' \in [Chats -> Nat] /\ \A c \in Chats : revision'[c] >= revision[c]
      /\ mark' \in [Chats -> MarkRecords] /\ lastGen' \in Nat
      /\ reads' \subseteq ReadRecords /\ MarksKnow' /\ ReadsKnow'
  <2>1. \A r \in reads :
          /\ r.gen \in 1..lastGen
          /\ r.of # t /\ r.news # None /\ mark[r.of].gen = r.gen /\ mark[r.of].rev = revision[r.of]
             => r.news = 0 /\ mark[r.of].confirmed
    BY DEF ReadsKnow, MayApply
  <2>2. /\ lastGen \in Nat /\ badge \in [Chats -> Counts] /\ revision \in [Chats -> Nat]
        /\ mark \in [Chats -> MarkRecords] /\ reads \subseteq ReadRecords
        /\ \A c \in Chats : mark[c].rev <= revision[c]
    BY DEF ListTabTypes, RequestTypes, MarksKnow
  <2>3. BeginRead(t, reads, badge, revision, mark)
    OBVIOUS
  <2>. QED BY ONLY <2>1, <2>2, <2>3, ReadBegins
<1>2. ListTabTypes'
  BY <1>1 DEF ListTabTypes
<1>3. RequestTypes'
  BY <1>1 DEF RequestTypes
<1>4. ListServerTypes'
  BY DEF ListServerTypes
<1>5. ListsKnow'
  BY <1>1 DEF ListsKnow, RequestTypes, ListRecords, ListTabTypes
<1>. QED BY <1>1, <1>2, <1>3, <1>4, <1>5

\* An event is heard.
LEMMA RingTurns ==
  ASSUME ListInv, NEW u \in updates, HearRing(u)
  PROVE  ListInv'
<1>. USE NoCounts DEF ListInv, HearRing, Hears
<1>. DEFINE t == u.of
            pending == Told(t, 0)
            revisions == [revision EXCEPT ![t] = @ + 1]
<1>0. t \in Chats /\ RequestTypes /\ 0 \in Counts
  BY DEF ListServerTypes, UpdateRecords
<1>1. /\ lastGen \in Nat /\ badge \in [Chats -> Counts] /\ revision \in [Chats -> Nat]
      /\ mark \in [Chats -> MarkRecords] /\ \A c \in Chats : mark[c].rev <= revision[c]
  BY DEF ListTabTypes, MarksKnow
<1>2. revisions \in [Chats -> Nat] /\ revisions[t] = revision[t] + 1
      /\ \A c \in Chats \ {t} : revisions[c] = revision[c]
  BY <1>0, <1>1
<1>3. BeginRead(t, pending, badge, revisions, mark)
  OBVIOUS
<1>4. /\ pending \subseteq ReadRecords
      /\ \A r \in pending : \E s \in reads :
           r.of = s.of /\ r.gen = s.gen /\ r.news = IF s.of = t THEN 0 ELSE s.news
  BY <1>0, ToldAre
<1>5. /\ ToldLists(t) \subseteq ListRecords
      /\ \A l \in ToldLists(t) : \E k \in lists : l.kind = k.kind /\ l.news = k.news \cup {t}
  BY <1>0, ToldAre
<1>5a. lists' = ToldLists(t)
  OBVIOUS
<1>. HIDE DEF t, pending, revisions
<1>6. \A r \in pending :
        /\ r.gen \in 1..lastGen
        /\ r.of # t /\ r.news # None /\ mark[r.of].gen = r.gen /\ mark[r.of].rev = revisions[r.of]
           => r.news = 0 /\ mark[r.of].confirmed
  <2>. SUFFICES ASSUME NEW r \in pending
                PROVE  /\ r.gen \in 1..lastGen
                       /\ r.of # t /\ r.news # None /\ mark[r.of].gen = r.gen /\ mark[r.of].rev = revisions[r.of]
                          => r.news = 0 /\ mark[r.of].confirmed
    OBVIOUS
  <2>1. PICK s \in reads : r.of = s.of /\ r.gen = s.gen /\ r.news = IF s.of = t THEN 0 ELSE s.news
    BY <1>4
  <2>2. s.of \in Chats
    BY DEF RequestTypes, ReadRecords
  <2>. QED BY <2>1, <2>2, <1>2 DEF ReadsKnow, MayApply
<1>7. \A c \in Chats : mark[c].rev <= revisions[c] /\ revision[c] <= revisions[c]
  <2>1. \A c \in Chats : mark[c].rev \in Nat /\ revision[c] \in Nat
    BY <1>1 DEF MarkRecords
  <2>. QED BY <1>0, <1>1, <1>2, <2>1
<1>8. /\ badge' \in [Chats -> Counts] /\ \A c \in Chats : badge'[c] \in {0, badge[c]}
      /\ revision' \in [Chats -> Nat] /\ \A c \in Chats : revision'[c] >= revisions[c]
      /\ mark' \in [Chats -> MarkRecords] /\ lastGen' \in Nat
      /\ reads' \subseteq ReadRecords /\ MarksKnow' /\ ReadsKnow'
  BY ONLY <1>0, <1>1, <1>2, <1>3, <1>4, <1>6, <1>7, ReadBegins
<1>9. ListTabTypes'
  BY <1>8 DEF ListTabTypes
<1>10. RequestTypes'
  BY <1>8, <1>5, <1>5a DEF RequestTypes
<1>11. ListServerTypes'
  BY DEF ListServerTypes
<1>12. ListsKnow'
  <2>. SUFFICES ASSUME NEW l \in lists', NEW c \in l.news PROVE revision'[c] > 0
    BY DEF ListsKnow
  <2>1. PICK k \in lists : l.news = k.news \cup {t}
    BY <1>5, <1>5a
  <2>2. k.news \subseteq Chats
    BY DEF RequestTypes, ListRecords
  <2>3. c \in Chats /\ (c = t \/ revision[c] > 0)
    BY <2>1, <2>2, <1>0 DEF ListsKnow
  <2>. QED BY <2>3, <1>0, <1>1, <1>2, <1>7, <1>8
<1>. QED BY <1>8, <1>9, <1>10, <1>11, <1>12

LEMMA UpdateTurns ==
  ASSUME ListInv, NEW u \in updates, HearUpdate(u)
  PROVE  ListInv'
<1>. USE NoCounts DEF ListInv, HearUpdate, Hears
<1>00. u.of \in Chats /\ u.count \in Counts
  BY DEF ListServerTypes, UpdateRecords
<1>01. PICK t \in Chats : t = u.of
  BY <1>00
<1>02. PICK n \in Counts : n = u.count
  BY <1>00
<1>. DEFINE pending == Told(t, n)
            counts == [badge EXCEPT ![t] = n]
            revisions == [revision EXCEPT ![t] = @ + 1]
            marks == Confirmed(u)
<1>0. RequestTypes
  OBVIOUS
<1>1. /\ lastGen \in Nat /\ badge \in [Chats -> Counts] /\ revision \in [Chats -> Nat]
      /\ mark \in [Chats -> MarkRecords] /\ \A c \in Chats : mark[c].rev <= revision[c]
      /\ mark[t] \in MarkRecords
  BY DEF ListTabTypes, MarksKnow
<1>2. revisions \in [Chats -> Nat] /\ revisions[t] = revision[t] + 1
      /\ \A c \in Chats \ {t} : revisions[c] = revision[c]
  BY <1>1
<1>3. counts \in [Chats -> Counts] /\ \A c \in Chats \ {t} : counts[c] = badge[c]
  BY <1>1
<1>4. /\ pending \subseteq ReadRecords
      /\ \A r \in pending : \E s \in reads :
           r.of = s.of /\ r.gen = s.gen /\ r.news = IF s.of = t THEN n ELSE s.news
  BY <1>0, ToldAre
<1>5. /\ ToldLists(t) \subseteq ListRecords
      /\ \A l \in ToldLists(t) : \E k \in lists : l.kind = k.kind /\ l.news = k.news \cup {t}
  BY <1>0, ToldAre
<1>6. /\ marks \in [Chats -> MarkRecords] /\ \A c \in Chats \ {t} : marks[c] = mark[c]
      /\ \/ marks[t] = mark[t] /\ (n # 0 \/ mark[t].gen = 0)
         \/ marks[t].gen = mark[t].gen /\ marks[t].rev = revision[t] + 1 /\ marks[t].confirmed /\ n = 0
  <2>1. CASE n = 0 /\ mark[t].gen # 0
    <3>. DEFINE e == [gen |-> mark[t].gen, base |-> 0, rev |-> revision[t] + 1, confirmed |-> TRUE]
    <3>1. e \in MarkRecords
      BY <1>1 DEF MarkRecords
    <3>2. marks = [mark EXCEPT ![t].base = 0, ![t].rev = revision[t] + 1, ![t].confirmed = TRUE]
      BY <2>1, <1>01, <1>02 DEF Confirmed
    <3>3. marks[t] = e
      BY <3>2, <1>1 DEF MarkRecords
    <3>4. marks = [c \in Chats |-> marks[c]] /\ \A c \in Chats \ {t} : marks[c] = mark[c]
      BY <3>2, <1>1
    <3>5. e.gen = mark[t].gen /\ e.rev = revision[t] + 1 /\ e.confirmed
      OBVIOUS
    <3>. HIDE DEF e, marks
    <3>. QED BY <2>1, <3>1, <3>3, <3>4, <3>5, <1>1
  <2>2. CASE n # 0 \/ mark[t].gen = 0
    BY <2>2, <1>01, <1>02, <1>1 DEF Confirmed
  <2>. QED BY <2>1, <2>2
<1>7. /\ lists' = ToldLists(t) /\ list' = list \cup {t} /\ UNCHANGED <<opened, unread, alive, used>>
      /\ updates' = updates \ {u}
  BY <1>01
<1>8. \/ /\ BeginRead(t, pending, counts, revisions, marks) /\ UNCHANGED unreadIds
      \/ /\ badge' = counts /\ revision' = revisions /\ mark' = marks
         /\ reads' = pending /\ UNCHANGED lastGen
         /\ unreadIds' \subseteq unreadIds
  BY <1>01, <1>02
<1>. HIDE DEF pending, counts, revisions, marks
<1>9. ASSUME NEW r \in pending
      PROVE  /\ r.gen \in 1..lastGen /\ r.of \in Chats
             /\ r.news # None /\ marks[r.of].gen = r.gen /\ marks[r.of].rev = revisions[r.of]
                => r.news = 0 /\ marks[r.of].confirmed
  <2>1. PICK s \in reads : r.of = s.of /\ r.gen = s.gen /\ r.news = IF s.of = t THEN n ELSE s.news
    BY <1>4
  <2>2. s.of \in Chats /\ s.gen \in 1..lastGen
    BY DEF RequestTypes, ReadRecords, ReadsKnow
  <2>3. CASE s.of # t
    BY <2>1, <2>2, <2>3, <1>2, <1>6 DEF ReadsKnow, MayApply
  <2>4. CASE s.of = t
    <3>1. mark[t].rev \in Nat /\ revision[t] \in Nat /\ mark[t].rev <= revision[t]
      BY <1>1 DEF MarkRecords
    <3>2. s.gen # 0
      BY <2>2, <1>1
    <3>3. r.of = t /\ r.gen = s.gen /\ r.news = n
      BY <2>1, <2>4
    <3>4. CASE marks[t] = mark[t] /\ (n # 0 \/ mark[t].gen = 0)
      BY <2>2, <3>1, <3>2, <3>3, <3>4, <1>2
    <3>5. CASE marks[t].gen = mark[t].gen /\ marks[t].rev = revision[t] + 1 /\ marks[t].confirmed /\ n = 0
      BY <2>2, <3>3, <3>5
    <3>. QED BY <3>4, <3>5, <1>6
  <2>. QED BY <2>3, <2>4
<1>10. \A c \in Chats : marks[c].rev <= revisions[c] /\ revision[c] <= revisions[c]
  <2>1. \A c \in Chats : mark[c].rev \in Nat /\ revision[c] \in Nat
    BY <1>1 DEF MarkRecords
  <2>2. marks[t].rev <= revisions[t]
    BY <1>2, <1>6, <2>1, <1>1
  <2>3. \A c \in Chats \ {t} : marks[c].rev <= revisions[c]
    BY <1>1, <1>2, <1>6, <2>1
  <2>4. \A c \in Chats : revision[c] <= revisions[c]
    BY <1>2, <2>1
  <2>. QED BY <2>2, <2>3, <2>4
<1>11. /\ badge' \in [Chats -> Counts] /\ \A c \in Chats : badge'[c] \in {0, counts[c]}
       /\ revision' \in [Chats -> Nat] /\ \A c \in Chats : revision'[c] >= revisions[c]
       /\ mark' \in [Chats -> MarkRecords] /\ lastGen' \in Nat
       /\ reads' \subseteq ReadRecords /\ MarksKnow' /\ ReadsKnow'
  <2>1. CASE BeginRead(t, pending, counts, revisions, marks)
    BY ONLY <2>1, <1>1, <1>2, <1>3, <1>4, <1>6, <1>9, <1>10, ReadBegins
  <2>2. CASE /\ badge' = counts /\ revision' = revisions /\ mark' = marks
             /\ reads' = pending /\ UNCHANGED lastGen
    <3>1. MarksKnow'
      BY <2>2, <1>10 DEF MarksKnow
    <3>2. ReadsKnow'
      BY <2>2, <1>9 DEF ReadsKnow, MayApply
    <3>3. \A c \in Chats : revisions[c] >= revisions[c]
      BY <1>2
    <3>. QED BY <2>2, <3>1, <3>2, <3>3, <1>1, <1>2, <1>3, <1>4, <1>6
  <2>. QED BY <1>8, <2>1, <2>2
<1>12. ListTabTypes'
  <2>1. unreadIds' \subseteq Chats
    BY <1>8 DEF ListTabTypes
  <2>2. \A c \in Chats \ list' : badge'[c] = 0
    BY <1>3, <1>7, <1>11 DEF ListTabTypes
  <2>. QED BY <2>1, <2>2, <1>7, <1>11 DEF ListTabTypes
<1>13. RequestTypes'
  BY <1>11, <1>5, <1>7 DEF RequestTypes
<1>14. ListServerTypes'
  BY <1>7 DEF ListServerTypes
<1>15. ListsKnow'
  <2>. SUFFICES ASSUME NEW l \in lists', NEW c \in l.news PROVE revision'[c] > 0
    BY DEF ListsKnow
  <2>1. PICK k \in lists : l.news = k.news \cup {t}
    BY <1>5, <1>7
  <2>2. k.news \subseteq Chats
    BY DEF RequestTypes, ListRecords
  <2>3. c \in Chats /\ (c = t \/ revision[c] > 0)
    BY <2>1, <2>2 DEF ListsKnow
  <2>. QED BY <2>3, <1>1, <1>2, <1>10, <1>11
<1>. QED BY <1>11, <1>12, <1>13, <1>14, <1>15

LEMMA DeletedTurns ==
  ASSUME ListInv, NEW u \in updates, HearDeleted(u)
  PROVE  ListInv'
<1>. USE NoCounts DEF ListInv, HearDeleted, Hears, refs
<1>1. ListTabTypes'
  BY DEF ListTabTypes
<1>2. RequestTypes' /\ ListServerTypes'
  BY DEF RequestTypes, ListServerTypes
<1>3. MarksKnow' /\ ReadsKnow' /\ ListsKnow'
  BY DEF MarksKnow, ReadsKnow, MayApply, ListsKnow
<1>. QED BY <1>1, <1>2, <1>3

LEMMA ListMoves == ListInv /\ [ListNext]_listVars => ListInv'
<1>. SUFFICES ASSUME ListInv, [ListNext]_listVars PROVE ListInv'
  OBVIOUS
<1>1. CASE UNCHANGED listVars
  <2>1. ListServerTypes'
    BY <1>1 DEF ListInv, listVars, ListServerTypes
  <2>. QED BY <1>1, <2>1, TabStays DEF ListInv, listVars, ListTabTypes, RequestTypes
<1>2. CASE PeopleStep
  BY <1>2, PeopleTurn, PickTurns DEF PeopleStep
<1>3. CASE ListStep
  BY <1>3, ReadEnds, ServerTurns, ListTurns, RingTurns, UpdateTurns, DeletedTurns DEF ListStep
<1>. QED BY <1>1, <1>2, <1>3 DEF ListNext

LEMMA ListInvImplies == ListInv => ListTypeOK
  BY ListTypesAre DEF ListInv

\* What a step may do to the counts.
LEMMA NewsStays == ListInv /\ [ListNext]_listVars => NewsIsKept
<1>. SUFFICES ASSUME ListInv, [ListNext]_listVars PROVE NewsIsKept
  OBVIOUS
<1>. USE NoCounts DEF ListInv
<1>1. ASSUME NEW r \in reads, r.news # None, r.gen \notin {s.gen : s \in reads'}
      PROVE  badge'[r.of] \in {badge[r.of], r.news}
  <2>0. r \in ReadRecords /\ r.of \in Chats /\ badge \in [Chats -> Counts] /\ mark \in [Chats -> MarkRecords]
    BY DEF RequestTypes, ReadRecords, ListTabTypes
  <2>1. \A s \in reads' : s.gen # r.gen
    BY <1>1
  <2>2. ASSUME NEW s \in reads, AnswerRead(s) \/ FailRead(s) PROVE badge'[r.of] \in {badge[r.of], r.news}
    <3>1. r = s
      BY <2>1, <2>2 DEF AnswerRead, FailRead
    <3>2. MayApply(r) => r.news = 0 /\ mark[r.of].confirmed
      BY <1>1 DEF ReadsKnow
    <3>. QED BY <2>0, <2>2, <3>1, <3>2 DEF AnswerRead, FailRead, MayRestore
  <2>3. ASSUME NEW s \in reads, ServeRead(s) PROVE FALSE
    <3>1. s \in ReadRecords /\ [s EXCEPT !.served = TRUE].gen = s.gen
      BY DEF RequestTypes, ReadRecords
    <3>2. [s EXCEPT !.served = TRUE] \in reads' /\ (r = s \/ r \in reads')
      BY <2>3 DEF ServeRead
    <3>. QED BY <2>1, <3>1, <3>2
  <2>4. ASSUME reads \subseteq reads' PROVE FALSE
    BY <2>1, <2>4
  <2>5. ASSUME NEW t \in Chats, NEW n \in Counts, Told(t, n) \subseteq reads' PROVE FALSE
    <3>. DEFINE s == IF r.of = t THEN [r EXCEPT !.news = n] ELSE r
    <3>1. s \in Told(t, n)
      BY DEF Told
    <3>2. s.gen = r.gen
      BY <2>0 DEF ReadRecords
    <3>. HIDE DEF s
    <3>. QED BY <2>1, <2>5, <3>1, <3>2
  <2>6. \A u \in updates : u.of \in Chats
    BY DEF ListServerTypes, UpdateRecords
  <2>7. CASE UNCHANGED listVars
    BY <2>4, <2>7 DEF listVars
  <2>8. CASE PeopleStep
    BY <2>4, <2>8 DEF PeopleStep, ResumeList, Pick, BeginRead, AskUnread, CustomerWrites, ReadElsewhere,
       DeleteElsewhere
  <2>9. ASSUME NEW l \in lists, ServeList(l) \/ AnswerList(l) \/ FailList(l) \/ \E t \in Chats : ServeUnread(l, t)
        PROVE  FALSE
    BY <2>4, <2>9 DEF ServeList, AnswerList, FailList, ServeUnread
  <2>10. ASSUME NEW u \in updates, HearRing(u) PROVE FALSE
    BY <2>5, <2>6, <2>10 DEF HearRing, BeginRead
  <2>11. ASSUME NEW u \in updates, HearUpdate(u) PROVE FALSE
    BY <2>5, <2>6, <2>11 DEF HearUpdate, BeginRead
  <2>12. ASSUME NEW u \in updates, HearDeleted(u) PROVE FALSE
    BY <2>4, <2>12 DEF HearDeleted
  <2>. QED BY <2>2, <2>3, <2>7, <2>8, <2>9, <2>10, <2>11, <2>12 DEF ListNext, ListStep
<1>2. ASSUME NEW l \in lists, l.kind = "load", \A k \in lists' : k.kind # "load", NEW t \in l.news \cap list
      PROVE  badge'[t] = badge[t]
  <2>0. l \in ListRecords /\ t \in Chats /\ revision[t] > 0 /\ badge \in [Chats -> Counts]
    BY DEF RequestTypes, ListRecords, ListTabTypes, ListsKnow
  <2>1. ASSUME lists \subseteq lists' PROVE FALSE
    BY <1>2, <2>1
  <2>2. ASSUME NEW c \in Chats, lists' = ToldLists(c) PROVE FALSE
    <3>1. [l EXCEPT !.news = @ \cup {c}] \in lists' /\ [l EXCEPT !.news = @ \cup {c}].kind = "load"
      BY <2>0, <2>2, <1>2 DEF ToldLists, ListRecords
    <3>. QED BY <3>1, <1>2
  <2>3. ASSUME NEW k \in lists, AnswerList(k) \/ FailList(k) PROVE badge'[t] = badge[t]
    <3>1. k = l
      BY <2>3, <1>2 DEF AnswerList, FailList
    <3>2. ~Believes(l, t)
      BY <2>0, <1>2 DEF Believes, HasNewer
    <3>. QED BY <2>0, <2>3, <3>1, <3>2 DEF AnswerList, FailList
  <2>4. ASSUME NEW k \in lists, ServeList(k) PROVE FALSE
    <3>1. k \in ListRecords
      BY DEF RequestTypes
    <3>2. PICK g : g = [x \in Chats |-> IF x \in alive THEN unread[x] ELSE None]
      OBVIOUS
    <3>3. lists' = (lists \ {k}) \cup {[k EXCEPT !.served = TRUE, !.got = g]}
      BY <2>4, <3>2 DEF ServeList
    <3>4. [k EXCEPT !.served = TRUE, !.got = g].kind = k.kind
      BY ONLY <3>1 DEF ListRecords
    <3>. QED BY <1>2, <3>3, <3>4
  <2>5. ASSUME NEW k \in lists, NEW c \in Chats, ServeUnread(k, c) PROVE FALSE
    BY <1>2, <2>5 DEF ServeUnread
  <2>6. \A u \in updates : u.of \in Chats
    BY DEF ListServerTypes, UpdateRecords
  <2>7. CASE UNCHANGED listVars
    BY <2>1, <2>7 DEF listVars
  <2>8. CASE PeopleStep
    BY <2>1, <2>8 DEF PeopleStep, ResumeList, Pick, AskUnread, CustomerWrites, ReadElsewhere, DeleteElsewhere
  <2>9. ASSUME NEW r \in reads, ServeRead(r) \/ AnswerRead(r) \/ FailRead(r) PROVE FALSE
    BY <2>1, <2>9 DEF ServeRead, AnswerRead, FailRead
  <2>10. ASSUME NEW u \in updates, HearRing(u) \/ HearUpdate(u) PROVE FALSE
    BY <2>2, <2>6, <2>10 DEF HearRing, HearUpdate
  <2>11. ASSUME NEW u \in updates, HearDeleted(u) PROVE FALSE
    BY <2>1, <2>11 DEF HearDeleted
  <2>. QED BY <2>3, <2>4, <2>5, <2>7, <2>8, <2>9, <2>10, <2>11 DEF ListNext, ListStep
<1>. QED BY <1>1, <1>2 DEF NewsIsKept

\* The answer or the failure of an older read mark, or the list of the start,
\* does not undo the count of a later event (InboxPage.tsx:234).
THEOREM NewsIsNotLost == ListSpec => []ListInv /\ [][NewsIsKept]_listVars
<1>1. ListInit => ListInv
  BY ListStarts
<1>2. ListInv /\ [ListNext]_listVars => ListInv'
  BY ListMoves
<1>3. ListInv /\ [ListNext]_listVars => NewsIsKept
  BY NewsStays
<1>. QED BY <1>1, <1>2, <1>3, PTL DEF ListSpec

-----------------------------------------------------------------------------
(* The inbox as a whole: one component moves and the others stay.           *)

InboxInv == MessengerInv /\ BotInv /\ ZaloInv /\ ThreadInv /\ ListInv

LEMMA InboxStarts == InboxInit => InboxInv
  BY MessengerStarts, BotStarts, ZaloStarts, ThreadStarts, ListStarts DEF InboxInit, InboxInv

\* A step of the inbox is a step of each component, or leaves it alone.
LEMMA InboxSteps ==
  ASSUME [InboxNext]_inboxVars
  PROVE  /\ [MessengerNext]_messengerVars /\ [BotNext]_botVars /\ [ZaloNext]_zaloVars
         /\ [ThreadNext]_threadVars /\ [ListNext]_listVars
  BY DEF InboxNext, inboxVars

LEMMA InboxMoves == InboxInv /\ [InboxNext]_inboxVars => InboxInv'
  BY InboxSteps, MessengerStep, BotStep, ZaloStep, ThreadMoves, ListMoves DEF InboxInv

LEMMA InboxInvImplies == InboxInv => InboxIsTrue /\ ViewIsOfActive
<1>1. MessengerInv => MessengerTypeOK /\ UnreadIsExact /\ RepliesAreTrue
  BY DEF MessengerInv
<1>. QED BY <1>1, BotInvImplies, ZaloInvImplies, ThreadInvImplies, ListInvImplies
         DEF InboxInv, InboxIsTrue, InboxTypeOK

\* Whatever a platform delivers again, and whatever fails in between, a message
\* is stored, counted and answered once, and a reply in the inbox was sent: to
\* the customer it was written to or, after a change of the Zalo account, to a
\* friend of the new account who bears the customer's name
\* (facebook-messenger.webhook.ts:29, telegram.service.ts:22,
\* zalo-personal.service.ts:545, message.service.ts:363).
THEOREM InboxStaysTrue == InboxSpec => []InboxIsTrue
<1>. QED BY InboxStarts, InboxMoves, InboxInvImplies, PTL DEF InboxSpec

\* A late answer neither shows what belongs to another conversation, nor undoes
\* what an event has shown since (InboxPage.tsx:53 and :234, inbox-pins.ts:44).
THEOREM ViewStaysTrue == InboxSpec => ViewIsTrue
<1>1. InboxInv /\ [InboxNext]_inboxVars => [ViewIsOfActive' /\ LoadsRespectPins /\ NewsIsKept]_<<threadVars, listVars>>
  <2>. SUFFICES ASSUME InboxInv, [InboxNext]_inboxVars
                PROVE  ViewIsOfActive' /\ LoadsRespectPins /\ NewsIsKept
    OBVIOUS
  <2>1. InboxInv'
    BY InboxMoves
  <2>2. ViewIsOfActive'
    BY <2>1, InboxInvImplies, PTL
  <2>3. LoadsRespectPins /\ NewsIsKept
    BY InboxSteps, PinsRespected, NewsStays DEF InboxInv
  <2>. QED BY <2>2, <2>3
<1>. QED BY <1>1, InboxStarts, InboxMoves, PTL DEF InboxSpec, ViewIsTrue
=============================================================================
