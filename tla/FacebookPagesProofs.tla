-------------------------- MODULE FacebookPagesProofs --------------------------
(***************************************************************************)
(* The safety of FacebookPages for any number of owners, requests and      *)
(* OAuth tokens.                                                           *)
(***************************************************************************)
EXTENDS FacebookPages, FiniteSetTheorems, TLAPS

USE NobodyAssumption, TTLAssumption

(* What a request knows at its control point.                               *)

Knows(point, task) ==
  /\ point \in Connecting => task.owner \in Owners
  /\ point \in Removing => task.seen # NoPage /\ ~InTransition(task.seen)
  /\ point = "reserve" => ~InTransition(task.seen)
  /\ point \in {"release", "consume"} => task.via \in Tokens

JobInv == \A q \in Requests : Knows(at[q], job[q])

(* A document in transition belongs to the request that put it there, until *)
(* that ends; a call whose caller gave up leaves it in transition for good. *)

Unsubscribing == {"unsubscribe", "removeRejected", "delete"}
Subscribing == {"subscribe", "reject", "confirm"}
Reserved(q) == conn = Held(q, "subscribePending")

Holds(q) ==
  \/ at[q] \in Subscribing \cup {"confirmFailed"} /\ Reserved(q)
  \/ at[q] \in Unsubscribing

HoldInv ==
  /\ \A q \in Requests :
       /\ at[q] \in Subscribing => Reserved(q)
       /\ at[q] \in Unsubscribing => conn = RemovedDoc(q)
       /\ at[q] = "confirm" => subscribed
       /\ at[q] = "delete" => ~subscribed
  /\ \A p, q \in Requests : at[p] \in Unsubscribing /\ at[q] \in Unsubscribing => p = q
  /\ late # {} => InTransition(conn) /\ \A q \in Requests : ~Holds(q)
  /\ conn.state = "connected" => subscribed
  /\ conn = NoPage => ~subscribed

(* The claim of a selection is its user's, and outlives the selection.      *)

Uses(q, t) == job[q].via = t /\ at[q] \in Connecting
Blocked(t) == stored[t].ends <= clock \/ claim[t].ends >= stored[t].ends

SelectionOK(t) ==
  /\ stored[t].ends <= clock + StateTTL
  /\ wins[t] <= 1
  /\ wins[t] > 0 =>
       /\ Blocked(t)
       /\ \A q \in Requests :
            /\ ~Uses(q, t)
            /\ at[q] = "release" /\ job[q].via = t => claim[t].by # q
  /\ \A q \in Requests : Uses(q, t) => Blocked(t) /\ claim[t].by = q

SelectionInv == \A t \in Tokens : SelectionOK(t)

IInv == PagesTypeOK /\ JobInv /\ HoldInv /\ SelectionInv
-----------------------------------------------------------------------------
(* Types.                                                                   *)

Jobs == [owner : Owners \cup {Nobody}, via : Tokens \cup {Nobody}, seen : Documents]

\* One request moves.
Moves(q, point, task) ==
  /\ at' \in [Requests -> PagePoints] /\ job' \in [Requests -> Jobs]
  /\ at'[q] = point /\ job'[q] = task
  /\ \A r \in Requests \ {q} : at'[r] = at[r] /\ job'[r] = job[r]

LEMMA GoToMoves ==
  ASSUME PagesTypeOK, NEW q \in Requests, NEW point \in PagePoints, NEW task \in Jobs,
         GoTo(q, point, task)
  PROVE  Moves(q, point, task)
  BY DEF PagesTypeOK, GoTo, Moves, Jobs

LEMMA JobTypes ==
  ASSUME PagesTypeOK
  PROVE  /\ NoTask \in Jobs
         /\ \A q \in Requests : at[q] \in PagePoints /\ job[q] \in Jobs
         /\ \A q \in Requests, doc \in Documents : [job[q] EXCEPT !.seen = doc] \in Jobs
         /\ \A o \in Owners \cup {Nobody} : [NoTask EXCEPT !.owner = o] \in Jobs
         /\ \A o \in Owners, v \in Tokens \cup {Nobody}, doc \in Documents :
              [owner |-> o, via |-> v, seen |-> doc] \in Jobs
         /\ NoPage \in Documents /\ conn \in Documents
         /\ \A t \in Tokens : stored[t].owner \in Owners \cup {Nobody}
  BY DEF PagesTypeOK, Jobs, NoTask, Documents, NoPage

\* Where Fails leads.
LEMMA FailsMoves ==
  ASSUME PagesTypeOK, NEW q \in Requests, Fails(q)
  PROVE  /\ job[q].via = Nobody => Moves(q, "over", job[q])
         /\ job[q].via # Nobody => Moves(q, "release", job[q])
  BY JobTypes, GoToMoves DEF Fails, PagePoints

LEMMA EndsMoves ==
  ASSUME PagesTypeOK, NEW q \in Requests, Ends(q)
  PROVE  Moves(q, "over", NoTask)
  BY JobTypes, GoToMoves DEF Ends, PagePoints

LEMMA DocumentTypes ==
  ASSUME PagesTypeOK, JobInv, NEW q \in Requests
  PROVE  /\ at[q] \in Connecting =>
              \A state \in PageStates : Held(q, state) \in Documents /\ Held(q, state) # NoPage
         /\ at[q] \in Removing => RemovedDoc(q) \in Documents /\ RemovedDoc(q) # NoPage
         /\ at[q] \in Removing => RemovedDoc(q).state = "removePending"
<1>1. job[q] \in Jobs /\ (at[q] \in Connecting => job[q].owner \in Owners)
  BY JobTypes DEF JobInv, Knows
<1>2. at[q] \in Removing => job[q].seen \in [owner : Owners, state : PageStates, token : Requests]
  BY JobTypes DEF JobInv, Knows, Jobs, Documents
<1>3. \A doc \in [owner : Owners, state : PageStates, token : Requests] :
        LET d == [doc EXCEPT !.state = "removePending"]
        IN  d \in Documents /\ d # NoPage /\ d.state = "removePending"
  BY DEF Documents, NoPage, PageStates
<1>4. ASSUME at[q] \in Connecting, NEW state \in PageStates
      PROVE  Held(q, state) \in Documents /\ Held(q, state) # NoPage
  <2>1. job[q].owner \in Owners
    BY <1>1, <1>4
  <2>2. Held(q, state) \in [owner : Owners, state : PageStates, token : Requests]
    BY <1>4, <2>1 DEF Held
  <2>3. Held(q, state).owner # NoPage.owner
    BY <2>1 DEF Held, NoPage
  <2>. QED BY <2>2, <2>3 DEF Documents
<1>. QED BY <1>2, <1>3, <1>4 DEF RemovedDoc

\* Every step is one request's move, or leaves the requests where they are.
LEMMA TasksStep ==
  ASSUME PagesTypeOK, JobInv, [PagesNext]_pageVars
  PROVE  at' \in [Requests -> PagePoints] /\ job' \in [Requests -> Jobs]
<1>. DEFINE Typed == at' \in [Requests -> PagePoints] /\ job' \in [Requests -> Jobs]
<1>. USE JobTypes DEF PagePoints, Connecting, Removing
<1>1. \A q \in Requests, point \in PagePoints, task \in Jobs : GoTo(q, point, task) => Typed
  BY GoToMoves DEF Moves
<1>2. \A q \in Requests : Fails(q) \/ Ends(q) => Typed
  BY FailsMoves, EndsMoves DEF Moves
<1>3. UNCHANGED <<at, job>> => Typed
  BY DEF PagesTypeOK, Jobs
<1>. HIDE DEF Typed
<1>4. ASSUME NEW q \in Requests, OAuthStep(q) PROVE Typed
  <2>1. ASSUME NEW o \in Owners, NEW t \in Tokens, StartOAuth(q, o, t) PROVE Typed
    BY <2>1, <1>1, <1>2 DEF StartOAuth
  <2>2. ASSUME NEW o \in Owners, NEW t \in Tokens, ClaimSelection(q, o, t) PROVE Typed
    BY <2>2, <1>1, <1>2 DEF ClaimSelection
  <2>3. ASSUME NEW t \in Tokens, FinishOAuth(q, t) PROVE Typed
    BY <2>3, <1>1, <1>2 DEF FinishOAuth
  <2>4. ASSUME NEW t \in Tokens, SaveSelection(q, t) PROVE Typed
    BY <2>4, <1>1, <1>2 DEF SaveSelection
  <2>5. CASE ReleaseClaim(q)
    BY <2>5, <1>1, <1>2 DEF ReleaseClaim
  <2>6. CASE ConsumeClaim(q)
    BY <2>6, <1>1, <1>2 DEF ConsumeClaim
  <2>. QED BY <1>4, <2>1, <2>2, <2>3, <2>4, <2>5, <2>6 DEF OAuthStep
<1>5. ASSUME NEW q \in Requests, PageStep(q) PROVE Typed
  <2>1. ASSUME NEW o \in Owners, AskConnect(q, o) PROVE Typed
    BY <2>1, <1>1, <1>2 DEF AskConnect
  <2>2. ASSUME NEW o \in Owners, AskRemove(q, o) PROVE Typed
    BY <2>2, <1>1, <1>2 DEF AskRemove
  <2>3. CASE ReadOwn(q)
    BY <2>3, <1>1, <1>2 DEF ReadOwn
  <2>4. CASE ReadOther(q)
    BY <2>4, <1>1, <1>2 DEF ReadOther
  <2>5. CASE Reserve(q)
    BY <2>5, <1>1, <1>2 DEF Reserve
  <2>6. CASE Subscribe(q)
    BY <2>6, <1>1, <1>2 DEF Subscribe
  <2>7. CASE Reject(q)
    BY <2>7, <1>1, <1>2 DEF Reject
  <2>8. CASE Confirm(q)
    BY <2>8, <1>1, <1>2 DEF Confirm
  <2>9. CASE ConfirmFailed(q)
    BY <2>9, <1>1, <1>2 DEF ConfirmFailed
  <2>10. CASE ReserveRemoval(q)
    BY <2>10, <1>1, <1>2 DEF ReserveRemoval
  <2>11. CASE Unsubscribe(q)
    BY <2>11, <1>1, <1>2 DEF Unsubscribe
  <2>12. CASE RemoveRejected(q)
    BY <2>12, <1>1, <1>2 DEF RemoveRejected
  <2>13. CASE DeletePage(q)
    BY <2>13, <1>1, <1>2 DEF DeletePage
  <2>14. CASE CrashRequest(q)
    BY <2>14, <1>1, <1>2 DEF CrashRequest
  <2>. QED BY <1>5, <2>1, <2>2, <2>3, <2>4, <2>5, <2>6, <2>7, <2>8, <2>9, <2>10, <2>11, <2>12, <2>13, <2>14 DEF PageStep
<1>6. (\E call \in late : LateCall(call)) \/ PageTick \/ UNCHANGED pageVars => Typed
  BY <1>3 DEF LateCall, PageTick, pageVars
<1>. QED BY <1>4, <1>5, <1>6 DEF PagesNext, Typed

\* What every variable but at and job keeps.
DataTypes ==
  /\ conn \in Documents
  /\ subscribed \in BOOLEAN
  /\ late \in SUBSET {"subscribe", "unsubscribe"}
  /\ stored \in [Tokens -> [kind : {"none", "oauth", "selection"},
                            owner : Owners \cup {Nobody}, ends : Nat]]
  /\ claim \in [Tokens -> [by : Requests \cup {Nobody}, ends : Nat]]
  /\ clock \in 0..MaxNow
  /\ wins \in [Tokens -> Nat]

Values == [kind : {"none", "oauth", "selection"}, owner : Owners \cup {Nobody}, ends : Nat]
Claims == [by : Requests \cup {Nobody}, ends : Nat]

LEMMA RedisTypes ==
  ASSUME PagesTypeOK, NEW t \in Tokens
  PROVE  /\ clock \in Nat
         /\ \A v \in Values : [stored EXCEPT ![t] = v] \in [Tokens -> Values]
         /\ \A c \in Claims : [claim EXCEPT ![t] = c] \in [Tokens -> Claims]
         /\ \A kind \in {"oauth", "selection"}, o \in Owners \cup {Nobody} :
              Save(t, kind, o) => stored' \in [Tokens -> Values]
         /\ NoValue \in Values /\ NoClaim \in Claims /\ claim[t] \in Claims
<1>1. clock \in Nat /\ \A v \in Values : [stored EXCEPT ![t] = v] \in [Tokens -> Values]
  BY DEF PagesTypeOK, Values
<1>2. \A kind \in {"oauth", "selection"}, o \in Owners \cup {Nobody} :
        [kind |-> kind, owner |-> o, ends |-> clock + StateTTL] \in Values
  BY <1>1 DEF Values
<1>3. NoValue \in Values /\ NoClaim \in Claims /\ claim[t] \in Claims
  BY DEF PagesTypeOK, Values, Claims, NoValue, NoClaim
<1>4. \A c \in Claims : [claim EXCEPT ![t] = c] \in [Tokens -> Claims]
  BY DEF PagesTypeOK, Claims
<1>. QED BY <1>1, <1>2, <1>3, <1>4 DEF Save

LEMMA SettlesType ==
  ASSUME PagesTypeOK, NEW q \in Requests, NEW held \in Documents \ {NoPage},
         NEW state \in PageStates, Settles(q, held, state)
  PROVE  conn' \in Documents
  BY DEF PagesTypeOK, Settles, Documents, NoPage

LEMMA DataStep ==
  ASSUME PagesTypeOK, JobInv, [PagesNext]_pageVars
  PROVE  DataTypes'
<1>. USE JobTypes, DocumentTypes DEF Connecting, Removing, metaVars, redisVars
<1>1. DataTypes
  BY DEF PagesTypeOK, DataTypes
<1>2. \A q \in Requests : job[q].via \in Tokens \cup {Nobody} /\ job[q].owner \in Owners \cup {Nobody}
  BY DEF Jobs
<1>3. "rejected" \in PageStates /\ "confirmFailed" \in PageStates /\ "removeRetryable" \in PageStates
      /\ "connected" \in PageStates /\ "subscribePending" \in PageStates
  BY DEF PageStates
<1>4. ASSUME NEW q \in Requests, OAuthStep(q) PROVE DataTypes'
  <2>1. ASSUME NEW o \in Owners, NEW t \in Tokens, StartOAuth(q, o, t) PROVE DataTypes'
    BY <2>1, <1>1, <1>2, <1>3, RedisTypes DEF StartOAuth, DataTypes, Values, Claims
  <2>2. ASSUME NEW o \in Owners, NEW t \in Tokens, ClaimSelection(q, o, t) PROVE DataTypes'
    BY <2>2, <1>1, <1>2, <1>3 DEF ClaimSelection, DataTypes
  <2>3. ASSUME NEW t \in Tokens, FinishOAuth(q, t) PROVE DataTypes'
    BY <2>3, <1>1, <1>2, <1>3, RedisTypes DEF FinishOAuth, DataTypes, Values, Claims
  <2>4. ASSUME NEW t \in Tokens, SaveSelection(q, t) PROVE DataTypes'
    BY <2>4, <1>1, <1>2, <1>3, RedisTypes DEF SaveSelection, DataTypes, Values, Claims
  <2>5. CASE ReleaseClaim(q)
    BY <2>5, <1>1, <1>2, <1>3, RedisTypes DEF ReleaseClaim, DataTypes, Values, Claims
  <2>6. CASE ConsumeClaim(q)
    <3>1. job[q].via \in Tokens
      BY <2>6 DEF ConsumeClaim, JobInv, Knows
    <3>2. /\ [stored EXCEPT ![job[q].via] = NoValue] \in [Tokens -> Values]
          /\ [claim EXCEPT ![job[q].via] = NoClaim] \in [Tokens -> Claims]
      BY <3>1, RedisTypes
    <3>3. stored' \in [Tokens -> Values] /\ claim' \in [Tokens -> Claims]
      BY <2>6, <3>2, <1>1 DEF ConsumeClaim, DataTypes, Values, Claims
    <3>. QED BY <2>6, <3>3, <1>1 DEF ConsumeClaim, DataTypes, Values, Claims
  <2>. QED BY <1>4, <2>1, <2>2, <2>3, <2>4, <2>5, <2>6 DEF OAuthStep
<1>5. ASSUME NEW q \in Requests, PageStep(q) PROVE DataTypes'
  <2>1. ASSUME NEW o \in Owners, AskConnect(q, o) PROVE DataTypes'
    BY <2>1, <1>1, <1>2, <1>3 DEF AskConnect, DataTypes
  <2>2. ASSUME NEW o \in Owners, AskRemove(q, o) PROVE DataTypes'
    BY <2>2, <1>1, <1>2, <1>3 DEF AskRemove, DataTypes
  <2>3. CASE ReadOwn(q)
    BY <2>3, <1>1, <1>2, <1>3 DEF ReadOwn, DataTypes
  <2>4. CASE ReadOther(q)
    BY <2>4, <1>1, <1>2, <1>3 DEF ReadOther, DataTypes
  <2>5. CASE Reserve(q)
    BY <2>5, <1>1, <1>2, <1>3 DEF Reserve, DataTypes
  <2>6. CASE Subscribe(q)
    BY <2>6, <1>1, <1>2, <1>3 DEF Subscribe, DataTypes
  <2>7. CASE Reject(q)
    BY <2>7, <1>1, <1>2, <1>3, SettlesType DEF Reject, DataTypes
  <2>8. CASE Confirm(q)
    BY <2>8, <1>1, <1>2, <1>3 DEF Confirm, DataTypes
  <2>9. CASE ConfirmFailed(q)
    BY <2>9, <1>1, <1>2, <1>3, SettlesType DEF ConfirmFailed, DataTypes
  <2>10. CASE ReserveRemoval(q)
    BY <2>10, <1>1, <1>2, <1>3 DEF ReserveRemoval, DataTypes
  <2>11. CASE Unsubscribe(q)
    BY <2>11, <1>1, <1>2, <1>3 DEF Unsubscribe, DataTypes
  <2>12. CASE RemoveRejected(q)
    BY <2>12, <1>1, <1>2, <1>3, SettlesType DEF RemoveRejected, DataTypes
  <2>13. CASE DeletePage(q)
    BY <2>13, <1>1, <1>2, <1>3 DEF DeletePage, DataTypes
  <2>14. CASE CrashRequest(q)
    BY <2>14, <1>1, <1>2, <1>3 DEF CrashRequest, DataTypes
  <2>. QED BY <1>5, <2>1, <2>2, <2>3, <2>4, <2>5, <2>6, <2>7, <2>8, <2>9, <2>10, <2>11, <2>12, <2>13, <2>14 DEF PageStep
<1>6. (\E call \in late : LateCall(call)) \/ PageTick \/ UNCHANGED pageVars => DataTypes'
  <2>1. ASSUME NEW call \in late, LateCall(call) PROVE DataTypes'
    <3>1. subscribed' \in BOOLEAN
      BY <2>1 DEF LateCall
    <3>2. late' \in SUBSET {"subscribe", "unsubscribe"}
      BY <1>1, <2>1 DEF LateCall, DataTypes
    <3>. QED BY <1>1, <2>1, <3>1, <3>2 DEF LateCall, DataTypes
  <2>2. PageTick \/ UNCHANGED pageVars => DataTypes'
    BY <1>1 DEF PageTick, pageVars, DataTypes
  <2>. QED BY <2>1, <2>2
<1>. QED BY <1>4, <1>5, <1>6 DEF PagesNext

LEMMA TypesStep ==
  ASSUME PagesTypeOK, JobInv, [PagesNext]_pageVars
  PROVE  PagesTypeOK'
  BY TasksStep, DataStep DEF DataTypes, PagesTypeOK, Jobs
-----------------------------------------------------------------------------
(* What the requests know.                                                  *)

LEMMA JobStep ==
  ASSUME PagesTypeOK, JobInv, [PagesNext]_pageVars
  PROVE  JobInv'
<1>. USE JobTypes DEF PagePoints, Connecting, Removing
<1>1. ASSUME NEW q \in Requests, NEW point \in PagePoints, NEW task \in Jobs,
             GoTo(q, point, task), Knows(point, task)
      PROVE  JobInv'
  BY <1>1, GoToMoves DEF Moves, JobInv
<1>2. ASSUME NEW q \in Requests, Fails(q) \/ Ends(q)
      PROVE  JobInv'
  BY <1>2, FailsMoves, EndsMoves DEF Moves, JobInv, Knows, Jobs
<1>3. \A q \in Requests : Knows(at[q], job[q])
  BY DEF JobInv
<1>4. ASSUME NEW q \in Requests, OAuthStep(q) PROVE JobInv'
  <2>1. ASSUME NEW o \in Owners, NEW t \in Tokens, StartOAuth(q, o, t) PROVE JobInv'
    BY <2>1, <1>1, <1>2, <1>3 DEF StartOAuth, Knows
  <2>2. ASSUME NEW o \in Owners, NEW t \in Tokens, ClaimSelection(q, o, t) PROVE JobInv'
    BY <2>2, <1>1, <1>2, <1>3 DEF ClaimSelection, Knows
  <2>3. ASSUME NEW t \in Tokens, FinishOAuth(q, t) PROVE JobInv'
    BY <2>3, <1>1, <1>2, <1>3 DEF FinishOAuth, Knows
  <2>4. ASSUME NEW t \in Tokens, SaveSelection(q, t) PROVE JobInv'
    BY <2>4, <1>1, <1>2, <1>3 DEF SaveSelection, Knows
  <2>5. CASE ReleaseClaim(q)
    BY <2>5, <1>1, <1>2, <1>3 DEF ReleaseClaim, Knows
  <2>6. CASE ConsumeClaim(q)
    BY <2>6, <1>1, <1>2, <1>3 DEF ConsumeClaim, Knows
  <2>. QED BY <1>4, <2>1, <2>2, <2>3, <2>4, <2>5, <2>6 DEF OAuthStep
<1>5. ASSUME NEW q \in Requests, PageStep(q) PROVE JobInv'
  <2>1. ASSUME NEW o \in Owners, AskConnect(q, o) PROVE JobInv'
    BY <2>1, <1>1, <1>2, <1>3 DEF AskConnect, Knows, NoTask
  <2>2. ASSUME NEW o \in Owners, AskRemove(q, o) PROVE JobInv'
    BY <2>2, <1>1, <1>2, <1>3 DEF AskRemove, MayRemove, Knows, NoPage
  <2>3. CASE ReadOwn(q)
    <3>1. PICK doc \in Documents : GoTo(q, "readOther", [job[q] EXCEPT !.seen = doc])
      BY <2>3 DEF ReadOwn
    <3>2. [job[q] EXCEPT !.seen = doc].owner = job[q].owner
      BY DEF Jobs
    <3>. QED BY <2>3, <3>1, <3>2, <1>1, <1>3 DEF ReadOwn, Knows
  <2>4. CASE ReadOther(q)
    BY <2>4, <1>1, <1>2, <1>3 DEF ReadOther, Knows
  <2>5. CASE Reserve(q)
    BY <2>5, <1>1, <1>2, <1>3 DEF Reserve, Knows
  <2>6. CASE Subscribe(q)
    BY <2>6, <1>1, <1>2, <1>3 DEF Subscribe, Knows
  <2>7. CASE Reject(q)
    BY <2>7, <1>1, <1>2, <1>3 DEF Reject, Knows
  <2>8. CASE Confirm(q)
    BY <2>8, <1>1, <1>2, <1>3 DEF Confirm, Knows, Jobs
  <2>9. CASE ConfirmFailed(q)
    BY <2>9, <1>1, <1>2, <1>3 DEF ConfirmFailed, Knows
  <2>10. CASE ReserveRemoval(q)
    BY <2>10, <1>1, <1>2, <1>3 DEF ReserveRemoval, Knows
  <2>11. CASE Unsubscribe(q)
    BY <2>11, <1>1, <1>2, <1>3 DEF Unsubscribe, Knows
  <2>12. CASE RemoveRejected(q)
    BY <2>12, <1>1, <1>2, <1>3 DEF RemoveRejected, Knows
  <2>13. CASE DeletePage(q)
    BY <2>13, <1>1, <1>2, <1>3 DEF DeletePage, Knows
  <2>14. CASE CrashRequest(q)
    BY <2>14, <1>1, <1>2, <1>3 DEF CrashRequest, Knows
  <2>. QED BY <1>5, <2>1, <2>2, <2>3, <2>4, <2>5, <2>6, <2>7, <2>8, <2>9, <2>10, <2>11, <2>12, <2>13, <2>14 DEF PageStep
<1>6. (\E call \in late : LateCall(call)) \/ PageTick \/ UNCHANGED pageVars => JobInv'
  BY DEF LateCall, PageTick, pageVars, JobInv
<1>. QED BY <1>4, <1>5, <1>6 DEF PagesNext
-----------------------------------------------------------------------------
(* Who holds the document.                                                  *)

\* Two requests never reserve one document.
LEMMA ReservationsDiffer ==
  ASSUME NEW p \in Requests, NEW q \in Requests, Reserved(p), Reserved(q)
  PROVE  p = q
<1>1. conn.token = p /\ conn.token = q
  BY DEF Reserved, Held
<1>. QED BY <1>1

LEMMA ReservedIsPending ==
  ASSUME PagesTypeOK, JobInv, HoldInv, NEW q \in Requests, Holds(q)
  PROVE  /\ late = {} /\ conn # NoPage /\ InTransition(conn)
         /\ at[q] \in Unsubscribing => conn.state = "removePending"
         /\ at[q] \notin Unsubscribing => conn.state = "subscribePending"
<1>1. CASE at[q] \in Unsubscribing
  <2>1. conn = RemovedDoc(q) /\ late = {}
    BY <1>1 DEF HoldInv, Holds
  <2>. QED BY <1>1, <2>1, DocumentTypes DEF Unsubscribing, Removing, InTransition
<1>2. CASE at[q] \notin Unsubscribing
  <2>1. conn = Held(q, "subscribePending") /\ late = {} /\ at[q] \in Connecting
    BY <1>2 DEF HoldInv, Holds, Reserved, Subscribing, Connecting
  <2>2. conn # NoPage
    BY <2>1, DocumentTypes DEF PageStates
  <2>. QED BY <1>2, <2>1, <2>2 DEF Held, InTransition
<1>. QED BY <1>1, <1>2

\* Only one request holds the document at a time.
LEMMA OneHolder ==
  ASSUME PagesTypeOK, JobInv, HoldInv, NEW p \in Requests, NEW q \in Requests, Holds(p), Holds(q)
  PROVE  p = q
<1>1. CASE at[p] \in Unsubscribing /\ at[q] \in Unsubscribing
  BY <1>1 DEF HoldInv
<1>2. CASE at[p] \notin Unsubscribing /\ at[q] \notin Unsubscribing
  BY <1>2, ReservationsDiffer DEF Holds
<1>3. CASE at[p] \in Unsubscribing <=> at[q] \notin Unsubscribing
  BY <1>3, ReservedIsPending
<1>. QED BY <1>1, <1>2, <1>3

\* What a request holds is no affair of the others.
LEMMA OthersStay ==
  ASSUME NEW q \in Requests, NEW point, NEW task, Moves(q, point, task),
         NEW r \in Requests \ {q}
  PROVE  /\ at'[r] = at[r] /\ job'[r] = job[r] /\ RemovedDoc(r)' = RemovedDoc(r)
         /\ conn' = conn => (Reserved(r)' <=> Reserved(r)) /\ (Holds(r)' <=> Holds(r))
  BY DEF Moves, Reserved, Held, RemovedDoc, Holds

\* A request that does not come to a call of Meta's disturbs nothing.
LEMMA QuietStep ==
  ASSUME PagesTypeOK, HoldInv, UNCHANGED <<conn, subscribed, late>>,
         NEW q \in Requests, NEW point, NEW task, Moves(q, point, task),
         point \notin Subscribing \cup Unsubscribing \cup {"confirmFailed"}
  PROVE  HoldInv'
<1>1. /\ at'[q] \notin Subscribing \cup Unsubscribing
      /\ ~Holds(q)'
  BY DEF Moves, Holds
<1>2. \A r \in Requests \ {q} : (Holds(r)' <=> Holds(r)) /\ (Reserved(r)' <=> Reserved(r))
                                /\ RemovedDoc(r)' = RemovedDoc(r) /\ at'[r] = at[r]
  BY OthersStay
<1>3. \A r \in Requests :
        /\ at'[r] \in Subscribing => Reserved(r)'
        /\ at'[r] \in Unsubscribing => conn' = RemovedDoc(r)'
        /\ at'[r] = "confirm" => subscribed'
        /\ at'[r] = "delete" => ~subscribed'
  BY <1>1, <1>2 DEF HoldInv, Subscribing, Unsubscribing
<1>4. \A p, r \in Requests : at'[p] \in Unsubscribing /\ at'[r] \in Unsubscribing => p = r
  BY <1>1, <1>2 DEF HoldInv
<1>5. late' # {} => InTransition(conn)' /\ \A r \in Requests : ~Holds(r)'
  BY <1>1, <1>2 DEF HoldInv, InTransition
<1>6. (conn'.state = "connected" => subscribed') /\ (conn' = NoPage => ~subscribed')
  BY DEF HoldInv
<1>. QED BY <1>3, <1>4, <1>5, <1>6 DEF HoldInv

\* A holder writes the document, or not, and lets go of it.
LEMMA LetGo ==
  ASSUME PagesTypeOK, JobInv, HoldInv, UNCHANGED <<subscribed, late>>,
         NEW q \in Requests, Holds(q), NEW point, NEW task, Moves(q, point, task),
         point \notin Subscribing \cup Unsubscribing,
         \/ conn' = conn
         \/ (conn'.state = "connected" => subscribed) /\ (conn' = NoPage => ~subscribed)
  PROVE  HoldInv'
<1>1. \A r \in Requests : at'[r] \notin Subscribing \cup Unsubscribing
  BY OneHolder DEF Moves, Holds, HoldInv
<1>2. late' = {}
  BY ReservedIsPending
<1>3. (conn'.state = "connected" => subscribed') /\ (conn' = NoPage => ~subscribed')
  BY DEF HoldInv
<1>. QED BY <1>1, <1>2, <1>3 DEF HoldInv, Subscribing, Unsubscribing

\* A request takes hold of a document that is not in transition.
LEMMA TakeHold ==
  ASSUME PagesTypeOK, JobInv, HoldInv, UNCHANGED <<subscribed, late>>,
         NEW q \in Requests, ~InTransition(conn), InTransition(conn'), conn' # NoPage,
         NEW point, NEW task, Moves(q, point, task),
         point \in Subscribing => Reserved(q)' /\ point # "confirm",
         point \in Unsubscribing => conn' = RemovedDoc(q)' /\ point # "delete"
  PROVE  HoldInv'
<1>1. \A r \in Requests : ~Holds(r)
  BY ReservedIsPending
<1>2. \A r \in Requests \ {q} : at'[r] \notin Subscribing \cup Unsubscribing
  BY <1>1, OthersStay DEF Holds, HoldInv
<1>3. late' = {}
  BY DEF HoldInv
<1>4. conn'.state # "connected"
  BY DEF InTransition
<1>5. /\ at'[q] \in Subscribing => Reserved(q)'
      /\ at'[q] \in Unsubscribing => conn' = RemovedDoc(q)'
      /\ at'[q] # "confirm" /\ at'[q] # "delete"
  BY DEF Moves, Subscribing, Unsubscribing
<1>6. \A r \in Requests : at'[r] # "confirm" /\ at'[r] # "delete"
  BY <1>2, <1>5 DEF Subscribing, Unsubscribing
<1>. QED BY <1>2, <1>3, <1>4, <1>5, <1>6 DEF HoldInv

\* Meta has answered the holder, which goes on.
LEMMA CallAnswered ==
  ASSUME PagesTypeOK, JobInv, HoldInv, UNCHANGED <<conn, late>>, NEW q \in Requests, Holds(q),
         NEW point, Moves(q, point, job[q]),
         \/ at[q] \in Subscribing /\ point \in Subscribing
         \/ at[q] \in Unsubscribing /\ point \in Unsubscribing,
         point = "confirm" => subscribed',
         point = "delete" => ~subscribed'
  PROVE  HoldInv'
<1>1. \A r \in Requests \ {q} : at'[r] \notin Subscribing \cup Unsubscribing
  BY OneHolder, OthersStay DEF Holds, HoldInv
<1>2. late' = {} /\ conn' # NoPage /\ conn'.state # "connected"
  BY ReservedIsPending DEF InTransition
<1>3. at'[q] = point /\ (Reserved(q)' <=> Reserved(q)) /\ RemovedDoc(q)' = RemovedDoc(q)
  BY DEF Moves, Reserved, Held, RemovedDoc
<1>4. /\ at'[q] \in Subscribing => Reserved(q)'
      /\ at'[q] \in Unsubscribing => conn' = RemovedDoc(q)'
      /\ at'[q] = "confirm" => subscribed'
      /\ at'[q] = "delete" => ~subscribed'
  BY <1>3 DEF HoldInv, Subscribing, Unsubscribing
<1>5. \A r \in Requests : r # q => at'[r] # "confirm" /\ at'[r] # "delete"
  BY <1>1 DEF Subscribing, Unsubscribing
<1>. QED BY <1>1, <1>2, <1>4, <1>5 DEF HoldInv

\* The holder gives up; Meta may still do what it was asked.
LEMMA MetaCallLost ==
  ASSUME PagesTypeOK, JobInv, HoldInv, UNCHANGED <<conn, subscribed>>, NEW q \in Requests, Holds(q),
         NEW point, NEW task, Moves(q, point, task),
         point \notin Subscribing \cup Unsubscribing \cup {"confirmFailed"}
  PROVE  HoldInv'
<1>1. \A r \in Requests : ~Holds(r)'
  <2>1. ~Holds(q)'
    BY DEF Moves, Holds
  <2>. QED BY <2>1, OneHolder, OthersStay
<1>2. conn' # NoPage /\ conn'.state # "connected" /\ InTransition(conn)'
  BY ReservedIsPending DEF InTransition
<1>3. \A r \in Requests : at'[r] \notin Subscribing \cup Unsubscribing
  <2>1. at'[q] \notin Subscribing \cup Unsubscribing
    BY DEF Moves
  <2>. QED BY <2>1, OneHolder, OthersStay DEF Holds, HoldInv
<1>. QED BY <1>1, <1>2, <1>3 DEF HoldInv, Subscribing, Unsubscribing

LEMMA HoldStep ==
  ASSUME PagesTypeOK, JobInv, HoldInv, [PagesNext]_pageVars
  PROVE  HoldInv'
<1>. USE JobTypes DEF PagePoints, Connecting, Removing, metaVars
<1>1. ASSUME NEW q \in Requests, NEW task \in Jobs, UNCHANGED <<conn, subscribed, late>>,
             NEW point \in {"over", "exchange", "readOwn", "release", "readOther",
                            "reserve", "remove"},
             GoTo(q, point, task)
      PROVE  HoldInv'
  BY <1>1, GoToMoves, QuietStep DEF Subscribing, Unsubscribing
<1>2. ASSUME NEW q \in Requests, Fails(q) \/ Ends(q), UNCHANGED <<conn, subscribed, late>>
      PROVE  HoldInv'
  BY <1>2, FailsMoves, EndsMoves, QuietStep DEF Subscribing, Unsubscribing
<1>3. \A q \in Requests : Knows(at[q], job[q])
  BY DEF JobInv
<1>6. \A q \in Requests : at[q] \in Connecting =>
        \A state \in {"rejected", "confirmFailed", "connected"} :
          Held(q, state) # NoPage /\ Held(q, state).state = state
  BY DocumentTypes DEF Held, PageStates
<1>4. ASSUME NEW q \in Requests, OAuthStep(q) PROVE HoldInv'
  <2>1. ASSUME NEW o \in Owners, NEW t \in Tokens, StartOAuth(q, o, t) PROVE HoldInv'
    BY <2>1, <1>1, <1>2 DEF StartOAuth
  <2>2. ASSUME NEW o \in Owners, NEW t \in Tokens, ClaimSelection(q, o, t) PROVE HoldInv'
    BY <2>2, <1>1, <1>2 DEF ClaimSelection
  <2>3. ASSUME NEW t \in Tokens, FinishOAuth(q, t) PROVE HoldInv'
    BY <2>3, <1>1, <1>2 DEF FinishOAuth
  <2>4. ASSUME NEW t \in Tokens, SaveSelection(q, t) PROVE HoldInv'
    BY <2>4, <1>1, <1>2 DEF SaveSelection
  <2>5. CASE ReleaseClaim(q)
    BY <2>5, <1>1, <1>2 DEF ReleaseClaim
  <2>6. CASE ConsumeClaim(q)
    BY <2>6, <1>1, <1>2 DEF ConsumeClaim
  <2>. QED BY <1>4, <2>1, <2>2, <2>3, <2>4, <2>5, <2>6 DEF OAuthStep
<1>5. ASSUME NEW q \in Requests, PageStep(q) PROVE HoldInv'
  <2>1. ASSUME NEW o \in Owners, AskConnect(q, o) PROVE HoldInv'
    BY <2>1, <1>1, <1>2 DEF AskConnect
  <2>2. ASSUME NEW o \in Owners, AskRemove(q, o) PROVE HoldInv'
    BY <2>2, <1>1, <1>2 DEF AskRemove
  <2>3. CASE ReadOwn(q)
    BY <2>3, <1>1, <1>2 DEF ReadOwn
  <2>4. CASE ReadOther(q)
    BY <2>4, <1>1, <1>2 DEF ReadOther
  <2>5. CASE Reserve(q)
    <3>0. ~InTransition(job[q].seen)
      BY <2>5, <1>3 DEF Reserve, Knows
    <3>1. CASE conn' = Held(q, "subscribePending") /\ Matches(q, job[q].seen)
      <4>1. conn' # NoPage /\ InTransition(conn')
        BY <2>5, <3>1, DocumentTypes DEF Held, Reserve, PageStates, InTransition
      <4>2. CASE GoTo(q, "subscribe", job[q])
        <5>1. Moves(q, "subscribe", job[q])
          BY <4>2, GoToMoves
        <5>2. Reserved(q)'
          BY <3>1, <5>1 DEF Moves, Reserved, Held
        <5>. QED BY <2>5, <3>0, <3>1, <4>1, <5>1, <5>2, TakeHold
             DEF Matches, Reserve, Subscribing, Unsubscribing
      <4>3. CASE Fails(q)
        BY <2>5, <3>0, <3>1, <4>1, <4>3, TakeHold, FailsMoves
           DEF Matches, Reserve, Subscribing, Unsubscribing
      <4>. QED BY <2>5, <4>2, <4>3, <3>1, <3>0 DEF Reserve, Matches
    <3>2. CASE UNCHANGED conn /\ (Fails(q) \/ GoTo(q, "readOwn", job[q]))
      BY <2>5, <3>2, <1>1, <1>2 DEF Reserve
    <3>. QED BY <2>5, <3>1, <3>2 DEF Reserve
  <2>6. CASE Subscribe(q)
    <3>1. at[q] = "subscribe" /\ Holds(q)
      BY <2>6 DEF Subscribe, HoldInv, Holds, Subscribing
    <3>2. CASE subscribed' = TRUE /\ GoTo(q, "confirm", job[q]) /\ UNCHANGED late
      BY <2>6, <3>1, <3>2, CallAnswered, GoToMoves DEF Subscribe, Subscribing
    <3>3. CASE GoTo(q, "reject", job[q]) /\ UNCHANGED metaVars
      BY <2>6, <3>1, <3>3, CallAnswered, GoToMoves DEF Subscribe, Subscribing
    <3>4. CASE late' = late \cup {"subscribe"} /\ Fails(q) /\ UNCHANGED subscribed
      BY <2>6, <3>1, <3>4, MetaCallLost, FailsMoves DEF Subscribe, Subscribing, Unsubscribing
    <3>. QED BY <2>6, <3>2, <3>3, <3>4 DEF Subscribe
  <2>7. CASE Reject(q)
    <3>1. Holds(q)
      BY <2>7 DEF Reject, HoldInv, Holds, Subscribing
    <3>2. conn' = conn \/ conn' = Held(q, "rejected")
      BY <2>7 DEF Reject, Settles, Held
    <3>. QED BY <2>7, <3>1, <3>2, <1>6, LetGo, FailsMoves DEF Reject, Subscribing, Unsubscribing
  <2>8. CASE Confirm(q)
    <3>1. Holds(q) /\ subscribed
      BY <2>8 DEF Confirm, HoldInv, Holds, Subscribing
    <3>2. conn' = conn \/ conn' = Held(q, "connected")
      BY <2>8 DEF Confirm
    <3>3. UNCHANGED <<subscribed, late>>
      BY <2>8 DEF Confirm
    <3>4. Fails(q) \/ Ends(q) \/ GoTo(q, "consume", job[q]) \/ GoTo(q, "confirmFailed", job[q])
      BY <2>8 DEF Confirm
    <3>5. \E point \in {"over", "release", "consume", "confirmFailed"}, task \in Jobs : Moves(q, point, task)
      BY <3>4, GoToMoves, FailsMoves, EndsMoves
    <3>6. conn' = NoPage => conn' = conn
      BY <2>8, <3>2, <1>6 DEF Confirm
    <3>. QED BY <3>1, <3>2, <3>3, <3>5, <3>6, LetGo DEF Subscribing, Unsubscribing
  <2>9. CASE ConfirmFailed(q)
    <3>1. CASE Holds(q)
      <4>1. conn' = conn \/ conn' = Held(q, "confirmFailed")
        BY <2>9 DEF ConfirmFailed, Settles, Held
      <4>. QED BY <2>9, <3>1, <4>1, <1>6, LetGo, FailsMoves DEF ConfirmFailed, Subscribing, Unsubscribing
    <3>2. CASE ~Holds(q)
      <4>1. UNCHANGED conn
        BY <2>9, <3>2 DEF ConfirmFailed, Settles, Matches, Holds, Reserved
      <4>. QED BY <2>9, <4>1, <1>2 DEF ConfirmFailed
    <3>. QED BY <3>1, <3>2
  <2>10. CASE ReserveRemoval(q)
    <3>0. ~InTransition(job[q].seen) /\ at[q] \in Removing
      BY <2>10, <1>3 DEF ReserveRemoval, Knows
    <3>1. CASE conn' = RemovedDoc(q) /\ Matches(q, job[q].seen)
      <4>1. conn' # NoPage /\ InTransition(conn')
        BY <2>10, <3>0, <3>1, DocumentTypes DEF InTransition
      <4>2. CASE GoTo(q, "unsubscribe", job[q])
        <5>1. Moves(q, "unsubscribe", job[q])
          BY <4>2, GoToMoves
        <5>2. RemovedDoc(q)' = RemovedDoc(q)
          BY <5>1 DEF Moves, RemovedDoc
        <5>. QED BY <2>10, <3>0, <3>1, <4>1, <5>1, <5>2, TakeHold
             DEF Matches, ReserveRemoval, Subscribing, Unsubscribing
      <4>3. CASE Ends(q)
        BY <2>10, <3>0, <3>1, <4>1, <4>3, TakeHold, EndsMoves
           DEF Matches, ReserveRemoval, Subscribing, Unsubscribing
      <4>. QED BY <2>10, <3>1, <4>2, <4>3 DEF ReserveRemoval
    <3>2. CASE UNCHANGED conn /\ Ends(q)
      BY <2>10, <3>2, <1>2 DEF ReserveRemoval
    <3>. QED BY <2>10, <3>1, <3>2 DEF ReserveRemoval
  <2>11. CASE Unsubscribe(q)
    <3>1. at[q] = "unsubscribe" /\ Holds(q)
      BY <2>11 DEF Unsubscribe, Holds, Unsubscribing
    <3>2. CASE subscribed' = FALSE /\ GoTo(q, "delete", job[q]) /\ UNCHANGED late
      BY <2>11, <3>1, <3>2, CallAnswered, GoToMoves DEF Unsubscribe, Unsubscribing
    <3>3. CASE GoTo(q, "removeRejected", job[q]) /\ UNCHANGED metaVars
      BY <2>11, <3>1, <3>3, CallAnswered, GoToMoves DEF Unsubscribe, Unsubscribing
    <3>4. CASE late' = late \cup {"unsubscribe"} /\ Ends(q) /\ UNCHANGED subscribed
      BY <2>11, <3>1, <3>4, MetaCallLost, EndsMoves DEF Unsubscribe, Subscribing, Unsubscribing
    <3>. QED BY <2>11, <3>2, <3>3, <3>4 DEF Unsubscribe
  <2>12. CASE RemoveRejected(q)
    <3>1. Holds(q) /\ at[q] \in Removing
      BY <2>12 DEF RemoveRejected, Holds, Unsubscribing
    <3>2. conn' = conn \/ conn' = [RemovedDoc(q) EXCEPT !.state = "removeRetryable"]
      BY <2>12 DEF RemoveRejected, Settles
    <3>3. RemovedDoc(q) \in [owner : Owners, state : PageStates, token : Requests]
      BY <3>1, DocumentTypes DEF Documents
    <3>4. \A doc \in [owner : Owners, state : PageStates, token : Requests] :
            LET d == [doc EXCEPT !.state = "removeRetryable"]
            IN  d.state = "removeRetryable" /\ d # NoPage
      BY DEF NoPage
    <3>. QED BY <2>12, <3>1, <3>2, <3>3, <3>4, LetGo, EndsMoves DEF RemoveRejected, Subscribing, Unsubscribing
  <2>13. CASE DeletePage(q)
    <3>1. Holds(q) /\ ~subscribed
      BY <2>13 DEF DeletePage, HoldInv, Holds, Unsubscribing
    <3>2. conn' = conn \/ conn' = NoPage
      BY <2>13 DEF DeletePage
    <3>. QED BY <2>13, <3>1, <3>2, LetGo, EndsMoves DEF DeletePage, NoPage, Subscribing, Unsubscribing
  <2>14. CASE CrashRequest(q)
    BY <2>14, <1>1, <1>2 DEF CrashRequest
  <2>. QED BY <1>5, <2>1, <2>2, <2>3, <2>4, <2>5, <2>6, <2>7, <2>8, <2>9, <2>10, <2>11, <2>12, <2>13, <2>14 DEF PageStep
<1>7. ASSUME NEW call \in late, LateCall(call) PROVE HoldInv'
  <2>1. InTransition(conn) /\ \A r \in Requests : ~Holds(r) /\ at[r] \notin Subscribing \cup Unsubscribing
    BY <1>7 DEF HoldInv, Holds
  <2>2. \A r \in Requests : ~Holds(r)' /\ at'[r] \notin Subscribing \cup Unsubscribing
    BY <1>7, <2>1 DEF LateCall, Holds, Reserved, Held
  <2>3. conn' # NoPage /\ conn'.state # "connected" /\ InTransition(conn)'
    BY <1>7, <2>1 DEF LateCall, InTransition, NoPage
  <2>. QED BY <2>2, <2>3 DEF HoldInv, Subscribing, Unsubscribing
<1>8. PageTick \/ UNCHANGED pageVars => HoldInv'
  BY DEF PageTick, pageVars, HoldInv, Holds, Reserved, Held, RemovedDoc
<1>. QED BY <1>4, <1>5, <1>7, <1>8 DEF PagesNext
-----------------------------------------------------------------------------
(* Selections.                                                              *)

\* No request begins to use the selection, or to release it unless it used it.
Calm(t) ==
  \A r \in Requests :
    /\ Uses(r, t)' => Uses(r, t)
    /\ at'[r] = "release" /\ job'[r].via = t
         => Uses(r, t) \/ (at[r] = "release" /\ job[r].via = t)

LEMMA MovesCalmly ==
  ASSUME NEW q \in Requests, NEW point, NEW task, Moves(q, point, task),
         \/ task.via = Nobody
         \/ task.via = job[q].via /\ at[q] \in Connecting
         \/ task.via = job[q].via /\ point \notin Connecting \cup {"release"}
  PROVE  \A t \in Tokens : Calm(t)
  BY DEF Moves, Calm, Uses

LEMMA SameToken ==
  ASSUME SelectionInv, NEW t \in Tokens, Calm(t), clock' = clock,
         stored'[t] = stored[t], claim'[t] = claim[t], wins'[t] = wins[t]
  PROVE  SelectionOK(t)'
  BY DEF SelectionInv, SelectionOK, Calm, Blocked

\* A step that touches one token only.
LEMMA OthersSame ==
  ASSUME SelectionInv, NEW t \in Tokens, SelectionOK(t)', clock' = clock,
         \A u \in Tokens \ {t} : /\ Calm(u)
                                 /\ stored'[u] = stored[u]
                                 /\ claim'[u] = claim[u] /\ wins'[u] = wins[u]
  PROVE  SelectionInv'
  BY SameToken DEF SelectionInv

\* What is stored under a fresh token nobody uses.
LEMMA SavedIsFree ==
  ASSUME PagesTypeOK, SelectionInv, NEW t \in Tokens, Calm(t), FreshToken(t),
         NEW kind, NEW o, Save(t, kind, o), UNCHANGED <<claim, clock, wins>>
  PROVE  SelectionOK(t)'
<1>1. stored'[t].ends = clock + StateTTL /\ wins[t] = 0 /\ \A r \in Requests : ~Uses(r, t)
  BY DEF Save, PagesTypeOK, FreshToken, Uses
<1>2. clock \in Nat
  BY DEF PagesTypeOK
<1>. QED BY <1>1, <1>2 DEF SelectionOK, Calm

LEMMA SelectionStep ==
  ASSUME PagesTypeOK, JobInv, SelectionInv, [PagesNext]_pageVars
  PROVE  SelectionInv'
<1>. USE JobTypes DEF PagePoints, Connecting, Removing, redisVars
<1>1. ASSUME NEW q \in Requests, UNCHANGED <<stored, claim, clock, wins>>,
             NEW point \in PagePoints, NEW task \in Jobs, GoTo(q, point, task),
             \/ task.via = Nobody
             \/ task.via = job[q].via /\ at[q] \in Connecting
             \/ task.via = job[q].via /\ point \notin Connecting \cup {"release"}
      PROVE  SelectionInv'
  <2>1. \A t \in Tokens : Calm(t)
    BY <1>1, GoToMoves, MovesCalmly
  <2>. QED BY <1>1, <2>1, SameToken DEF SelectionInv
<1>2. ASSUME NEW q \in Requests, UNCHANGED <<stored, claim, clock, wins>>,
             Ends(q) \/ (Fails(q) /\ at[q] \in Connecting)
      PROVE  SelectionInv'
  BY <1>2, <1>1 DEF Ends, Fails, NoTask
<1>3. /\ clock \in Nat
      /\ stored \in [Tokens -> Values] /\ claim \in [Tokens -> Claims] /\ wins \in [Tokens -> Nat]
      /\ \A t \in Tokens : stored[t].ends \in Nat /\ claim[t].ends \in Nat
  BY DEF PagesTypeOK, Values, Claims
<1>4. ASSUME NEW q \in Requests, OAuthStep(q) PROVE SelectionInv'
  <2>1. ASSUME NEW o \in Owners, NEW t \in Tokens, StartOAuth(q, o, t) PROVE SelectionInv'
    <3>1. \A u \in Tokens : Calm(u)
      BY <2>1, EndsMoves, MovesCalmly DEF StartOAuth, NoTask
    <3>2. SelectionOK(t)'
      BY <2>1, <3>1, SavedIsFree DEF StartOAuth
    <3>. QED BY <2>1, <3>1, <3>2, <1>3, OthersSame DEF StartOAuth, Save
  <2>2. ASSUME NEW o \in Owners, NEW t \in Tokens, ClaimSelection(q, o, t) PROVE SelectionInv'
    <3>1. at[q] = "new" /\ clock' = clock /\ wins' = wins /\ stored' = stored
      BY <2>2 DEF ClaimSelection
    <3>2. claim' = [claim EXCEPT ![t] = [by |-> q, ends |-> clock + ClaimTTL]]
      BY <2>2 DEF ClaimSelection
    <3>3. ~Blocked(t)
      BY <2>2, <1>3 DEF ClaimSelection, Live, ClaimIsFree, Blocked
    <3>4. PICK point \in {"over", "readOwn", "release"}, task \in Jobs :
            Moves(q, point, task) /\ task.via \in {t, Nobody}
      BY <2>2, GoToMoves, EndsMoves DEF ClaimSelection, NoTask
    <3>5. \A u \in Tokens \ {t} : Calm(u)
      BY <3>4 DEF Calm, Moves, Uses
    <3>6. SelectionOK(t)'
      <4>1. wins[t] = 0 /\ \A r \in Requests : ~Uses(r, t)
        BY <3>3, <1>3 DEF SelectionInv, SelectionOK
      <4>2. \A r \in Requests \ {q} : ~Uses(r, t)'
        BY <3>4, <4>1 DEF Moves, Uses
      <4>3. claim'[t].by = q /\ claim'[t].ends = clock + ClaimTTL
        BY <3>2, <1>3
      <4>4. Blocked(t)' /\ stored'[t].ends <= clock' + StateTTL
        BY <3>1, <4>3, <1>3 DEF SelectionInv, SelectionOK, Blocked
      <4>. QED BY <3>1, <4>1, <4>2, <4>3, <4>4 DEF SelectionOK
    <3>. QED BY <3>1, <3>2, <3>5, <3>6, <1>3, OthersSame
  <2>3. ASSUME NEW t \in Tokens, FinishOAuth(q, t) PROVE SelectionInv'
    <3>1. \A u \in Tokens : Calm(u)
      <4>1. CASE Ends(q)
        BY <2>3, <4>1, EndsMoves, MovesCalmly DEF FinishOAuth, NoTask
      <4>2. CASE GoTo(q, "exchange", [NoTask EXCEPT !.owner = stored[t].owner])
        BY <2>3, <4>2, GoToMoves, MovesCalmly DEF FinishOAuth, NoTask
      <4>. QED BY <2>3, <4>1, <4>2 DEF FinishOAuth
    <3>2. SelectionOK(t)'
      <4>1. stored'[t].ends = 0 /\ claim' = claim /\ wins' = wins /\ clock' = clock
        BY <2>3, <1>3 DEF FinishOAuth, NoValue
      <4>. QED BY <3>1, <4>1, <1>3 DEF SelectionInv, SelectionOK, Calm, Blocked
    <3>. QED BY <2>3, <3>1, <3>2, <1>3, OthersSame DEF FinishOAuth
  <2>4. ASSUME NEW t \in Tokens, SaveSelection(q, t) PROVE SelectionInv'
    <3>1. \A u \in Tokens : Calm(u)
      BY <2>4, EndsMoves, MovesCalmly DEF SaveSelection, NoTask
    <3>2. SelectionOK(t)'
      BY <2>4, <3>1, SavedIsFree DEF SaveSelection
    <3>. QED BY <2>4, <3>1, <3>2, <1>3, OthersSame DEF SaveSelection, Save
  <2>5. CASE ReleaseClaim(q)
    <3>0. PICK t \in Tokens : t = job[q].via
      BY <2>5 DEF ReleaseClaim, JobInv, Knows
    <3>1. at[q] = "release" /\ stored' = stored /\ wins' = wins /\ clock' = clock
      BY <2>5 DEF ReleaseClaim
    <3>2. \A u \in Tokens : Calm(u)
      BY <2>5, EndsMoves, MovesCalmly DEF ReleaseClaim, NoTask
    <3>3. CASE UNCHANGED claim
      BY <2>5, <3>1, <3>2, <3>3, SameToken DEF SelectionInv
    <3>4. CASE MyClaimKey(q) /\ claim' = [claim EXCEPT ![t] = NoClaim]
      <4>1. wins[t] = 0 /\ \A r \in Requests : ~Uses(r, t)
        BY <3>0, <3>1, <3>4, <1>3 DEF SelectionInv, SelectionOK, MyClaimKey, Uses
      <4>2. SelectionOK(t)'
        BY <3>1, <3>2, <4>1, <1>3 DEF SelectionInv, SelectionOK, Calm
      <4>. QED BY <3>1, <3>2, <3>4, <4>2, <1>3, OthersSame
    <3>5. CASE claim' = [claim EXCEPT ![t] = claim[t]]
      <4>1. UNCHANGED claim
        BY <3>5, <1>3
      <4>. QED BY <3>3, <4>1
    <3>. QED BY <2>5, <3>0, <3>3, <3>4, <3>5 DEF ReleaseClaim
  <2>6. CASE ConsumeClaim(q)
    <3>0. PICK t \in Tokens : t = job[q].via
      BY <2>6 DEF ConsumeClaim, JobInv, Knows
    <3>1. at[q] = "consume" /\ wins' = wins /\ clock' = clock
      BY <2>6 DEF ConsumeClaim
    <3>2. \A u \in Tokens : Calm(u)
      BY <2>6, EndsMoves, MovesCalmly DEF ConsumeClaim, NoTask
    <3>3. CASE UNCHANGED redisVars
      BY <2>6, <3>1, <3>2, <3>3, SameToken DEF SelectionInv
    <3>4. CASE /\ MyClaimKey(q)
               /\ stored' = [stored EXCEPT ![t] = NoValue]
               /\ claim' = [claim EXCEPT ![t] = NoClaim]
      <4>1. \A r \in Requests : ~Uses(r, t)
        BY <3>0, <3>1, <3>4, <1>3 DEF SelectionInv, SelectionOK, MyClaimKey, Uses, Connecting
      <4>2. stored'[t].ends = 0 /\ claim'[t].by = Nobody
        BY <3>1, <3>4, <1>3 DEF NoValue, NoClaim
      <4>3. SelectionOK(t)'
        BY <3>1, <3>2, <4>1, <4>2, <1>3 DEF SelectionInv, SelectionOK, Calm, Blocked
      <4>. QED BY <3>1, <3>2, <3>4, <4>3, <1>3, OthersSame
    <3>. QED BY <2>6, <3>0, <3>3, <3>4 DEF ConsumeClaim
  <2>. QED BY <1>4, <2>1, <2>2, <2>3, <2>4, <2>5, <2>6 DEF OAuthStep
<1>5. ASSUME NEW q \in Requests, PageStep(q) PROVE SelectionInv'
  <2>1. ASSUME NEW o \in Owners, AskConnect(q, o) PROVE SelectionInv'
    BY <2>1, <1>1, <1>2 DEF AskConnect, NoTask
  <2>2. ASSUME NEW o \in Owners, AskRemove(q, o) PROVE SelectionInv'
    BY <2>2, <1>1, <1>2 DEF AskRemove
  <2>3. CASE ReadOwn(q)
    <3>1. PICK doc \in Documents : GoTo(q, "readOther", [job[q] EXCEPT !.seen = doc])
      BY <2>3 DEF ReadOwn
    <3>2. [job[q] EXCEPT !.seen = doc].via = job[q].via
      BY DEF Jobs
    <3>. QED BY <2>3, <3>1, <3>2, <1>1 DEF ReadOwn
  <2>4. CASE ReadOther(q)
    BY <2>4, <1>1, <1>2 DEF ReadOther
  <2>5. CASE Reserve(q)
    BY <2>5, <1>1, <1>2 DEF Reserve
  <2>6. CASE Subscribe(q)
    BY <2>6, <1>1, <1>2 DEF Subscribe
  <2>7. CASE Reject(q)
    BY <2>7, <1>1, <1>2 DEF Reject
  <2>8. CASE Confirm(q)
    <3>1. at[q] = "confirm" /\ stored' = stored /\ claim' = claim /\ clock' = clock
      BY <2>8 DEF Confirm
    <3>2. CASE UNCHANGED wins /\ (Fails(q) \/ Ends(q) \/ GoTo(q, "confirmFailed", job[q]))
      BY <3>1, <3>2, <1>1, <1>2
    <3>3. CASE /\ job[q].via # Nobody
               /\ wins' = [wins EXCEPT ![job[q].via] = @ + 1]
               /\ GoTo(q, "consume", job[q])
      <4>1. PICK t \in Tokens : t = job[q].via
        BY <3>3 DEF Jobs
      <4>2. Moves(q, "consume", job[q])
        BY <3>3, GoToMoves
      <4>3. \A u \in Tokens : Calm(u)
        BY <4>2, MovesCalmly
      <4>4. Uses(q, t)
        BY <3>1, <4>1 DEF Uses
      <4>5. /\ wins[t] = 0 /\ stored[t].ends <= clock + StateTTL
            /\ Blocked(t) /\ claim[t].by = q /\ \A r \in Requests : Uses(r, t) => r = q
        BY <4>4, <1>3 DEF SelectionInv, SelectionOK
      <4>6. \A r \in Requests : ~Uses(r, t)' /\ (at'[r] = "release" => r # q)
        BY <4>2, <4>3, <4>5 DEF Calm, Moves, Uses
      <4>7. wins'[t] = 1
        BY <3>3, <4>1, <4>5, <1>3
      <4>8. SelectionOK(t)'
        BY <3>1, <4>5, <4>6, <4>7 DEF SelectionOK, Blocked
      <4>. QED BY <3>1, <3>3, <4>1, <4>3, <4>8, <1>3, OthersSame
    <3>. QED BY <2>8, <3>2, <3>3 DEF Confirm
  <2>9. CASE ConfirmFailed(q)
    BY <2>9, <1>1, <1>2 DEF ConfirmFailed
  <2>10. CASE ReserveRemoval(q)
    BY <2>10, <1>1, <1>2 DEF ReserveRemoval
  <2>11. CASE Unsubscribe(q)
    BY <2>11, <1>1, <1>2 DEF Unsubscribe
  <2>12. CASE RemoveRejected(q)
    BY <2>12, <1>1, <1>2 DEF RemoveRejected
  <2>13. CASE DeletePage(q)
    BY <2>13, <1>1, <1>2 DEF DeletePage
  <2>14. CASE CrashRequest(q)
    BY <2>14, <1>1, <1>2 DEF CrashRequest
  <2>. QED BY <1>5, <2>1, <2>2, <2>3, <2>4, <2>5, <2>6, <2>7, <2>8, <2>9, <2>10, <2>11, <2>12, <2>13, <2>14 DEF PageStep
<1>6. (\E call \in late : LateCall(call)) \/ UNCHANGED pageVars => SelectionInv'
  BY DEF LateCall, pageVars, SelectionInv, SelectionOK, Uses, Blocked
<1>7. ASSUME PageTick PROVE SelectionInv'
  BY <1>7, <1>3 DEF PageTick, SelectionInv, SelectionOK, Uses, Blocked
<1>. QED BY <1>4, <1>5, <1>6, <1>7 DEF PagesNext
-----------------------------------------------------------------------------
(* The theorems.                                                            *)

LEMMA PagesInitOK == PagesInit => IInv
<1>. SUFFICES ASSUME PagesInit PROVE IInv
  OBVIOUS
<1>1. \A t \in Tokens : stored[t] \in {NoValue} \cup Selections
  BY DEF PagesInit
<1>2. stored \in [Tokens -> [kind : {"none", "oauth", "selection"},
                             owner : Owners \cup {Nobody}, ends : Nat]]
      /\ \A t \in Tokens : stored[t].ends <= StateTTL
  BY <1>1 DEF PagesInit, NoValue, Selections
<1>3. claim \in [Tokens -> [by : Requests \cup {Nobody}, ends : Nat]]
  BY DEF PagesInit, NoClaim
<1>4. job \in [Requests -> Jobs]
  BY DEF PagesInit, NoTask, Jobs, Documents
<1>5. PagesTypeOK
  <2>0. conn \in Documents
    BY DEF PagesInit, Documents
  <2>1. clock \in 0..MaxNow
    BY DEF PagesInit
  <2>4. subscribed \in BOOLEAN
    BY DEF PagesInit
  <2>2. late \in SUBSET {"subscribe", "unsubscribe"} /\ wins \in [Tokens -> Nat]
    BY DEF PagesInit
  <2>3. at \in [Requests -> PagePoints]
    BY DEF PagesInit, PagePoints
  <2>. QED BY <1>2, <1>3, <1>4, <2>0, <2>1, <2>2, <2>3, <2>4 DEF PagesTypeOK, Jobs
<1>6. JobInv
  BY DEF PagesInit, JobInv, Knows, Connecting, Removing
<1>7. HoldInv
  BY DEF PagesInit, HoldInv, Holds, Subscribing, Unsubscribing, NoPage
<1>8. SelectionInv
  BY <1>2 DEF PagesInit, SelectionInv, SelectionOK, Uses, Connecting
<1>. QED BY <1>5, <1>6, <1>7, <1>8 DEF IInv

LEMMA PagesStepOK == IInv /\ [PagesNext]_pageVars => IInv'
  BY TypesStep, JobStep, HoldStep, SelectionStep DEF IInv

\* What the invariant says holds in every reachable state.
THEOREM PagesInductive == PagesSpec => []IInv
  BY PagesInitOK, PagesStepOK, PTL DEF PagesSpec

\* facebook-page.service.ts, connect and remove: a Page shown as connected is
\* subscribed at Meta with no call out that may end it, and a free one is silent.
THEOREM PagesMatchMeta == PagesSpec => []PageMatchesMeta
<1>1. IInv => PageMatchesMeta
  <2>. SUFFICES ASSUME IInv PROVE ConnectedIsSubscribed /\ FreePageIsSilent
    BY DEF PageMatchesMeta
  <2>1. ConnectedIsSubscribed
    BY DEF IInv, HoldInv, ConnectedIsSubscribed, InTransition
  <2>2. \A q \in Requests : at[q] \in {"subscribe", "unsubscribe"} => Holds(q)
    BY DEF IInv, HoldInv, Holds, Subscribing, Unsubscribing
  <2>3. conn = NoPage => \A q \in Requests : at[q] \notin {"subscribe", "unsubscribe"}
    BY <2>2, ReservedIsPending DEF IInv
  <2>4. conn = NoPage => ~subscribed /\ late = {}
    BY DEF IInv, HoldInv, InTransition, NoPage
  <2>. QED BY <2>1, <2>3, <2>4 DEF FreePageIsSilent
<1>. QED BY <1>1, PagesInductive, PTL

\* facebook-oauth.service.ts, select: a selection leads to one connect at a time
\* and to none after a success, whatever Redis answers and whoever dies.
THEOREM SelectionsAreUsedOnce == PagesSpec => []SelectionUsedOnce
<1>1. IInv => SelectionUsedOnce
  <2>. SUFFICES ASSUME IInv, NEW t \in Tokens
       PROVE  wins[t] + Cardinality({q \in Requests : job[q].via = t /\ at[q] \in Connecting}) <= 1
    BY DEF SelectionUsedOnce
  <2>. DEFINE Users == {q \in Requests : job[q].via = t /\ at[q] \in Connecting}
  <2>1. wins[t] \in Nat /\ SelectionOK(t)
    BY DEF IInv, PagesTypeOK, SelectionInv
  <2>2. Users \subseteq {claim[t].by}
    BY <2>1 DEF SelectionOK, Uses
  <2>3. Cardinality(Users) \in Nat /\ Cardinality(Users) <= 1
    <3>1. IsFiniteSet({claim[t].by}) /\ Cardinality({claim[t].by}) = 1
      BY FS_Singleton
    <3>. QED BY <2>2, <3>1, FS_Subset, FS_CardinalityType
  <2>4. wins[t] > 0 => Users = {}
    BY <2>1 DEF SelectionOK, Uses
  <2>5. Cardinality({}) = 0
    BY FS_EmptySet
  <2>6. CASE Users = {}
    <3>1. Cardinality(Users) = 0
      BY <2>5, <2>6
    <3>. QED BY <2>1, <3>1 DEF SelectionOK
  <2>7. CASE Users # {}
    <3>1. wins[t] = 0
      BY <2>1, <2>4, <2>7
    <3>. HIDE DEF Users
    <3>2. wins[t] + Cardinality(Users) <= 1
      BY <2>3, <3>1
    <3>. QED BY <3>2 DEF Users
  <2>. QED BY <2>6, <2>7
<1>. QED BY <1>1, PagesInductive, PTL
=============================================================================
