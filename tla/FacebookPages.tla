---------------------------- MODULE FacebookPages ----------------------------
(***************************************************************************)
(* The connection of one Facebook Page: facebook-page.service.ts connects  *)
(* and removes it in steps on MongoDB and at Meta, and the OAuth service   *)
(* hands out the Page through a state and a selection kept in Redis.       *)
(*                                                                         *)
(* Two workspace owners may try to get the same Page.  Other Pages have    *)
(* documents and subscriptions of their own.  status is "connected" just   *)
(* when lastErrorCode is null, so the two are one field here.  Every       *)
(* encryption of a Page token differs: a token is the request that stored  *)
(* it.  Names and avatars are left out.                                    *)
(***************************************************************************)
EXTENDS Naturals, FiniteSets

CONSTANTS
  Owners,    \* workspace owners
  Requests,  \* HTTP requests
  Tokens,    \* random tokens of the OAuth service
  Nobody,    \* no request, no owner
  StateTTL,  \* OAUTH_STATE_TTL_SECONDS, in ticks
  ClaimTTL,  \* OAUTH_SELECTION_CLAIM_TTL_SECONDS, in ticks
  MaxNow     \* bound: the clock stops here

ASSUME NobodyAssumption == Nobody \notin Requests \cup Owners \cup Tokens

\* A claim is made later than its selection and lives as long.
ASSUME TTLAssumption ==
  StateTTL \in Nat /\ ClaimTTL \in Nat /\ MaxNow \in Nat /\ StateTTL <= ClaimTTL

VARIABLES
  conn,       \* the FacebookPageConnection document
  subscribed, \* Meta delivers the Page's messages to us
  late,       \* calls that timed out here and that Meta may still carry out
  stored,     \* Redis: what is stored under a token
  claim,      \* Redis: the claim key of a token
  at, job,    \* a request: its control point and what it remembers
  clock,
  wins        \* history: the connects that succeeded with a selection

redisVars == <<stored, claim>>
metaVars == <<subscribed, late>>
pageVars == <<conn, metaVars, redisVars, at, job, clock, wins>>

NoPage == [owner |-> Nobody, state |-> "none", token |-> Nobody]
NoValue == [kind |-> "none", owner |-> Nobody, ends |-> 0]
NoClaim == [by |-> Nobody, ends |-> 0]
NoTask == [owner |-> Nobody, via |-> Nobody, seen |-> NoPage]

PageStates == {"connected", "subscribePending", "confirmFailed", "rejected",
               "removePending", "removeRetryable"}
Documents == {NoPage} \cup [owner : Owners, state : PageStates, token : Requests]
Connecting == {"readOwn", "readOther", "reserve", "subscribe", "reject", "confirm",
               "confirmFailed"}
Removing == {"remove", "unsubscribe", "removeRejected", "delete"}
PagePoints == Connecting \cup Removing \cup
              {"new", "exchange", "release", "consume", "over"}

\* The types of the documents, the Redis keys and the requests.
PagesTypeOK ==
  /\ conn \in Documents
  /\ subscribed \in BOOLEAN
  /\ late \in SUBSET {"subscribe", "unsubscribe"}
  /\ stored \in [Tokens -> [kind : {"none", "oauth", "selection"},
                            owner : Owners \cup {Nobody}, ends : Nat]]
  /\ claim \in [Tokens -> [by : Requests \cup {Nobody}, ends : Nat]]
  /\ at \in [Requests -> PagePoints]
  /\ job \in [Requests -> [owner : Owners \cup {Nobody}, via : Tokens \cup {Nobody},
                           seen : Documents]]
  /\ clock \in 0..MaxNow
  /\ wins \in [Tokens -> Nat]

\* Redis may hold a selection of a sign-in from before.
Selections == [kind : {"selection"}, owner : Owners, ends : {StateTTL}]

PagesInit ==
  /\ conn = NoPage
  /\ subscribed = FALSE
  /\ late = {}
  /\ stored \in [Tokens -> {NoValue} \cup Selections]
  /\ Cardinality({t \in Tokens : stored[t] # NoValue}) <= 1
  /\ claim = [t \in Tokens |-> NoClaim]
  /\ at = [q \in Requests |-> "new"]
  /\ job = [q \in Requests |-> NoTask]
  /\ clock = 0
  /\ wins = [t \in Tokens |-> 0]

GoTo(q, point, task) ==
  /\ at' = [at EXCEPT ![q] = point]
  /\ job' = [job EXCEPT ![q] = task]

\* A connect that fails releases the claim of its selection, if it has one.
Fails(q) == GoTo(q, IF job[q].via = Nobody THEN "over" ELSE "release", job[q])
Ends(q) == GoTo(q, "over", NoTask)

Held(q, state) == [owner |-> job[q].owner, state |-> state, token |-> q]

\* claimFilter: the document is the one that was read, or a later state of it.
Matches(q, doc) == conn = doc

InTransition(doc) == doc.state \in {"subscribePending", "removePending"}
-----------------------------------------------------------------------------
(* The OAuth service.                                                       *)

FreshToken(t) == stored[t] = NoValue /\ wins[t] = 0 /\ claim[t] = NoClaim
                 /\ \A q \in Requests : job[q].via # t
Save(t, kind, o) ==
  stored' = [stored EXCEPT ![t] = [kind |-> kind, owner |-> o, ends |-> clock + StateTTL]]
Live(t) == stored[t].kind # "none" /\ stored[t].ends > clock

\* start: the state that the callback must bring back.
StartOAuth(q, o, t) ==
  /\ at[q] = "new"
  /\ FreshToken(t)
  /\ Save(t, "oauth", o)
  /\ Ends(q)
  /\ UNCHANGED <<conn, metaVars, claim, clock, wins>>

\* finish: GETDEL of the state; what was stored under it must be a state.
FinishOAuth(q, t) ==
  /\ at[q] = "new"
  /\ Live(t)
  /\ stored' = [stored EXCEPT ![t] = NoValue]
  /\ IF stored[t].kind = "oauth"
     THEN GoTo(q, "exchange", [NoTask EXCEPT !.owner = stored[t].owner])
     ELSE Ends(q)
  /\ UNCHANGED <<conn, metaVars, claim, clock, wins>>

\* Graph has exchanged the code and listed the Pages.
SaveSelection(q, t) ==
  /\ at[q] = "exchange"
  /\ FreshToken(t)
  /\ Save(t, "selection", job[q].owner)
  /\ Ends(q)
  /\ UNCHANGED <<conn, metaVars, claim, clock, wins>>

\* As a mutant of ClaimIsFree: the claim key is overwritten (no NX).
ClaimIgnored(t) == claim[t].ends >= 0

ClaimIsFree(t) == claim[t].ends <= clock

\* CLAIM_SCRIPT.  An answer that misses the deadline leaves the claim behind:
\* the request does not know that it has it.  The claim of a foreign selection,
\* or of a Page that cannot message or that Graph refuses, is released.
ClaimSelection(q, o, t) ==
  /\ at[q] = "new"
  /\ Live(t)
  /\ ClaimIsFree(t)
  /\ claim' = [claim EXCEPT ![t] = [by |-> q, ends |-> clock + ClaimTTL]]
  /\ \/ Ends(q)
     \/ \E point \in {"readOwn", "release"} :
          /\ point = "readOwn" => stored[t].kind = "selection" /\ stored[t].owner = o
          /\ GoTo(q, point, [owner |-> o, via |-> t, seen |-> NoPage])
  /\ UNCHANGED <<conn, metaVars, stored, clock, wins>>

\* As a mutant of MyClaimKey: the key is deleted whoever holds it.
AnyClaimKey(q) == job[q].via \in Tokens

MyClaimKey(q) == claim[job[q].via].by = q

\* RELEASE_CLAIM_SCRIPT, best effort: it may run, or not.
ReleaseClaim(q) ==
  /\ at[q] = "release"
  /\ \/ claim' = [claim EXCEPT ![job[q].via] = IF MyClaimKey(q) THEN NoClaim ELSE @]
     \/ UNCHANGED claim
  /\ Ends(q)
  /\ UNCHANGED <<conn, metaVars, stored, clock, wins>>

\* CONSUME_CLAIM_SCRIPT, best effort as well.
ConsumeClaim(q) ==
  /\ at[q] = "consume"
  /\ \/ /\ MyClaimKey(q)
        /\ stored' = [stored EXCEPT ![job[q].via] = NoValue]
        /\ claim' = [claim EXCEPT ![job[q].via] = NoClaim]
     \/ UNCHANGED redisVars
  /\ Ends(q)
  /\ UNCHANGED <<conn, metaVars, clock, wins>>
-----------------------------------------------------------------------------
(* Connecting the Page.                                                     *)

\* With a Page token that was typed in.
AskConnect(q, o) ==
  /\ at[q] = "new"
  /\ GoTo(q, "readOwn", [NoTask EXCEPT !.owner = o])
  /\ UNCHANGED <<conn, metaVars, redisVars, clock, wins>>

ReadOwn(q) ==
  /\ at[q] = "readOwn"
  /\ GoTo(q, "readOther",
          [job[q] EXCEPT !.seen = IF conn.owner = job[q].owner THEN conn ELSE NoPage])
  /\ UNCHANGED <<conn, metaVars, redisVars, clock, wins>>

\* Another owner has the Page, or this owner's is being changed.
ReadOther(q) ==
  /\ at[q] = "readOther"
  /\ IF conn.owner \in Owners \ {job[q].owner} \/ InTransition(job[q].seen)
     THEN Fails(q)
     ELSE GoTo(q, "reserve", job[q])
  /\ UNCHANGED <<conn, metaVars, redisVars, clock, wins>>

\* The reservation: a conditional update of what was read, again from the
\* start when that changed; or a new document, unless one has come.  The
\* write may fail, done or not.
Reserve(q) ==
  /\ at[q] = "reserve"
  /\ \/ /\ Matches(q, job[q].seen)
        /\ conn' = Held(q, "subscribePending")
        /\ GoTo(q, "subscribe", job[q]) \/ Fails(q)
     \/ /\ ~Matches(q, job[q].seen)
        /\ IF job[q].seen # NoPage THEN GoTo(q, "readOwn", job[q]) ELSE Fails(q)
        /\ UNCHANGED conn
     \/ Fails(q) /\ UNCHANGED conn
  /\ UNCHANGED <<metaVars, redisVars, clock, wins>>

\* subscribePage: done; rejected for the token, the permission or the rate;
\* or nobody knows, and the reservation stays as it is.
Subscribe(q) ==
  /\ at[q] = "subscribe"
  /\ \/ subscribed' = TRUE /\ GoTo(q, "confirm", job[q]) /\ UNCHANGED late
     \/ GoTo(q, "reject", job[q]) /\ UNCHANGED metaVars
     \/ late' = late \cup {"subscribe"} /\ Fails(q) /\ UNCHANGED subscribed
  /\ UNCHANGED <<conn, redisVars, clock, wins>>

\* A conditional update of the document the request holds, whose failure is
\* ignored.
Settles(q, held, state) ==
  \/ conn' = IF Matches(q, held) THEN [held EXCEPT !.state = state] ELSE conn
  \/ UNCHANGED conn

Reject(q) ==
  /\ at[q] = "reject"
  /\ Settles(q, Held(q, "subscribePending"), "rejected")
  /\ Fails(q)
  /\ UNCHANGED <<metaVars, redisVars, clock, wins>>

Confirm(q) ==
  /\ at[q] = "confirm"
  /\ \/ /\ Matches(q, Held(q, "subscribePending"))
        /\ conn' = Held(q, "connected")
        /\ \/ /\ job[q].via = Nobody
              /\ Ends(q)
              /\ UNCHANGED wins
           \/ /\ job[q].via # Nobody
              /\ wins' = [wins EXCEPT ![job[q].via] = @ + 1]
              /\ GoTo(q, "consume", job[q])
           \/ GoTo(q, "confirmFailed", job[q]) /\ UNCHANGED wins
     \/ /\ ~Matches(q, Held(q, "subscribePending"))
        /\ Fails(q)
        /\ UNCHANGED <<conn, wins>>
     \/ GoTo(q, "confirmFailed", job[q]) /\ UNCHANGED <<conn, wins>>
  /\ UNCHANGED <<metaVars, redisVars, clock>>

ConfirmFailed(q) ==
  /\ at[q] = "confirmFailed"
  /\ Settles(q, Held(q, "subscribePending"), "confirmFailed")
  /\ Fails(q)
  /\ UNCHANGED <<metaVars, redisVars, clock, wins>>
-----------------------------------------------------------------------------
(* Removing it.                                                             *)

\* As a mutant of MayRemove: a pending subscription may be removed.
MayRemovePending(doc) == doc.state # "removePending"

MayRemove(doc) == ~InTransition(doc)

AskRemove(q, o) ==
  /\ at[q] = "new"
  /\ conn.owner = o
  /\ MayRemove(conn)
  /\ GoTo(q, "remove", [owner |-> o, via |-> Nobody, seen |-> conn])
  /\ UNCHANGED <<conn, metaVars, redisVars, clock, wins>>

RemovedDoc(q) == [job[q].seen EXCEPT !.state = "removePending"]

ReserveRemoval(q) ==
  /\ at[q] = "remove"
  /\ \/ /\ Matches(q, job[q].seen)
        /\ conn' = RemovedDoc(q)
        /\ GoTo(q, "unsubscribe", job[q]) \/ Ends(q)
     \/ Ends(q) /\ UNCHANGED conn
  /\ UNCHANGED <<metaVars, redisVars, clock, wins>>

Unsubscribe(q) ==
  /\ at[q] = "unsubscribe"
  /\ \/ subscribed' = FALSE /\ GoTo(q, "delete", job[q]) /\ UNCHANGED late
     \/ GoTo(q, "removeRejected", job[q]) /\ UNCHANGED metaVars
     \/ /\ late' = late \cup {"unsubscribe"}
        /\ Ends(q)
        /\ UNCHANGED subscribed
  /\ UNCHANGED <<conn, redisVars, clock, wins>>

RemoveRejected(q) ==
  /\ at[q] = "removeRejected"
  /\ Settles(q, RemovedDoc(q), "removeRetryable")
  /\ Ends(q)
  /\ UNCHANGED <<metaVars, redisVars, clock, wins>>

DeletePage(q) ==
  /\ at[q] = "delete"
  /\ \/ Matches(q, RemovedDoc(q)) /\ conn' = NoPage
     \/ UNCHANGED conn
  /\ Ends(q)
  /\ UNCHANGED <<metaVars, redisVars, clock, wins>>
-----------------------------------------------------------------------------
\* Meta carries out a call whose caller has given up.
LateCall(call) ==
  /\ call \in late
  /\ late' = late \ {call}
  /\ subscribed' = (call = "subscribe")
  /\ UNCHANGED <<conn, redisVars, at, job, clock, wins>>

\* The process dies.
CrashRequest(q) ==
  /\ at[q] \notin {"new", "over"}
  /\ Ends(q)
  /\ UNCHANGED <<conn, metaVars, redisVars, clock, wins>>

PageTick ==
  /\ clock < MaxNow
  /\ clock' = clock + 1
  /\ UNCHANGED <<conn, metaVars, redisVars, at, job, wins>>

OAuthStep(q) ==
  \/ \E t \in Tokens, o \in Owners : StartOAuth(q, o, t) \/ ClaimSelection(q, o, t)
  \/ \E t \in Tokens : FinishOAuth(q, t) \/ SaveSelection(q, t)
  \/ ReleaseClaim(q) \/ ConsumeClaim(q)

PageStep(q) ==
  \/ \E o \in Owners : AskConnect(q, o) \/ AskRemove(q, o)
  \/ ReadOwn(q) \/ ReadOther(q) \/ Reserve(q) \/ Subscribe(q) \/ Reject(q)
  \/ Confirm(q) \/ ConfirmFailed(q)
  \/ ReserveRemoval(q) \/ Unsubscribe(q) \/ RemoveRejected(q) \/ DeletePage(q)
  \/ CrashRequest(q)

PagesNext ==
  \/ \E q \in Requests : OAuthStep(q) \/ PageStep(q)
  \/ \E call \in late : LateCall(call)
  \/ PageTick

PagesSpec == PagesInit /\ [][PagesNext]_pageVars
-----------------------------------------------------------------------------
(* What must hold.                                                          *)

\* A Page shown as connected is subscribed at Meta, and no call is out that may
\* end that (facebook-page.service.ts, connect and remove); a Page is free for
\* another owner only when our subscription is gone, with no call at Meta or
\* under way that could still change it
\* (docs/superpowers/specs/2026-09-23-facebook-messenger-inbox-design.md:44-45).
ConnectedIsSubscribed == conn.state = "connected" => subscribed /\ late = {}
FreePageIsSilent ==
  conn = NoPage =>
    ~subscribed /\ late = {} /\ \A q \in Requests : at[q] \notin {"subscribe", "unsubscribe"}
PageMatchesMeta == ConnectedIsSubscribed /\ FreePageIsSilent

\* A selection leads to one connect at a time and to none after a success,
\* however Redis answers and whichever process dies (select).
SelectionUsedOnce ==
  \A t \in Tokens :
    wins[t] + Cardinality({q \in Requests : job[q].via = t /\ at[q] \in Connecting}) <= 1
=============================================================================
