---------------------------- MODULE BrowserSession ----------------------------
(***************************************************************************)
(* The browser's side of a login session (src/apps/web/src/App.tsx,        *)
(* lib/api.ts): one tab, the cookies it shares with its requests, who it   *)
(* says is signed in and which workspace it shows and names in the         *)
(* x-workspace-id header.  The server's side is reduced to what a request  *)
(* sees of it (AuthSessions has the rest): a session has one current       *)
(* refresh token, and an access token is good while its session lives.     *)
(*                                                                         *)
(* An answer reaches the tab any time after the server gave it, or never   *)
(* (a timeout, a lost connection), and its cookies are stored when its     *)
(* headers arrive, so also when its body does not.  A request may also be  *)
(* turned away: by the limit on the number of requests before its handler  *)
(* runs (429), or by an error in it (5xx).                                 *)
(***************************************************************************)
EXTENDS Naturals, Sequences

CONSTANTS
  Visitors,    \* users of this browser
  NoVisitor,
  Rooms,       \* workspaces
  NoRoom,
  Fetches,     \* numbers: requests at once, the list of workspaces aside
  MaxSessions, \* bound: logins
  MaxTurns     \* bound: refreshes of a session, and how often access runs out

ASSUME VisitorAssumption == NoVisitor \notin Visitors
ASSUME BrowserBounds == MaxSessions \in Nat /\ MaxTurns \in Nat \ {0}

VARIABLES
  grants,     \* the server's sessions: user and number of the refresh token
  jar,        \* the two cookies
  auth,       \* the tab's user
  boot,       \* the check at the start: "start", "asking", "done" or "failed"
  due,        \* auth or boot has changed and the effects have not run yet
  fetches,    \* requests in flight
  listing,    \* the request for the workspaces whose answer is awaited
  list,       \* the user whose workspaces the picker shows
  shown,      \* the active workspace of the tab
  saved,      \* localStorage: the workspace each user chose
  activeUser, \* localStorage: whose choice goes into the header
  elsewhere,  \* history: another tab has chosen since this one did
  unsettled,  \* history: requests that change the session overlapped or got lost
  declined    \* history: the answer that signed the tab out last was no refusal of
              \* its session: the request had been turned away

browserVars == <<grants, jar, auth, boot, due, fetches, listing, list, shown, saved,
                 activeUser, elsewhere, unsettled, declined>>

SessionIds == 1..MaxSessions
NoToken == <<0, 0>>
Jars == [access : SessionIds \cup {0}, refresh : (SessionIds \X (1..MaxTurns)) \cup {NoToken}]
NoJar == [access |-> 0, refresh |-> NoToken]
Asked == {"session", "sessionAgain", "page"}
Renewals == {"bootRefresh", "pageRefresh", "login", "logout"}
Ended == [user |-> NoVisitor, turn |-> 1]
NoFetch == [kind |-> "none", served |-> FALSE, carries |-> NoJar, says |-> NoVisitor,
            sets |-> {}, away |-> FALSE]
NoListing == [as |-> NoVisitor, room |-> NoRoom, carries |-> 0]

\* The types of the browser, of what it keeps and of the server.
BrowserTypeOK ==
  /\ grants \in Seq([user : Visitors \cup {NoVisitor}, turn : 1..MaxTurns])
  /\ jar \in Jars
  /\ auth \in Visitors \cup {NoVisitor}
  /\ boot \in {"start", "asking", "done", "failed"}
  /\ fetches \in [Fetches -> [kind : Asked \cup Renewals \cup {"none"}, served : BOOLEAN,
       carries : Jars, says : Visitors \cup {NoVisitor}, sets : SUBSET Jars,
       away : BOOLEAN]]
  /\ listing \in [as : Visitors \cup {NoVisitor}, room : Rooms \cup {NoRoom},
       carries : SessionIds \cup {0}]
  /\ list \in Visitors \cup {NoVisitor}
  /\ shown \in Rooms \cup {NoRoom}
  /\ saved \in [Visitors -> Rooms \cup {NoRoom}]
  /\ activeUser \in Visitors \cup {NoVisitor}
  /\ {due, elsewhere, unsettled, declined} \subseteq BOOLEAN

BrowserInit ==
  /\ grants = <<>>
  /\ jar = NoJar
  /\ auth = NoVisitor
  /\ boot = "start"
  /\ due = FALSE
  /\ fetches = [f \in Fetches |-> NoFetch]
  /\ listing = NoListing
  /\ list = NoVisitor
  /\ shown = NoRoom
  /\ saved = [v \in Visitors |-> NoRoom]
  /\ activeUser = NoVisitor
  /\ elsewhere = FALSE
  /\ unsettled = FALSE
  /\ declined = FALSE

localVars == <<list, shown, saved, activeUser, elsewhere>>
tabVars == <<auth, boot, due, listing, declined, localVars>>
-----------------------------------------------------------------------------
(* The server.                                                              *)

Current(token) ==
  /\ token[1] \in DOMAIN grants
  /\ grants[token[1]].user # NoVisitor
  /\ grants[token[1]].turn = token[2]

\* The user of an access token, or nobody (401).
Bearer(id) == IF id \in DOMAIN grants THEN grants[id].user ELSE NoVisitor

Cookies(id, turn) == {[access |-> id, refresh |-> <<id, turn>>]}

Answered(f, says, sets) ==
  fetches' = [fetches EXCEPT ![f] = [NoFetch EXCEPT !.kind = fetches[f].kind, !.served = TRUE,
                                                    !.says = says, !.sets = sets]]

ServeAsked(f) ==
  /\ fetches[f].kind \in Asked /\ ~fetches[f].served
  /\ Answered(f, Bearer(fetches[f].carries.access), {})
  /\ UNCHANGED <<grants, jar, tabVars, unsettled>>

\* A refresh token is good once; a refused one leaves the cookies alone.
ServeRefresh(f) ==
  LET token == fetches[f].carries.refresh  id == token[1]  turn == token[2] + 1 IN
  /\ fetches[f].kind \in {"bootRefresh", "pageRefresh"} /\ ~fetches[f].served
  /\ IF Current(token)
     THEN /\ turn <= MaxTurns
          /\ grants' = [grants EXCEPT ![id].turn = turn]
          /\ Answered(f, grants[id].user, Cookies(id, turn))
     ELSE Answered(f, NoVisitor, {}) /\ UNCHANGED grants
  /\ UNCHANGED <<jar, tabVars, unsettled>>

ServeLogin(f, v) ==
  /\ fetches[f].kind = "login" /\ ~fetches[f].served
  /\ Len(grants) < MaxSessions
  /\ grants' = Append(grants, [user |-> v, turn |-> 1])
  /\ Answered(f, v, Cookies(Len(grants) + 1, 1))
  /\ UNCHANGED <<jar, tabVars, unsettled>>

\* Ends the session whose current token it carries; clears the cookies always.
ServeLogout(f) ==
  LET token == fetches[f].carries.refresh IN
  /\ fetches[f].kind = "logout" /\ ~fetches[f].served
  /\ grants' = IF Current(token) THEN [grants EXCEPT ![token[1]] = Ended] ELSE grants
  /\ Answered(f, NoVisitor, {NoJar})
  /\ UNCHANGED <<jar, tabVars, unsettled>>

\* The request is answered with an error that says nothing of its session: no
\* handler ran, or it failed, a refresh perhaps after its token was used up.  An
\* error in logout still clears the cookies; a login's leaves its form standing.
TurnAway(f) ==
  LET kind == fetches[f].kind  token == fetches[f].carries.refresh IN
  /\ kind # "none" /\ ~fetches[f].served
  /\ \E sets \in SUBSET {NoJar} :
       /\ sets # {} => kind = "logout"
       /\ fetches' = [fetches EXCEPT ![f] =
            IF kind = "login" THEN NoFetch
            ELSE [NoFetch EXCEPT !.kind = kind, !.served = TRUE, !.sets = sets, !.away = TRUE]]
  /\ \/ UNCHANGED grants
     \/ /\ kind \in {"bootRefresh", "pageRefresh"} /\ Current(token) /\ token[2] < MaxTurns
        /\ grants' = [grants EXCEPT ![token[1]].turn = token[2] + 1]
  /\ UNCHANGED <<jar, tabVars, unsettled>>

\* The session runs out, or a password reset elsewhere ends it.
Revoke(id) ==
  /\ id \in DOMAIN grants /\ grants[id].user # NoVisitor
  /\ grants' = [grants EXCEPT ![id] = Ended]
  /\ UNCHANGED <<jar, tabVars, fetches, unsettled>>

\* The access cookie lives for a quarter of an hour.
AccessExpires ==
  /\ jar.access # 0 /\ jar.refresh[2] < MaxTurns
  /\ jar' = [jar EXCEPT !.access = 0]
  /\ UNCHANGED <<grants, tabVars, fetches, unsettled>>
-----------------------------------------------------------------------------
(* What the tab sends.                                                      *)

Ready == boot \in {"done", "failed"}
InFlight(f) == fetches[f].kind # "none"
\* A free slot, the first for one.
Free(f) == ~InFlight(f) /\ \A g \in Fetches : g < f => InFlight(g)
Renewing(f) == fetches[f].kind \in Renewals

\* Slot f asks for kind with the cookies of the moment, of which the server reads
\* one.
Ask(f, kind, cookies) ==
  /\ fetches' = [fetches EXCEPT ![f] =
       [NoFetch EXCEPT !.kind = kind,
                       !.carries.access = IF kind \in Asked THEN cookies.access ELSE 0,
                       !.carries.refresh = IF kind \in Asked THEN NoToken ELSE cookies.refresh]]
  /\ unsettled' = (unsettled \/ (kind \in Renewals /\ \E g \in Fetches \ {f} : Renewing(g)))

Drop(f) == fetches' = [fetches EXCEPT ![f] = NoFetch] /\ UNCHANGED unsettled

LoadSession(f) ==
  /\ boot = "start" /\ Free(f)
  /\ boot' = "asking"
  /\ Ask(f, "session", jar)
  /\ UNCHANGED <<grants, jar, auth, due, listing, declined, localVars>>

\* A page asks the API for something.
AskPage(f) ==
  /\ boot = "done" /\ auth # NoVisitor /\ Free(f)
  /\ Ask(f, "page", jar)
  /\ UNCHANGED <<grants, jar, tabVars>>

LogIn(f) ==
  /\ boot = "done" /\ auth = NoVisitor /\ Free(f)
  /\ \A g \in Fetches : fetches[g].kind # "login"
  /\ Ask(f, "login", jar)
  /\ UNCHANGED <<grants, jar, tabVars>>

LogOut(f) ==
  /\ boot = "done" /\ auth # NoVisitor /\ Free(f)
  /\ Ask(f, "logout", jar)
  /\ UNCHANGED <<grants, jar, tabVars>>
-----------------------------------------------------------------------------
(* What the tab does with an answer: its cookies first, then the handler.   *)

StoreCookies(f) == jar' = IF fetches[f].sets = {} THEN jar ELSE CHOOSE c \in fetches[f].sets : TRUE

\* setAuth, whatever the user was; the effects run after it.
SetAuth(v) == auth' = v /\ due' = TRUE

Arrives(f, kinds) == fetches[f].served /\ fetches[f].kind \in kinds

\* As a mutant of SessionUser: a session asked for in vain shows nobody.
SessionAnswer(v) == v

\* Who is shown when the session was asked for the last time: an answer without a
\* user leaves the one of the refresh.
SessionUser(v) == IF v = NoVisitor THEN auth ELSE v

\* loadSession: a refused session is refreshed once and asked for again.
SessionAnswered(f) ==
  LET v == fetches[f].says IN
  /\ Arrives(f, {"session", "sessionAgain"})
  /\ StoreCookies(f)
  /\ IF v = NoVisitor /\ fetches[f].kind = "session"
     THEN Ask(f, "bootRefresh", jar') /\ UNCHANGED <<auth, boot, due>>
     ELSE /\ SetAuth(SessionUser(v))
          /\ boot' = "done"
          /\ Drop(f)
  /\ UNCHANGED <<grants, listing, declined, localVars>>

\* refresh: any answer that is not a user signs the tab out, and the caller goes on only with a user
\* (the second try of a page's request changes nothing here).
RefreshAnswered(f) ==
  LET v == fetches[f].says  atBoot == fetches[f].kind = "bootRefresh" IN
  /\ Arrives(f, {"bootRefresh", "pageRefresh"})
  /\ StoreCookies(f)
  /\ SetAuth(v)
  /\ declined' = fetches[f].away
  /\ boot' = IF atBoot /\ v = NoVisitor THEN "done" ELSE boot
  /\ IF v # NoVisitor /\ atBoot THEN Ask(f, "sessionAgain", jar') ELSE Drop(f)
  /\ UNCHANGED <<grants, listing, localVars>>

\* apiRequest: a refusal is answered by a refresh.
PageAnswered(f) ==
  /\ Arrives(f, {"page"})
  /\ StoreCookies(f)
  /\ IF fetches[f].says = NoVisitor
     THEN Ask(f, "pageRefresh", jar') ELSE Drop(f)
  /\ UNCHANGED <<grants, tabVars>>

\* login and logout: the form's and the menu's handlers; a logout signs the tab
\* out whatever it is answered.  A login settles the session if nothing else is
\* under way.
LogAnswered(f) ==
  /\ Arrives(f, {"login", "logout"})
  /\ StoreCookies(f)
  /\ SetAuth(fetches[f].says)
  /\ declined' = fetches[f].away
  /\ fetches' = [fetches EXCEPT ![f] = NoFetch]
  /\ unsettled' = (unsettled /\ ~(/\ fetches[f].kind = "login" /\ auth = NoVisitor
                                  /\ \A g \in Fetches \ {f} : ~InFlight(g)))
  /\ UNCHANGED <<grants, boot, listing, localVars>>

\* No answer, or a body that ends in a timeout after the headers came.  A lost
\* logout signs the tab out all the same.
Lost(f) ==
  LET kind == fetches[f].kind IN
  /\ InFlight(f)
  /\ StoreCookies(f) \/ UNCHANGED jar
  /\ fetches' = [fetches EXCEPT ![f] = NoFetch]
  /\ IF kind \in {"session", "bootRefresh", "sessionAgain", "logout"}
     THEN SetAuth(NoVisitor) ELSE UNCHANGED <<auth, due>>
  /\ boot' = IF boot = "asking" /\ kind # "logout" THEN "failed" ELSE boot
  /\ unsettled' = (unsettled \/ kind \in {"login", "logout"})
  /\ UNCHANGED <<grants, listing, declined, localVars>>

\* The button of the page that says the server did not answer.
RetryBoot ==
  /\ boot = "failed"
  /\ boot' = "start" /\ due' = TRUE
  /\ UNCHANGED <<grants, jar, auth, fetches, listing, localVars, unsettled, declined>>

\* The page is loaded anew: localStorage and the cookies stay.
Reload ==
  /\ Ready
  /\ auth' = NoVisitor /\ boot' = "start"
  /\ fetches' = [f \in Fetches |-> NoFetch]
  /\ listing' = NoListing /\ list' = NoVisitor /\ shown' = NoRoom
  /\ elsewhere' = FALSE /\ unsettled' = FALSE /\ declined' = FALSE
  /\ UNCHANGED <<grants, jar, due, saved, activeUser>>
-----------------------------------------------------------------------------
(* The workspaces.                                                          *)

\* As a mutant of RunEffects: a request that is under way is left to answer.
RunEffectsOnce ==
  /\ due /\ due' = FALSE
  /\ IF Ready /\ auth # NoVisitor
     THEN /\ activeUser' = auth
          /\ listing' = IF listing # NoListing THEN listing
                        ELSE [as |-> auth, room |-> saved[auth], carries |-> jar.access]
          /\ UNCHANGED <<list, shown>>
     ELSE list' = NoVisitor /\ shown' = NoRoom /\ UNCHANGED <<activeUser, listing>>
  /\ UNCHANGED <<grants, jar, auth, boot, fetches, saved, elsewhere, unsettled, declined>>

\* The effect on [authReady, auth], run after those of the pages: it cancels the
\* request before and, with a user, asks for the list.
RunEffects ==
  /\ due /\ due' = FALSE
  /\ IF Ready /\ auth # NoVisitor
     THEN /\ activeUser' = auth
          /\ listing' = [as |-> auth, room |-> saved[auth], carries |-> jar.access]
          /\ UNCHANGED <<list, shown>>
     ELSE listing' = NoListing /\ list' = NoVisitor /\ shown' = NoRoom /\ UNCHANGED activeUser
  /\ UNCHANGED <<grants, jar, auth, boot, fetches, saved, elsewhere, unsettled, declined>>

\* setActiveWorkspaceSelection.
Choose(v, room) ==
  /\ saved' = [saved EXCEPT ![v] = room]
  /\ activeUser' = v
  /\ elsewhere' = FALSE

\* As a mutant of ListAnswered: the choice made for the user is only shown.
ListShown ==
  /\ listing # NoListing /\ Bearer(listing.carries) # NoVisitor
  /\ list' = Bearer(listing.carries)
  /\ \E items \in SUBSET Rooms :
       /\ \/ shown' = listing.room /\ listing.room \in items
          \/ shown' \in items /\ listing.room \notin items
          \/ shown' = NoRoom /\ items = {}
  /\ listing' = NoListing
  /\ UNCHANGED <<grants, jar, auth, boot, due, fetches, saved, activeUser, elsewhere, unsettled,
                 declined>>

\* The saved workspace if the list has it, else one of the list.
ListAnswered ==
  /\ listing # NoListing /\ Bearer(listing.carries) # NoVisitor
  /\ list' = Bearer(listing.carries)
  /\ \E items \in SUBSET Rooms :
       /\ \/ shown' = listing.room /\ listing.room \in items
          \/ shown' \in items /\ listing.room \notin items
          \/ shown' = NoRoom /\ items = {}
  /\ IF shown' # NoRoom THEN Choose(listing.as, shown') ELSE UNCHANGED <<saved, activeUser, elsewhere>>
  /\ listing' = NoListing
  /\ UNCHANGED <<grants, jar, auth, boot, due, fetches, unsettled, declined>>

\* Refused or lost; this request is not retried.
ListFailed ==
  /\ listing # NoListing
  /\ list' = NoVisitor
  /\ listing' = NoListing
  /\ UNCHANGED <<grants, jar, auth, boot, due, fetches, shown, saved, activeUser, elsewhere,
                 unsettled, declined>>

\* The picker, which shows no list while one is awaited.
SelectRoom(room) ==
  /\ auth # NoVisitor /\ boot = "done" /\ listing = NoListing
  /\ list # NoVisitor /\ room # shown
  /\ Choose(auth, room)
  /\ shown' = room
  /\ UNCHANGED <<grants, jar, auth, boot, due, fetches, listing, list, unsettled, declined>>

\* Another tab of this browser, with the same user; bound: once until this one
\* chooses.
SelectElsewhere(room) ==
  /\ ~elsewhere /\ activeUser # NoVisitor /\ saved[activeUser] # room
  /\ saved' = [saved EXCEPT ![activeUser] = room]
  /\ elsewhere' = TRUE
  /\ UNCHANGED <<grants, jar, auth, boot, due, fetches, listing, list, shown, activeUser,
                 unsettled, declined>>
-----------------------------------------------------------------------------
\* The effects run in the same task as the change; only what the pages' own
\* effects ask for comes before.
BrowserNext ==
  \/ RunEffects
  \/ \E f \in Fetches : AskPage(f)
  \/ /\ ~due
     /\ \/ \E f \in Fetches :
             \/ ServeAsked(f) \/ ServeRefresh(f) \/ ServeLogout(f) \/ TurnAway(f)
             \/ \E v \in Visitors : ServeLogin(f, v)
             \/ LoadSession(f) \/ LogIn(f) \/ LogOut(f)
             \/ SessionAnswered(f) \/ RefreshAnswered(f) \/ PageAnswered(f) \/ LogAnswered(f)
             \/ Lost(f)
        \/ \E id \in SessionIds : Revoke(id)
        \/ AccessExpires \/ RetryBoot \/ Reload
        \/ ListAnswered \/ ListFailed
        \/ \E room \in Rooms : SelectRoom(room) \/ SelectElsewhere(room)

BrowserSpec == BrowserInit /\ [][BrowserNext]_browserVars
-----------------------------------------------------------------------------
(* What must hold, once the effects have run.                               *)

Quiet == ~due /\ \A f \in Fetches : ~InFlight(f)

\* docs/superpowers/specs/2026-09-21-auth-cookie-design.md:76-77, session/refresh
\* missing or expired shows the login page, and logout always clears the cookies:
\* who is shown the login page has no session any more that the browser's cookies
\* could go on with.  A request that was turned away breaks it.
SessionIsShown ==
  Quiet /\ boot = "done" /\ auth = NoVisitor /\ ~unsettled => ~Current(jar.refresh)

\* App.tsx:223, :362: it is so if the refresh or logout that signed the tab out was
\* not turned away.
SignedOutMeansOver == ~declined => SessionIsShown

\* App.tsx:228: the user the tab shows is the one its cookies act for.
SignedInIsOwner ==
  Quiet /\ auth # NoVisitor /\ ~unsettled /\ Current(jar.refresh) => Bearer(jar.refresh[1]) = auth

\* App.tsx:291: the workspaces in the picker were answered to the user shown.
ListIsOwn == ~due /\ auth # NoVisitor /\ ~unsettled => list \in {auth, NoVisitor}

\* api.ts:28: a page's requests name the workspace that the tab shows, the
\* user's own choice.
HeaderIsShown ==
  ~due /\ boot = "done" /\ auth # NoVisitor =>
    /\ activeUser = auth
    /\ ~unsettled /\ ~elsewhere /\ shown # NoRoom => saved[auth] = shown
=============================================================================
