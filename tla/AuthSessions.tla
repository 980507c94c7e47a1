----------------------------- MODULE AuthSessions -----------------------------
(***************************************************************************)
(* The login sessions of one user: auth.service.ts, the password reset and *)
(* the sockets that live on a session (realtime/socket.ts).                *)
(*                                                                         *)
(* A request carries out one operation; between its reads and writes any   *)
(* other may run.  A MongoDB transaction is one step.  A refresh token is  *)
(* its session and its generation: the generation of a session counts the  *)
(* tokens it was given, of which its refreshTokenHash names the last.      *)
(* Access tokens without a session, the texts and the hashing are left     *)
(* out; the JWT of a refresh token expires with its session.               *)
(***************************************************************************)
EXTENDS Integers, FiniteSets

CONSTANTS
  Requests,   \* HTTP requests
  Sessions,   \* the random ids of sessions
  Sockets,    \* Socket.IO connections
  SessionTTL, \* REFRESH_TOKEN_TTL_MS, in ticks
  LinkTTL,    \* RESET_TOKEN_TTL_MS, in ticks
  MaxNow      \* bound: the clock stops here

ASSUME TimeAssumption ==
  /\ SessionTTL \in Nat \ {0}
  /\ LinkTTL \in Nat \ {0}
  /\ MaxNow \in Nat
ASSUME RequestsAssumption == IsFiniteSet(Requests)

VARIABLES
  \* the User document: the passwords it has had, of which the last is valid,
  \* and whether it holds a refresh token of the time before sessions
  password, legacy,
  \* the AuthSession documents; generation 0 is no document
  generation, expires,
  \* the PasswordResetToken document, 0 for none; the links that were mailed
  link, linkExpires, links, mailed,
  \* a request: its control point and what it remembers
  pc, job,
  \* a socket: its control point and its session
  spc, ssid,
  now,
  \* history: the password a session was begun with, how it ended, and how
  \* often a token was exchanged
  born, ended, exchanged

userVars    == <<password, legacy>>
sessionVars == <<generation, expires, born, ended, exchanged>>
linkVars    == <<link, linkExpires, links, mailed>>
socketVars  == <<spc, ssid>>
vars == <<userVars, sessionVars, linkVars, pc, job, socketVars, now>>

Points == {"idle", "login", "rotate", "logout", "disconnectSession", "mail",
           "cleanup", "disconnectUser", "end", "crashed"}
SocketPoints == {"off", "verified", "inSession", "inUser", "connected", "closed"}
NoJob == [k |-> 0]

\* A request runs once and a session is given a token per request, so that
\* the requests bound every counter.
Counts == 0..(Cardinality(Requests) + 1)

TypeOK ==
  /\ password \in Counts
  /\ legacy \in BOOLEAN
  /\ generation \in [Sessions -> Counts]
  /\ expires \in [Sessions -> Nat]
  /\ link \in Counts
  /\ linkExpires \in Nat
  /\ links \in Counts
  /\ mailed \subseteq Counts
  /\ pc \in [Requests -> Points]
  /\ spc \in [Sockets -> SocketPoints]
  /\ ssid \in [Sockets -> Sessions]
  /\ now \in 0..MaxNow
  /\ born \in [Sessions -> {-1} \cup Counts]
  /\ ended \in [Sessions -> {"no", "revoked", "expired"}]
  /\ exchanged \in [Sessions -> [Counts -> Nat]]

\* An account from before sessions, or one with a first session.
Init ==
  /\ password = 0
  /\ legacy \in BOOLEAN
  /\ \E live \in SUBSET Sessions :
       /\ Cardinality(live) <= 1
       /\ generation = [s \in Sessions |-> IF s \in live THEN 1 ELSE 0]
       /\ expires = [s \in Sessions |-> IF s \in live THEN SessionTTL ELSE 0]
       /\ born = [s \in Sessions |-> IF s \in live THEN 0 ELSE -1]
  /\ link = 0
  /\ linkExpires = 0
  /\ links = 0
  /\ mailed = {}
  /\ pc = [q \in Requests |-> "idle"]
  /\ job = [q \in Requests |-> NoJob]
  /\ spc = [k \in Sockets |-> "off"]
  /\ \E s \in Sessions : ssid = [k \in Sockets |-> s]
  /\ now = 0
  /\ ended = [s \in Sessions |-> "no"]
  /\ exchanged = [s \in Sessions |-> [k \in Counts |-> 0]]

Goto(q, point, j) ==
  /\ pc' = [pc EXCEPT ![q] = point]
  /\ job' = [job EXCEPT ![q] = j]
Finish(q) == Goto(q, "end", NoJob)

\* isAuthSessionActive
Active(s) == generation[s] > 0 /\ expires[s] > now

\* A new session under an id that was never used, for someone who showed
\* password k.
CreateSession(s, k) ==
  /\ born[s] = -1
  /\ generation' = [generation EXCEPT ![s] = 1]
  /\ expires' = [expires EXCEPT ![s] = now + SessionTTL]
  /\ born' = [born EXCEPT ![s] = k]
  /\ UNCHANGED <<ended, exchanged>>
-----------------------------------------------------------------------------
(* Login, refresh and logout.                                               *)

\* login: the stored hash is read and compared with what was typed, here the
\* right password.
LoginRead(q) ==
  /\ pc[q] = "idle"
  /\ Goto(q, "login", [k |-> password])
  /\ UNCHANGED <<userVars, sessionVars, linkVars, socketVars, now>>

\* As a mutant of SamePassword: the user is only looked up by id.
UserExists(q) == pc[q] = "login"

\* The filter of createAuthSession on the user: the hash that was compared.
SamePassword(q) == password = job[q].k

\* createAuthSession: the user's revision and the session in one transaction.
LoginCommit(q) ==
  /\ pc[q] = "login"
  /\ \/ SamePassword(q) /\ \E s \in Sessions : CreateSession(s, job[q].k)
     \/ ~SamePassword(q) /\ UNCHANGED sessionVars
  /\ Finish(q)
  /\ UNCHANGED <<userVars, linkVars, socketVars, now>>

\* The read of rotateRefreshToken and of revokeRefreshToken: a token that is
\* not the session's last is refused.
TokenRead(q, s) ==
  /\ pc[q] = "idle"
  /\ Active(s)
  /\ \E point \in {"rotate", "logout"} :
       Goto(q, point, [k |-> generation[s], sid |-> s, time |-> now])
  /\ UNCHANGED <<userVars, sessionVars, linkVars, socketVars, now>>

\* As a mutant of SameToken: the session, whatever its token.
SameSession(q) == generation[job[q].sid] > 0

\* The filter of the conditional update and deletion, with the time of the
\* read.
SameToken(q) ==
  /\ generation[job[q].sid] = job[q].k
  /\ expires[job[q].sid] > job[q].time

\* As a mutant of NewExpiry: the wrong sign.
ExpiryInPast(q) == job[q].time - SessionTTL

NewExpiry(q) == job[q].time + SessionTTL

RotateSave(q) ==
  LET s == job[q].sid IN
  /\ pc[q] = "rotate"
  /\ \/ /\ SameToken(q)
        /\ generation' = [generation EXCEPT ![s] = @ + 1]
        /\ expires' = [expires EXCEPT ![s] = NewExpiry(q)]
        /\ exchanged' = [exchanged EXCEPT ![s][job[q].k] = @ + 1]
        /\ UNCHANGED <<born, ended>>
     \/ ~SameToken(q) /\ UNCHANGED sessionVars
  /\ Finish(q)
  /\ UNCHANGED <<userVars, linkVars, socketVars, now>>

LogoutDelete(q) ==
  LET s == job[q].sid IN
  /\ pc[q] = "logout"
  /\ \/ /\ SameToken(q)
        /\ generation' = [generation EXCEPT ![s] = 0]
        /\ ended' = [ended EXCEPT ![s] = "revoked"]
        /\ Goto(q, "disconnectSession", job[q])
        /\ UNCHANGED <<expires, born, exchanged>>
     \/ ~SameToken(q) /\ Finish(q) /\ UNCHANGED sessionVars
  /\ UNCHANGED <<userVars, linkVars, socketVars, now>>

\* disconnectAuthSession: the sockets in the room of the session, in every
\* process that the Redis adapter connects.
DisconnectSession(q) ==
  /\ pc[q] = "disconnectSession"
  /\ spc' = [k \in Sockets |->
               IF spc[k] \in {"inSession", "inUser", "connected"} /\ ssid[k] = job[q].sid
               THEN "closed" ELSE spc[k]]
  /\ Finish(q)
  /\ UNCHANGED <<userVars, sessionVars, linkVars, ssid, now>>

\* A token from before sessions is exchanged for a session, in one
\* transaction, or revoked.
UpgradeLegacy(q) ==
  /\ pc[q] = "idle"
  /\ legacy
  /\ legacy' = FALSE
  /\ \E s \in Sessions : CreateSession(s, password)
  /\ Finish(q)
  /\ UNCHANGED <<password, linkVars, socketVars, now>>

LogoutLegacy(q) ==
  /\ pc[q] = "idle"
  /\ legacy
  /\ legacy' = FALSE
  /\ Finish(q)
  /\ UNCHANGED <<password, sessionVars, linkVars, socketVars, now>>
-----------------------------------------------------------------------------
(* The password reset.                                                      *)

\* requestPasswordReset replaces the user's link.
AskReset(q) ==
  /\ pc[q] = "idle"
  /\ links' = links + 1
  /\ link' = links + 1
  /\ linkExpires' = now + LinkTTL
  /\ Goto(q, "mail", [k |-> links + 1])
  /\ UNCHANGED <<userVars, sessionVars, mailed, socketVars, now>>

\* A mail server that reports a failure may still deliver.
SendMail(q) ==
  /\ pc[q] = "mail"
  /\ \/ mailed' = mailed \cup {job[q].k} /\ Finish(q)
     \/ mailed' = mailed \cup {job[q].k} /\ Goto(q, "cleanup", job[q])
     \/ UNCHANGED mailed /\ Goto(q, "cleanup", job[q])
  /\ UNCHANGED <<userVars, sessionVars, link, linkExpires, links,
                 socketVars, now>>

OwnLink(q) == link = job[q].k

\* deleteOne on the user and the hash.
Cleanup(q) ==
  /\ pc[q] = "cleanup"
  /\ link' = IF OwnLink(q) THEN 0 ELSE link
  /\ Finish(q)
  /\ UNCHANGED <<userVars, sessionVars, linkExpires, links, mailed,
                 socketVars, now>>

LinkAfterReset == 0

\* As a mutant of AfterReset: the sessions are left to expire.
SessionsKept == generation

\* deleteMany on the user.
AfterReset == [s \in Sessions |-> 0]

\* resetPassword: the link, the password, the legacy token and all sessions
\* in one transaction.
ResetPassword(q) ==
  /\ pc[q] = "idle"
  /\ link \in mailed
  /\ linkExpires > now
  /\ link' = LinkAfterReset
  /\ password' = password + 1
  /\ legacy' = FALSE
  /\ generation' = AfterReset
  /\ ended' = [s \in Sessions |-> IF generation[s] > 0 THEN "revoked" ELSE ended[s]]
  /\ Goto(q, "disconnectUser", NoJob)
  /\ UNCHANGED <<expires, born, exchanged, linkExpires, links, mailed,
                 socketVars, now>>

DisconnectUser(q) ==
  /\ pc[q] = "disconnectUser"
  /\ spc' = [k \in Sockets |->
               IF spc[k] \in {"inUser", "connected"} THEN "closed" ELSE spc[k]]
  /\ Finish(q)
  /\ UNCHANGED <<userVars, sessionVars, linkVars, ssid, now>>

\* The process dies before it could close sockets or remove a link.
Crash(q) ==
  /\ pc[q] \in {"disconnectSession", "disconnectUser", "mail", "cleanup"}
  /\ Goto(q, "crashed", NoJob)
  /\ UNCHANGED <<userVars, sessionVars, linkVars, socketVars, now>>
-----------------------------------------------------------------------------
(* Sockets.                                                                 *)

SocketGoto(k, point) == spc' = [spc EXCEPT ![k] = point]
SocketUnchanged == UNCHANGED <<userVars, sessionVars, linkVars, pc, job, now>>

\* The handshake verifies an access token of session s.
Handshake(k, s) ==
  /\ spc[k] = "off"
  /\ Active(s)
  /\ SocketGoto(k, "verified")
  /\ ssid' = [ssid EXCEPT ![k] = s]
  /\ SocketUnchanged

JoinSession(k) ==
  /\ spc[k] = "verified" /\ SocketGoto(k, "inSession")
  /\ UNCHANGED ssid /\ SocketUnchanged

JoinUser(k) ==
  /\ spc[k] = "inSession" /\ SocketGoto(k, "inUser")
  /\ UNCHANGED ssid /\ SocketUnchanged

\* As a mutant of MayStay: the handshake is trusted.
StayVerified(k) == spc[k] = "inUser"

MayStay(k) == Active(ssid[k])

\* The second look at the session, now that the rooms are joined.
Recheck(k) ==
  /\ spc[k] = "inUser"
  /\ \/ MayStay(k) /\ SocketGoto(k, "connected")
     \/ ~MayStay(k) /\ SocketGoto(k, "closed")
  /\ UNCHANGED ssid /\ SocketUnchanged

HangUp(k) ==
  /\ spc[k] \notin {"off", "closed"}
  /\ SocketGoto(k, "closed")
  /\ UNCHANGED ssid /\ SocketUnchanged
-----------------------------------------------------------------------------
\* The TTL index removes a session some time after it expired.
Purge(s) ==
  /\ generation[s] > 0
  /\ expires[s] <= now
  /\ generation' = [generation EXCEPT ![s] = 0]
  /\ ended' = [ended EXCEPT ![s] = "expired"]
  /\ UNCHANGED <<userVars, expires, born, exchanged, linkVars, pc, job,
                 socketVars, now>>

Tick ==
  /\ now < MaxNow
  /\ now' = now + 1
  /\ UNCHANGED <<userVars, sessionVars, linkVars, pc, job, socketVars>>

Request(q) ==
  \/ LoginRead(q) \/ LoginCommit(q)
  \/ \E s \in Sessions : TokenRead(q, s)
  \/ RotateSave(q) \/ LogoutDelete(q) \/ DisconnectSession(q)
  \/ UpgradeLegacy(q) \/ LogoutLegacy(q)
  \/ AskReset(q) \/ SendMail(q) \/ Cleanup(q)
  \/ ResetPassword(q) \/ DisconnectUser(q)
  \/ Crash(q)

Socket(k) ==
  \/ \E s \in Sessions : Handshake(k, s)
  \/ JoinSession(k) \/ JoinUser(k) \/ Recheck(k) \/ HangUp(k)

Next ==
  \/ \E q \in Requests : Request(q)
  \/ \E k \in Sockets : Socket(k)
  \/ \E s \in Sessions : Purge(s)
  \/ Tick

Spec == Init /\ [][Next]_vars
-----------------------------------------------------------------------------
(* What must hold.                                                          *)

\* README.md:193: a password reset revokes every session and every token from
\* before it.  A login that compared the old password, a refresh or an
\* upgrade that was under way does not bring one back.
SessionsAreCurrent ==
  \A s \in Sessions : generation[s] > 0 => born[s] = password

\* A refresh token is exchanged at most once, whoever presents it at the same
\* time (rotateRefreshToken).
TokenExchangedOnce ==
  \A s \in Sessions, k \in Counts : exchanged[s][k] <= 1

\* Once the logout or reset that revoked a session has returned, none of its
\* sockets is connected, not even one whose handshake came first.
RevokedSocketsClose ==
  \A k \in Sockets :
    spc[k] = "connected" /\ ended[ssid[k]] = "revoked" =>
      \E q \in Requests : pc[q] \in {"disconnectSession", "disconnectUser", "crashed"}

\* What a rotation gave is not taken away by a request that read the session
\* before it: a logout ends a session only with the session's last token (the
\* comment at auth.service.ts:333), and no refresh shortens its life.
EndsByLastToken ==
  \A q \in Requests, s \in Sessions :
    pc[q] = "logout" /\ pc'[q] = "disconnectSession" /\ job[q].sid = s
      => exchanged[s][job[q].k] = 0
LifeGrows ==
  \A s \in Sessions :
    generation[s] > 0 /\ generation'[s] > 0 => expires'[s] >= expires[s]
RotationIsRespected == [][EndsByLastToken /\ LifeGrows]_vars
=============================================================================
