-------------------------- MODULE AuthSessionsProofs --------------------------
(***************************************************************************)
(* The safety of AuthSessions for any number of requests, sessions and     *)
(* sockets and any length of their lives, and, at the end, that of         *)
(* BrowserSession for any number of users, workspaces, requests at once    *)
(* and logins.                                                             *)
(***************************************************************************)
EXTENDS MCAuthSessions, FiniteSetTheorems, TLAPS

USE TimeAssumption, RequestsAssumption

(* Types, but for the bounds of the counters and what a request remembers. *)

DocsInv ==
  /\ password \in Nat
  /\ legacy \in BOOLEAN
  /\ generation \in [Sessions -> Nat]
  /\ expires \in [Sessions -> Nat]
  /\ link \in Nat
  /\ linkExpires \in Nat
  /\ links \in Nat
  /\ mailed \subseteq Nat

WorldInv ==
  /\ pc \in [Requests -> Points]
  /\ job = [q \in Requests |-> job[q]]
  /\ spc \in [Sockets -> SocketPoints]
  /\ ssid \in [Sockets -> Sessions]
  /\ now \in 0..MaxNow

HistoryInv ==
  /\ born \in [Sessions -> {-1} \cup Nat]
  /\ ended \in [Sessions -> {"no", "revoked", "expired"}]
  /\ exchanged \in [Sessions -> [Counts -> Nat]]

(* The counters.  A request has counted once it is at none of these points. *)

Early == {"idle", "login", "rotate"}
Done == {q \in Requests : pc[q] \notin Early}
Used == Cardinality(Done)

CountInv ==
  /\ password <= Used
  /\ links <= Used
  /\ link <= links
  /\ mailed \subseteq 0..links
  /\ \A s \in Sessions : generation[s] <= Used + 1
  /\ \A s \in Sessions : born[s] <= password

(* What a request remembers.  The token it read was the session's last, and *)
(* is not the last again once it has been replaced.                         *)
Read(j) ==
  /\ j \in [k : Nat \ {0}, sid : Sessions, time : 0..MaxNow]
  /\ j.time <= now
  /\ j.k <= Used + 1
  /\ born[j.sid] # -1
  /\ generation[j.sid] = 0 \/ generation[j.sid] >= j.k
  /\ generation[j.sid] = j.k => expires[j.sid] <= j.time + SessionTTL

JobInv ==
  \A q \in Requests :
    /\ pc[q] = "login" => job[q] \in [k : Nat] /\ job[q].k <= password
    /\ pc[q] \in {"rotate", "logout", "disconnectSession"} => Read(job[q])
    /\ pc[q] \in {"mail", "cleanup"} => job[q] \in [k : Nat] /\ job[q].k <= links

(* A session that lives has never given its last token away.                *)
SessionInv ==
  \A s \in Sessions :
    /\ \A k \in Counts : exchanged[s][k] <= 1
    /\ born[s] = -1 =>
         generation[s] = 0 /\ ended[s] = "no" /\ \A k \in Counts : exchanged[s][k] = 0
    /\ generation[s] > 0 =>
         /\ ended[s] = "no"
         /\ born[s] = password
         /\ expires[s] <= now + SessionTTL
         /\ \A k \in Counts : k >= generation[s] => exchanged[s][k] = 0

(* Somebody is about to close the sockets of a session that was revoked.    *)
SocketInv ==
  \A k \in Sockets :
    spc[k] = "connected" /\ ended[ssid[k]] = "revoked" =>
      \E q \in Requests :
        \/ pc[q] = "disconnectSession" /\ job[q].sid = ssid[k]
        \/ pc[q] \in {"disconnectUser", "crashed"}

TypeInv == DocsInv /\ WorldInv /\ HistoryInv
IInv == TypeInv /\ CountInv /\ JobInv /\ SessionInv /\ SocketInv
-----------------------------------------------------------------------------
(* Types.                                                                   *)

\* One request moves.
Moves(q, point, j) ==
  /\ pc' \in [Requests -> Points]
  /\ job' = [r \in Requests |-> job'[r]]
  /\ pc'[q] = point /\ job'[q] = j
  /\ \A r \in Requests \ {q} : pc'[r] = pc[r] /\ job'[r] = job[r]

LEMMA GotoMoves ==
  ASSUME WorldInv, NEW q \in Requests, NEW point \in Points, NEW j, Goto(q, point, j)
  PROVE  Moves(q, point, j)
  BY DEF WorldInv, Goto, Moves

LEMMA SocketTypes ==
  ASSUME WorldInv, NEW k \in Sockets, NEW point \in SocketPoints, SocketGoto(k, point)
  PROVE  /\ spc' \in [Sockets -> SocketPoints]
         /\ spc'[k] = point
         /\ \A l \in Sockets \ {k} : spc'[l] = spc[l]
  BY DEF WorldInv, SocketGoto

LEMMA CountsType == Counts \subseteq Nat /\ Cardinality(Requests) \in Nat
  BY FS_CardinalityType DEF Counts

LEMMA WorldStep ==
  ASSUME TypeInv, Next
  PROVE  WorldInv'
<1>. USE DEF TypeInv
<1>1. \A q \in Requests, point \in Points : \A j : Goto(q, point, j) =>
        pc' \in [Requests -> Points] /\ job' = [r \in Requests |-> job'[r]]
  BY GotoMoves DEF Moves
<1>2. ASSUME NEW q \in Requests, Request(q) PROVE WorldInv'
  <2>. USE DEF Points, Finish, socketVars
  <2>1. CASE LoginRead(q)
    BY <2>1, <1>1 DEF LoginRead, WorldInv
  <2>2. CASE LoginCommit(q)
    BY <2>2, <1>1 DEF LoginCommit, WorldInv
  <2>3. ASSUME NEW s \in Sessions, TokenRead(q, s) PROVE WorldInv'
    BY <2>3, <1>1 DEF TokenRead, WorldInv
  <2>4. CASE RotateSave(q)
    BY <2>4, <1>1 DEF RotateSave, WorldInv
  <2>5. CASE LogoutDelete(q)
    BY <2>5, <1>1 DEF LogoutDelete, WorldInv
  <2>6. CASE DisconnectSession(q)
    BY <2>6, <1>1 DEF DisconnectSession, WorldInv, SocketPoints
  <2>7. CASE UpgradeLegacy(q)
    BY <2>7, <1>1 DEF UpgradeLegacy, WorldInv
  <2>8. CASE LogoutLegacy(q)
    BY <2>8, <1>1 DEF LogoutLegacy, WorldInv
  <2>9. CASE AskReset(q)
    BY <2>9, <1>1 DEF AskReset, WorldInv
  <2>10. CASE SendMail(q)
    BY <2>10, <1>1 DEF SendMail, WorldInv
  <2>11. CASE Cleanup(q)
    BY <2>11, <1>1 DEF Cleanup, WorldInv
  <2>12. CASE ResetPassword(q)
    BY <2>12, <1>1 DEF ResetPassword, WorldInv
  <2>13. CASE DisconnectUser(q)
    BY <2>13, <1>1 DEF DisconnectUser, WorldInv, SocketPoints
  <2>14. CASE Crash(q)
    BY <2>14, <1>1 DEF Crash, WorldInv
  <2>. QED
    BY <1>2, <2>1, <2>2, <2>3, <2>4, <2>5, <2>6, <2>7, <2>8, <2>9, <2>10, <2>11, <2>12,
       <2>13, <2>14 DEF Request
<1>3. ASSUME NEW k \in Sockets, Socket(k) PROVE WorldInv'
  <2>1. \A point \in SocketPoints : SocketGoto(k, point) => spc' \in [Sockets -> SocketPoints]
    BY SocketTypes
  <2>2. ASSUME NEW s \in Sessions, Handshake(k, s) PROVE WorldInv'
    BY <2>1, <2>2 DEF Handshake, SocketUnchanged, WorldInv, SocketPoints
  <2>3. CASE JoinSession(k)
    BY <2>1, <2>3 DEF JoinSession, SocketUnchanged, WorldInv, SocketPoints
  <2>4. CASE JoinUser(k)
    BY <2>1, <2>4 DEF JoinUser, SocketUnchanged, WorldInv, SocketPoints
  <2>5. CASE Recheck(k)
    BY <2>1, <2>5 DEF Recheck, SocketUnchanged, WorldInv, SocketPoints
  <2>6. CASE HangUp(k)
    BY <2>1, <2>6 DEF HangUp, SocketUnchanged, WorldInv, SocketPoints
  <2>. QED BY <1>3, <2>2, <2>3, <2>4, <2>5, <2>6 DEF Socket
<1>4. ASSUME NEW s \in Sessions, Purge(s) PROVE WorldInv'
  BY <1>4 DEF Purge, WorldInv, socketVars
<1>5. CASE Tick
  BY <1>5 DEF Tick, WorldInv, socketVars
<1>. QED BY <1>2, <1>3, <1>4, <1>5 DEF Next

\* What an action does to the sessions and to the clock.
Begins == \E s \in Sessions : CreateSession(s, password)
Rotates ==
  \E q \in Requests :
    /\ pc[q] = "rotate" /\ SameToken(q)
    /\ generation' = [generation EXCEPT ![job[q].sid] = @ + 1]
    /\ expires' = [expires EXCEPT ![job[q].sid] = NewExpiry(q)]
    /\ exchanged' = [exchanged EXCEPT ![job[q].sid][job[q].k] = @ + 1]
    /\ UNCHANGED <<born, ended>>
Ends(s, how) ==
  /\ generation[s] > 0
  /\ generation' = [generation EXCEPT ![s] = 0]
  /\ ended' = [ended EXCEPT ![s] = how]
  /\ UNCHANGED <<expires, born, exchanged>>
Resets ==
  /\ password' = password + 1
  /\ generation' = [s \in Sessions |-> 0]
  /\ ended' = [s \in Sessions |-> IF generation[s] > 0 THEN "revoked" ELSE ended[s]]
  /\ UNCHANGED <<expires, born, exchanged, now>>
Resting == UNCHANGED <<sessionVars, password>> /\ now' \in {now, now + 1} /\ now' <= MaxNow

LEMMA Effects ==
  ASSUME TypeInv, JobInv, Next
  PROVE  \/ Resting
         \/ UNCHANGED <<password, now>> /\ Begins
         \/ UNCHANGED <<password, now>> /\ Rotates
         \/ UNCHANGED <<password, now>> /\ \E s \in Sessions, how \in {"revoked", "expired"} : Ends(s, how)
         \/ Resets
<1>. USE DEF TypeInv, WorldInv, userVars
<1>1. ASSUME NEW q \in Requests, Request(q)
      PROVE  \/ Resting
             \/ UNCHANGED <<password, now>> /\ Begins
             \/ UNCHANGED <<password, now>> /\ Rotates
             \/ UNCHANGED <<password, now>> /\ \E s \in Sessions : Ends(s, "revoked")
             \/ Resets
  <2>1. CASE LoginCommit(q)
    BY <2>1 DEF LoginCommit, SamePassword, Begins, Resting
  <2>2. CASE RotateSave(q)
    BY <2>2 DEF RotateSave, Rotates, Resting
  <2>3. CASE LogoutDelete(q)
    <3>1. CASE SameToken(q) /\ generation' = [generation EXCEPT ![job[q].sid] = 0]
      <4>1. Read(job[q])
        BY <2>3 DEF LogoutDelete, JobInv
      <4>2. job[q].sid \in Sessions /\ generation[job[q].sid] > 0
        BY <3>1, <4>1 DEF Read, SameToken
      <4>. QED BY <2>3, <3>1, <4>2 DEF LogoutDelete, Ends
    <3>. QED BY <2>3, <3>1 DEF LogoutDelete, Resting
  <2>4. CASE UpgradeLegacy(q)
    BY <2>4 DEF UpgradeLegacy, Begins
  <2>5. CASE ResetPassword(q)
    BY <2>5 DEF ResetPassword, AfterReset, Resets
  <2>6. CASE LoginRead(q) \/ (\E s \in Sessions : TokenRead(q, s)) \/ DisconnectSession(q)
             \/ LogoutLegacy(q) \/ AskReset(q) \/ SendMail(q) \/ Cleanup(q) \/ DisconnectUser(q)
             \/ Crash(q)
    <3>1. UNCHANGED <<sessionVars, password, now>>
      BY <2>6 DEF LoginRead, TokenRead, DisconnectSession, LogoutLegacy, AskReset, SendMail,
                  Cleanup, DisconnectUser, Crash
    <3>. QED BY <3>1 DEF Resting
  <2>. QED BY <1>1, <2>1, <2>2, <2>3, <2>4, <2>5, <2>6 DEF Request
<1>2. ASSUME NEW k \in Sockets, Socket(k) PROVE Resting
  BY <1>2 DEF Socket, Handshake, JoinSession, JoinUser, Recheck, HangUp, SocketUnchanged, Resting
<1>3. ASSUME NEW s \in Sessions, Purge(s) PROVE UNCHANGED <<password, now>> /\ Ends(s, "expired")
  BY <1>3 DEF Purge, Ends
<1>4. CASE Tick
  BY <1>4 DEF Tick, Resting
<1>. QED BY <1>1, <1>2, <1>3, <1>4 DEF Next

LEMMA Increment ==
  ASSUME NEW S, NEW f \in [S -> Nat], NEW k
  PROVE  [f EXCEPT ![k] = @ + 1] \in [S -> Nat]
<1>1. CASE k \in S
  BY <1>1
<1>2. CASE k \notin S
  <2>1. [f EXCEPT ![k] = @ + 1] = f
    BY <1>2
  <2>. QED BY <2>1
<1>. QED BY <1>1, <1>2

LEMMA HistoryStep ==
  ASSUME TypeInv, JobInv, Next
  PROVE  /\ HistoryInv'
         /\ password' \in Nat
         /\ generation' \in [Sessions -> Nat]
         /\ expires' \in [Sessions -> Nat]
<1>. USE DEF TypeInv, DocsInv, HistoryInv, WorldInv
<1>1. CASE Resting
  BY <1>1 DEF Resting, sessionVars
<1>2. CASE UNCHANGED <<password, now>> /\ Begins
  BY <1>2 DEF Begins, CreateSession
<1>3. CASE UNCHANGED <<password, now>> /\ Rotates
  <2>1. PICK q \in Requests :
          /\ pc[q] = "rotate" /\ SameToken(q)
          /\ generation' = [generation EXCEPT ![job[q].sid] = @ + 1]
          /\ expires' = [expires EXCEPT ![job[q].sid] = NewExpiry(q)]
          /\ exchanged' = [exchanged EXCEPT ![job[q].sid][job[q].k] = @ + 1]
          /\ UNCHANGED <<born, ended>>
    BY <1>3 DEF Rotates
  <2>2. Read(job[q])
    BY <2>1 DEF JobInv
  <2>3. NewExpiry(q) \in Nat
    BY <2>2 DEF Read, NewExpiry
  <2>4. exchanged' \in [Sessions -> [Counts -> Nat]]
    <3>1. [exchanged[job[q].sid] EXCEPT ![job[q].k] = @ + 1] \in [Counts -> Nat]
      <4>1. \A f \in [Counts -> Nat] : \A k : [f EXCEPT ![k] = @ + 1] \in [Counts -> Nat]
        BY Increment
      <4>2. exchanged[job[q].sid] \in [Counts -> Nat]
        BY <2>2 DEF Read
      <4>. QED BY <4>1, <4>2
    <3>. QED BY <2>1, <3>1
  <2>. QED BY <1>3, <2>1, <2>3, <2>4
<1>4. CASE UNCHANGED <<password, now>>
           /\ \E s \in Sessions, how \in {"revoked", "expired"} : Ends(s, how)
  BY <1>4 DEF Ends
<1>5. CASE Resets
  BY <1>5 DEF Resets
<1>. QED BY <1>1, <1>2, <1>3, <1>4, <1>5, Effects

LEMMA DocsStep ==
  ASSUME TypeInv, JobInv, Next
  PROVE  DocsInv'
<1>. USE DEF TypeInv, DocsInv, userVars, linkVars
<1>1. /\ password' \in Nat /\ generation' \in [Sessions -> Nat] /\ expires' \in [Sessions -> Nat]
  BY HistoryStep
<1>2. /\ legacy' \in BOOLEAN /\ link' \in Nat /\ linkExpires' \in Nat /\ links' \in Nat
      /\ mailed' \subseteq Nat
  <2>1. ASSUME NEW q \in Requests, Request(q)
        PROVE  /\ legacy' \in BOOLEAN /\ link' \in Nat /\ linkExpires' \in Nat /\ links' \in Nat
               /\ mailed' \subseteq Nat
    <3>1. CASE AskReset(q)
      BY <3>1 DEF AskReset, WorldInv
    <3>2. CASE SendMail(q)
      BY <3>2 DEF SendMail, JobInv
    <3>3. CASE Cleanup(q)
      BY <3>3 DEF Cleanup
    <3>4. CASE ResetPassword(q)
      BY <3>4 DEF ResetPassword, LinkAfterReset
    <3>5. CASE LoginRead(q) \/ LoginCommit(q) \/ (\E s \in Sessions : TokenRead(q, s))
               \/ RotateSave(q) \/ LogoutDelete(q) \/ DisconnectSession(q)
               \/ UpgradeLegacy(q) \/ LogoutLegacy(q) \/ DisconnectUser(q) \/ Crash(q)
      BY <3>5 DEF LoginRead, LoginCommit, TokenRead, RotateSave, LogoutDelete, DisconnectSession,
                  UpgradeLegacy, LogoutLegacy, DisconnectUser, Crash
    <3>. QED BY <2>1, <3>1, <3>2, <3>3, <3>4, <3>5 DEF Request
  <2>2. ASSUME NEW k \in Sockets, Socket(k) PROVE UNCHANGED <<legacy, linkVars>>
    BY <2>2 DEF Socket, Handshake, JoinSession, JoinUser, Recheck, HangUp, SocketUnchanged
  <2>3. ASSUME NEW s \in Sessions, Purge(s) PROVE UNCHANGED <<legacy, linkVars>>
    BY <2>3 DEF Purge
  <2>4. CASE Tick
    BY <2>4 DEF Tick
  <2>. QED BY <2>1, <2>2, <2>3, <2>4 DEF Next
<1>. QED BY <1>1, <1>2
-----------------------------------------------------------------------------
(* The sessions.                                                            *)

\* SessionInv, of one session.
SessionOK(s) ==
  /\ \A k \in Counts : exchanged[s][k] <= 1
  /\ born[s] = -1 =>
       generation[s] = 0 /\ ended[s] = "no" /\ \A k \in Counts : exchanged[s][k] = 0
  /\ generation[s] > 0 =>
       /\ ended[s] = "no"
       /\ born[s] = password
       /\ expires[s] <= now + SessionTTL
       /\ \A k \in Counts : k >= generation[s] => exchanged[s][k] = 0

LEMMA SessionStep ==
  ASSUME TypeInv, JobInv, SessionInv, Next
  PROVE  SessionInv'
<1>. SUFFICES ASSUME NEW s \in Sessions PROVE SessionOK(s)'
  BY DEF SessionInv, SessionOK
<1>0. SessionOK(s)
  BY DEF SessionInv, SessionOK
<1>. USE CountsType DEF TypeInv, DocsInv, HistoryInv, WorldInv
<1>1. CASE Resting
  BY <1>0, <1>1 DEF Resting, sessionVars, SessionOK
<1>2. CASE UNCHANGED <<password, now>> /\ Begins
  <2>1. PICK r \in Sessions : CreateSession(r, password)
    BY <1>2 DEF Begins
  <2>2. CASE r = s
    BY <1>0, <1>2, <2>1, <2>2 DEF CreateSession, SessionOK
  <2>3. CASE r # s
    BY <1>0, <1>2, <2>1, <2>3 DEF CreateSession, SessionOK
  <2>. QED BY <2>2, <2>3
<1>3. CASE UNCHANGED <<password, now>> /\ Rotates
  <2>1. PICK q \in Requests :
          /\ pc[q] = "rotate" /\ SameToken(q)
          /\ generation' = [generation EXCEPT ![job[q].sid] = @ + 1]
          /\ expires' = [expires EXCEPT ![job[q].sid] = NewExpiry(q)]
          /\ exchanged' = [exchanged EXCEPT ![job[q].sid][job[q].k] = @ + 1]
          /\ UNCHANGED <<born, ended>>
    BY <1>3 DEF Rotates
  <2>2. Read(job[q])
    BY <2>1 DEF JobInv
  <2>3. CASE job[q].sid = s
    <3>1. /\ job[q].k \in Nat \ {0} /\ generation[s] = job[q].k
          /\ job[q].time \in Nat /\ job[q].time <= now
      BY <2>1, <2>2, <2>3 DEF Read, SameToken
    <3>2. generation'[s] = generation[s] + 1 /\ expires'[s] <= now + SessionTTL
      BY <2>1, <2>3, <3>1 DEF NewExpiry
    <3>3. \A k \in Counts : exchanged'[s][k] = IF k = job[q].k THEN exchanged[s][k] + 1
                                               ELSE exchanged[s][k]
      BY <2>1, <2>3
    <3>4. generation[s] > 0 /\ born[s] # -1
      BY <3>1, <1>0 DEF SessionOK
    <3>5. \A k \in Counts : exchanged'[s][k] <= 1 /\ (k >= generation'[s] => exchanged'[s][k] = 0)
      <4>. SUFFICES ASSUME NEW k \in Counts
           PROVE exchanged'[s][k] <= 1 /\ (k >= generation'[s] => exchanged'[s][k] = 0)
        OBVIOUS
      <4>1. k \in Nat /\ generation[s] \in Nat /\ exchanged[s][k] \in Nat
        OBVIOUS
      <4>2. exchanged[s][k] <= 1 /\ (k >= generation[s] => exchanged[s][k] = 0)
        BY <1>0, <3>4 DEF SessionOK
      <4>. HIDE DEF TypeInv, DocsInv, HistoryInv, WorldInv
      <4>. QED BY <3>1, <3>2, <3>3, <4>1, <4>2
    <3>. QED BY <1>0, <1>3, <2>1, <3>2, <3>4, <3>5 DEF SessionOK
  <2>4. CASE job[q].sid # s
    <3>1. generation'[s] = generation[s] /\ expires'[s] = expires[s] /\ exchanged'[s] = exchanged[s]
      BY <2>1, <2>4
    <3>. QED BY <1>0, <1>3, <2>1, <3>1 DEF SessionOK
  <2>. QED BY <2>3, <2>4
<1>4. CASE UNCHANGED <<password, now>>
           /\ \E r \in Sessions, how \in {"revoked", "expired"} : Ends(r, how)
  <2>1. PICK r \in Sessions, how \in {"revoked", "expired"} : Ends(r, how)
    BY <1>4
  <2>. QED BY <1>0, <1>4, <2>1 DEF Ends, SessionOK
<1>5. CASE Resets
  BY <1>0, <1>5 DEF Resets, SessionOK
<1>. QED BY <1>1, <1>2, <1>3, <1>4, <1>5, Effects
-----------------------------------------------------------------------------
(* The counters.                                                            *)

LEMMA UsedType ==
  ASSUME NEW points \in [Requests -> Points]
  PROVE  LET done == {q \in Requests : points[q] \notin Early}
         IN  IsFiniteSet(done) /\ Cardinality(done) \in Nat /\ Cardinality(done) <= Cardinality(Requests)
  BY FS_Subset, FS_CardinalityType

\* A request that passes its early points counts once.
LEMMA UsedGrows ==
  ASSUME WorldInv, WorldInv', NEW q \in Requests, NEW point \in Points, NEW j,
         Moves(q, point, j), point \in Early => pc[q] \in Early
  PROVE  Used' = IF pc[q] \in Early /\ point \notin Early THEN Used + 1 ELSE Used
<1>0. IsFiniteSet(Done)
  BY UsedType DEF WorldInv, Done
<1>1. CASE pc[q] \in Early /\ point \notin Early
  <2>1. Done' = Done \cup {q} /\ q \notin Done
    BY <1>1 DEF Done, Moves
  <2>. QED BY <1>0, <1>1, <2>1, FS_AddElement DEF Used
<1>2. CASE ~(pc[q] \in Early /\ point \notin Early)
  <2>1. Done' = Done
    BY <1>2 DEF Done, Moves
  <2>. QED BY <1>2, <2>1 DEF Used
<1>. QED BY <1>1, <1>2

LEMMA UsedStays ==
  ASSUME UNCHANGED pc
  PROVE  Used' = Used
  BY DEF Used, Done

LEMMA CountStep ==
  ASSUME TypeInv, WorldInv', CountInv, JobInv, Next
  PROVE  CountInv' /\ Used' >= Used
<1>. USE DEF TypeInv, DocsInv, HistoryInv
<1>0. Used \in Nat /\ Used' \in Nat
  <2>1. Used \in Nat
    BY UsedType DEF WorldInv, Done, Used
  <2>2. Used' \in Nat
    BY UsedType DEF WorldInv, Done, Used
  <2>. QED BY <2>1, <2>2
<1>1. ASSUME NEW q \in Requests, Request(q) PROVE CountInv' /\ Used' >= Used
  <2>1. \A point \in Points : \A j :
          Goto(q, point, j) /\ (point \in Early => pc[q] \in Early) =>
            Used' = IF pc[q] \in Early /\ point \notin Early THEN Used + 1 ELSE Used
    BY GotoMoves, UsedGrows
  <2>. USE DEF Points, Early, Finish
  <2>2. CASE LoginRead(q)
    <3>1. Used' = Used
      BY <2>1, <2>2 DEF LoginRead
    <3>. QED BY <1>0, <2>2, <3>1 DEF LoginRead, CountInv, userVars, sessionVars, linkVars
  <2>3. CASE LoginCommit(q)
    <3>1. Used' = Used + 1
      BY <2>1, <2>3 DEF LoginCommit
    <3>2. CASE UNCHANGED sessionVars
      BY <1>0, <2>3, <3>1, <3>2 DEF LoginCommit, CountInv, userVars, sessionVars, linkVars
    <3>3. ASSUME NEW s \in Sessions, CreateSession(s, job[q].k), SamePassword(q)
          PROVE CountInv'
      BY <1>0, <2>3, <3>1, <3>3 DEF LoginCommit, CreateSession, SamePassword, CountInv, userVars,
                                    linkVars
    <3>. QED BY <1>0, <2>3, <3>1, <3>2, <3>3 DEF LoginCommit
  <2>4. ASSUME NEW s \in Sessions, TokenRead(q, s) PROVE CountInv' /\ Used' >= Used
    <3>1. Used' >= Used
      BY <1>0, <2>1, <2>4 DEF TokenRead
    <3>. QED BY <1>0, <2>4, <3>1 DEF TokenRead, CountInv, userVars, sessionVars, linkVars
  <2>5. CASE RotateSave(q)
    <3>1. Used' = Used + 1
      BY <2>1, <2>5 DEF RotateSave
    <3>. QED BY <1>0, <2>5, <3>1 DEF RotateSave, CountInv, userVars, sessionVars, linkVars
  <2>6. CASE LogoutDelete(q)
    <3>1. Used' = Used
      BY <2>1, <2>6 DEF LogoutDelete
    <3>. QED BY <1>0, <2>6, <3>1 DEF LogoutDelete, CountInv, userVars, sessionVars, linkVars
  <2>7. CASE UpgradeLegacy(q)
    <3>1. Used' = Used + 1
      BY <2>1, <2>7 DEF UpgradeLegacy
    <3>2. PICK s \in Sessions : CreateSession(s, password)
      BY <2>7 DEF UpgradeLegacy
    <3>. QED BY <1>0, <2>7, <3>1, <3>2 DEF UpgradeLegacy, CreateSession, CountInv, linkVars
  <2>8. CASE AskReset(q)
    <3>1. Used' = Used + 1
      BY <2>1, <2>8 DEF AskReset
    <3>. QED BY <1>0, <2>8, <3>1 DEF AskReset, CountInv, userVars, sessionVars
  <2>9. CASE SendMail(q)
    <3>1. Used' = Used
      BY <2>1, <2>9 DEF SendMail
    <3>2. job[q].k \in 0..links
      BY <2>9 DEF SendMail, JobInv
    <3>3. mailed' \subseteq mailed \cup {job[q].k}
      BY <2>9 DEF SendMail
    <3>4. mailed' \subseteq 0..links'
      BY <2>9, <3>2, <3>3 DEF SendMail, CountInv
    <3>. QED BY <1>0, <2>9, <3>1, <3>4 DEF SendMail, CountInv, userVars, sessionVars
  <2>10. CASE Cleanup(q)
    <3>1. Used' = Used
      BY <2>1, <2>10 DEF Cleanup
    <3>. QED BY <1>0, <2>10, <3>1 DEF Cleanup, CountInv, userVars, sessionVars
  <2>11. CASE ResetPassword(q)
    <3>1. Used' = Used + 1
      BY <2>1, <2>11 DEF ResetPassword
    <3>. QED BY <1>0, <2>11, <3>1 DEF ResetPassword, LinkAfterReset, AfterReset, CountInv
  <2>12. CASE DisconnectSession(q) \/ DisconnectUser(q) \/ Crash(q)
    <3>1. Used' = Used
      BY <2>1, <2>12 DEF DisconnectSession, DisconnectUser, Crash
    <3>2. UNCHANGED <<userVars, sessionVars, linkVars>>
      BY <2>12 DEF DisconnectSession, DisconnectUser, Crash
    <3>. QED BY <1>0, <3>1, <3>2 DEF CountInv, userVars, sessionVars, linkVars
  <2>13. CASE LogoutLegacy(q)
    <3>1. Used' = Used + 1
      BY <2>1, <2>13 DEF LogoutLegacy
    <3>. QED BY <1>0, <2>13, <3>1 DEF LogoutLegacy, CountInv, sessionVars, linkVars
  <2>. QED BY <1>1, <2>2, <2>3, <2>4, <2>5, <2>6, <2>7, <2>8, <2>9, <2>10, <2>11, <2>12,
              <2>13 DEF Request
<1>2. ASSUME NEW k \in Sockets, Socket(k) PROVE CountInv' /\ Used' >= Used
  <2>1. UNCHANGED <<userVars, sessionVars, linkVars, pc>>
    BY <1>2 DEF Socket, Handshake, JoinSession, JoinUser, Recheck, HangUp, SocketUnchanged
  <2>. QED BY <1>0, <2>1, UsedStays DEF CountInv, userVars, sessionVars, linkVars
<1>3. ASSUME NEW s \in Sessions, Purge(s) PROVE CountInv' /\ Used' >= Used
  <2>1. Used' = Used
    BY <1>3, UsedStays DEF Purge
  <2>. QED BY <1>0, <1>3, <2>1 DEF Purge, CountInv, userVars, linkVars
<1>4. CASE Tick
  BY <1>0, <1>4, UsedStays DEF Tick, CountInv, userVars, sessionVars, linkVars
<1>. QED BY <1>1, <1>2, <1>3, <1>4 DEF Next
-----------------------------------------------------------------------------
(* What a request remembers.                                                *)

LEMMA ReadStays ==
  ASSUME TypeInv, WorldInv', CountInv, JobInv, SessionInv, Next
  PROVE  \A j : Read(j) => Read(j)'
<1>. SUFFICES ASSUME NEW CONSTANT j, Read(j) PROVE Read(j)'
  OBVIOUS
<1>0. /\ Used \in Nat /\ Used' \in Nat /\ Used' >= Used
      /\ j \in [k : Nat \ {0}, sid : Sessions, time : 0..MaxNow]
      /\ j.k \in Nat \ {0} /\ j.sid \in Sessions /\ j.time \in Nat /\ j.time <= now
      /\ j.k <= Used + 1 /\ born[j.sid] # -1
      /\ generation[j.sid] = 0 \/ generation[j.sid] >= j.k
      /\ generation[j.sid] = j.k => expires[j.sid] <= j.time + SessionTTL
  <2>1. Used \in Nat /\ Used' \in Nat /\ Used' >= Used
    <3>1. Used \in Nat
      BY UsedType DEF TypeInv, WorldInv, Done, Used
    <3>2. Used' \in Nat
      BY UsedType DEF WorldInv, Done, Used
    <3>. QED BY <3>1, <3>2, CountStep
  <2>2. j \in [k : Nat \ {0}, sid : Sessions, time : 0..MaxNow]
    BY DEF Read
  <2>3. j.k \in Nat \ {0} /\ j.sid \in Sessions /\ j.time \in Nat
    BY <2>2
  <2>. QED BY <2>1, <2>2, <2>3 DEF Read
<1>. USE DEF TypeInv, DocsInv, HistoryInv, WorldInv
<1>1. CASE Resting
  BY <1>0, <1>1 DEF Resting, sessionVars, Read
<1>2. CASE UNCHANGED <<password, now>> /\ Begins
  BY <1>0, <1>2 DEF Begins, CreateSession, Read
<1>3. CASE UNCHANGED <<password, now>> /\ Rotates
  <2>1. PICK q \in Requests :
          /\ pc[q] = "rotate" /\ SameToken(q)
          /\ generation' = [generation EXCEPT ![job[q].sid] = @ + 1]
          /\ expires' = [expires EXCEPT ![job[q].sid] = NewExpiry(q)]
          /\ UNCHANGED born
    BY <1>3 DEF Rotates
  <2>2. Read(job[q])
    BY <2>1 DEF JobInv
  <2>3. CASE job[q].sid = j.sid
    <3>1. generation[j.sid] # 0
      BY <2>1, <2>2, <2>3 DEF Read, SameToken
    <3>2. generation'[j.sid] = generation[j.sid] + 1
      BY <2>1, <2>3, <1>0
    <3>. QED BY <1>0, <1>3, <2>1, <3>1, <3>2 DEF Read
  <2>4. CASE job[q].sid # j.sid
    <3>1. generation'[j.sid] = generation[j.sid] /\ expires'[j.sid] = expires[j.sid]
      BY <2>1, <2>4, <1>0
    <3>. QED BY <1>0, <1>3, <2>1, <3>1 DEF Read
  <2>. QED BY <2>3, <2>4
<1>4. CASE UNCHANGED <<password, now>>
           /\ \E s \in Sessions, how \in {"revoked", "expired"} : Ends(s, how)
  BY <1>0, <1>4 DEF Ends, Read
<1>5. CASE Resets
  BY <1>0, <1>5 DEF Resets, Read
<1>. QED BY <1>1, <1>2, <1>3, <1>4, <1>5, Effects

JobOK(q) ==
  /\ pc[q] = "login" => job[q] \in [k : Nat] /\ job[q].k <= password
  /\ pc[q] \in {"rotate", "logout", "disconnectSession"} => Read(job[q])
  /\ pc[q] \in {"mail", "cleanup"} => job[q] \in [k : Nat] /\ job[q].k <= links

\* The counters that requests remember only grow.
LEMMA CountersGrow ==
  ASSUME TypeInv, JobInv, Next
  PROVE  password' >= password /\ links' >= links
<1>. USE DEF TypeInv, DocsInv
<1>1. password' >= password
  BY Effects DEF Resting, Resets
<1>2. links' >= links
  <2>1. ASSUME NEW q \in Requests, Request(q), ~AskReset(q) PROVE links' = links
    <3>1. CASE LoginRead(q) \/ LoginCommit(q) \/ (\E s \in Sessions : TokenRead(q, s))
               \/ RotateSave(q) \/ LogoutDelete(q) \/ DisconnectSession(q)
      BY <3>1 DEF LoginRead, LoginCommit, TokenRead, RotateSave, LogoutDelete, DisconnectSession,
                  linkVars
    <3>2. CASE UpgradeLegacy(q) \/ LogoutLegacy(q) \/ DisconnectUser(q) \/ Crash(q)
      BY <3>2 DEF UpgradeLegacy, LogoutLegacy, DisconnectUser, Crash, linkVars
    <3>3. CASE SendMail(q) \/ Cleanup(q) \/ ResetPassword(q)
      BY <3>3 DEF SendMail, Cleanup, ResetPassword
    <3>. QED BY <2>1, <3>1, <3>2, <3>3 DEF Request
  <2>2. ASSUME NEW q \in Requests, AskReset(q) PROVE links' >= links
    BY <2>2 DEF AskReset
  <2>3. ASSUME NEW k \in Sockets, Socket(k) PROVE links' = links
    BY <2>3 DEF Socket, Handshake, JoinSession, JoinUser, Recheck, HangUp, SocketUnchanged, linkVars
  <2>4. ASSUME NEW s \in Sessions, Purge(s) PROVE links' = links
    BY <2>4 DEF Purge, linkVars
  <2>5. CASE Tick
    BY <2>5 DEF Tick, linkVars
  <2>. QED BY <2>1, <2>2, <2>3, <2>4, <2>5 DEF Next
<1>. QED BY <1>1, <1>2

\* A request that does not move keeps what it remembers.
LEMMA JobStays ==
  ASSUME TypeInv, WorldInv', CountInv, JobInv, SessionInv, Next
  PROVE  \A r \in Requests : pc'[r] = pc[r] /\ job'[r] = job[r] => JobOK(r)'
<1>. SUFFICES ASSUME NEW r \in Requests, pc'[r] = pc[r], job'[r] = job[r] PROVE JobOK(r)'
  OBVIOUS
<1>1. password' \in Nat /\ password' >= password /\ links' \in Nat /\ links' >= links
  BY CountersGrow, DocsStep DEF DocsInv
<1>2. CASE pc[r] \in {"rotate", "logout", "disconnectSession"}
  <2>1. \A j : Read(j) => Read(j)'
    BY ReadStays
  <2>2. DEFINE j == job[r]
  <2>3. Read(j)
    BY <1>2 DEF JobInv
  <2>4. Read(job[r])'
    BY <2>1, <2>3 DEF Read
  <2>. QED BY <1>2, <2>4 DEF JobOK
<1>3. CASE pc[r] \notin {"rotate", "logout", "disconnectSession"}
  <2>1. JobOK(r)
    BY DEF JobInv, JobOK
  <2>. QED BY <1>1, <1>3, <2>1 DEF JobOK, TypeInv, DocsInv
<1>. QED BY <1>2, <1>3

LEMMA JobStep ==
  ASSUME TypeInv, WorldInv', CountInv, JobInv, SessionInv, Next
  PROVE  JobInv'
<1>. SUFFICES ASSUME NEW r \in Requests PROVE JobOK(r)'
  BY DEF JobInv, JobOK
<1>1. CASE pc'[r] = pc[r] /\ job'[r] = job[r]
  BY <1>1, JobStays
<1>2. ASSUME NEW q \in Requests, Request(q) PROVE JobOK(r)'
  <2>1. CASE q # r
    <3>1. \E point \in Points : \E j : Goto(q, point, j)
      BY <1>2 DEF Request, LoginRead, LoginCommit, TokenRead, RotateSave, LogoutDelete,
                  DisconnectSession, UpgradeLegacy, LogoutLegacy, AskReset, SendMail, Cleanup,
                  ResetPassword, DisconnectUser, Crash, Finish, Points
    <3>2. pc'[r] = pc[r] /\ job'[r] = job[r]
      BY <2>1, <3>1, GotoMoves DEF Moves, TypeInv
    <3>. QED BY <1>1, <3>2
  <2>2. CASE q = r
    <3>1. \A point \in Points : \A j : Goto(q, point, j) => pc'[r] = point /\ job'[r] = j
      BY <2>2, GotoMoves DEF Moves, TypeInv
    <3>2. \A point \in Points : \A j :
            Goto(q, point, j) /\ point \in {"end", "crashed", "disconnectUser"} => JobOK(r)'
      BY <3>1 DEF JobOK
    <3>. USE DEF Points, Finish
    <3>3. CASE LoginRead(q)
      <4>1. pc'[r] = "login" /\ job'[r] = [k |-> password] /\ password' = password
        BY <3>1, <3>3 DEF LoginRead, userVars
      <4>. QED BY <4>1 DEF JobOK, TypeInv, DocsInv
    <3>4. ASSUME NEW s \in Sessions, TokenRead(q, s) PROVE JobOK(r)'
      <4>1. /\ pc'[r] \in {"rotate", "logout"}
            /\ job'[r] = [k |-> generation[s], sid |-> s, time |-> now]
            /\ UNCHANGED <<generation, expires, born, now>>
        BY <3>1, <3>4 DEF TokenRead, sessionVars
      <4>2. generation[s] \in Nat \ {0} /\ expires[s] <= now + SessionTTL /\ born[s] # -1
            /\ now \in 0..MaxNow
        BY <3>4 DEF TokenRead, Active, SessionInv, TypeInv, DocsInv, WorldInv
      <4>3. generation[s] <= Used' + 1
        BY <4>1, CountStep DEF CountInv
      <4>4. Read(job[r])'
        BY <4>1, <4>2, <4>3 DEF Read
      <4>. QED BY <4>1, <4>4 DEF JobOK
    <3>5. CASE LogoutDelete(q)
      <4>1. CASE Finish(q)
        BY <3>2, <4>1
      <4>2. CASE Goto(q, "disconnectSession", job[q])
        <5>1. pc'[r] = "disconnectSession" /\ job'[r] = job[r] /\ Read(job[r])
          BY <2>2, <3>1, <3>5, <4>2 DEF LogoutDelete, JobInv
        <5>2. Read(job[r])'
          BY <5>1, ReadStays DEF Read
        <5>. QED BY <5>1, <5>2 DEF JobOK
      <4>. QED BY <3>5, <4>1, <4>2 DEF LogoutDelete
    <3>6. CASE AskReset(q)
      <4>1. pc'[r] = "mail" /\ job'[r] = [k |-> links + 1] /\ links' = links + 1
        BY <3>1, <3>6 DEF AskReset
      <4>. QED BY <4>1 DEF JobOK, TypeInv, DocsInv
    <3>7. CASE SendMail(q)
      <4>1. CASE Finish(q)
        BY <3>2, <4>1
      <4>2. CASE Goto(q, "cleanup", job[q])
        BY <2>2, <3>1, <3>7, <4>2 DEF SendMail, JobInv, JobOK
      <4>. QED BY <3>7, <4>1, <4>2 DEF SendMail
    <3>8. CASE LoginCommit(q) \/ RotateSave(q) \/ DisconnectSession(q) \/ UpgradeLegacy(q)
               \/ LogoutLegacy(q) \/ Cleanup(q) \/ ResetPassword(q) \/ DisconnectUser(q) \/ Crash(q)
      BY <3>2, <3>8 DEF LoginCommit, RotateSave, DisconnectSession, UpgradeLegacy, LogoutLegacy,
                        Cleanup, ResetPassword, DisconnectUser, Crash
    <3>. QED BY <1>2, <3>3, <3>4, <3>5, <3>6, <3>7, <3>8 DEF Request
  <2>. QED BY <2>1, <2>2
<1>3. ASSUME NEW k \in Sockets, Socket(k) PROVE UNCHANGED <<pc, job>>
  BY <1>3 DEF Socket, Handshake, JoinSession, JoinUser, Recheck, HangUp, SocketUnchanged
<1>4. ASSUME NEW s \in Sessions, Purge(s) PROVE UNCHANGED <<pc, job>>
  BY <1>4 DEF Purge
<1>5. CASE Tick
  BY <1>1, <1>5 DEF Tick
<1>. QED BY <1>1, <1>2, <1>3, <1>4, <1>5 DEF Next
-----------------------------------------------------------------------------
(* The sockets.                                                             *)

Witness(q, s) ==
  \/ pc[q] = "disconnectSession" /\ job[q].sid = s
  \/ pc[q] \in {"disconnectUser", "crashed"}

SocketOK(k) ==
  spc[k] = "connected" /\ ended[ssid[k]] = "revoked" => \E q \in Requests : Witness(q, ssid[k])

LEMMA SocketStep ==
  ASSUME TypeInv, JobInv, SessionInv, SocketInv, Next
  PROVE  SocketInv'
<1>. SUFFICES ASSUME NEW k \in Sockets PROVE SocketOK(k)'
  BY DEF SocketInv, SocketOK, Witness
<1>0. SocketOK(k)
  BY DEF SocketInv, SocketOK, Witness
<1>. USE DEF TypeInv, WorldInv
<1>1. ASSUME NEW q \in Requests, Request(q) PROVE SocketOK(k)'
  <2>1. \A point \in Points : \A j : Goto(q, point, j) => Moves(q, point, j)
    BY GotoMoves
  <2>2. ASSUME pc[q] \notin {"disconnectSession", "disconnectUser", "crashed"},
               NEW point \in Points, NEW j, Goto(q, point, j),
               UNCHANGED <<ended, spc, ssid>>
        PROVE  SocketOK(k)'
    <3>1. \A p \in Requests, s \in Sessions : Witness(p, s) => Witness(p, s)'
      BY <2>1, <2>2 DEF Moves, Witness
    <3>. QED BY <1>0, <2>2, <3>1 DEF SocketOK
  <2>. USE DEF Points, Finish
  <2>3. CASE LoginRead(q) \/ LogoutLegacy(q) \/ (\E s \in Sessions : TokenRead(q, s))
             \/ RotateSave(q)
    BY <2>2, <2>3 DEF LoginRead, LogoutLegacy, TokenRead, RotateSave, sessionVars, socketVars
  <2>4. CASE LoginCommit(q) \/ UpgradeLegacy(q)
    BY <2>2, <2>4 DEF LoginCommit, UpgradeLegacy, CreateSession, sessionVars, socketVars
  <2>5. CASE AskReset(q) \/ SendMail(q) \/ Cleanup(q)
    BY <2>2, <2>5 DEF AskReset, SendMail, Cleanup, sessionVars, socketVars
  <2>6. CASE LogoutDelete(q)
    <3>1. CASE UNCHANGED sessionVars /\ Finish(q)
      BY <2>2, <2>6, <3>1 DEF LogoutDelete, sessionVars, socketVars
    <3>2. CASE ended' = [ended EXCEPT ![job[q].sid] = "revoked"]
               /\ Goto(q, "disconnectSession", job[q])
      <4>1. UNCHANGED <<spc, ssid>> /\ pc[q] = "logout"
        BY <2>6 DEF LogoutDelete, socketVars
      <4>2. Moves(q, "disconnectSession", job[q])
        BY <2>1, <3>2
      <4>3. \A p \in Requests, s \in Sessions : Witness(p, s) => Witness(p, s)'
        BY <4>1, <4>2 DEF Moves, Witness
      <4>4. CASE ssid[k] = job[q].sid
        BY <4>1, <4>2, <4>4 DEF Moves, SocketOK, Witness
      <4>5. CASE ssid[k] # job[q].sid
        <5>1. ended'[ssid[k]] = ended[ssid[k]]
          BY <3>2, <4>5 DEF HistoryInv
        <5>. QED BY <1>0, <4>1, <4>3, <5>1 DEF SocketOK
      <4>. QED BY <4>4, <4>5
    <3>. QED BY <2>6, <3>1, <3>2 DEF LogoutDelete
  <2>7. CASE DisconnectSession(q)
    <3>1. Moves(q, "end", NoJob)
      BY <2>1, <2>7 DEF DisconnectSession
    <3>2. pc[q] = "disconnectSession" /\ UNCHANGED <<ended, ssid>>
      BY <2>7 DEF DisconnectSession, sessionVars
    <3>3. spc'[k] = "connected" => spc[k] = "connected" /\ ssid[k] # job[q].sid
      BY <2>7 DEF DisconnectSession
    <3>4. \A p \in Requests : ssid[k] # job[q].sid /\ Witness(p, ssid[k]) => Witness(p, ssid[k])'
      BY <3>1, <3>2 DEF Moves, Witness
    <3>. QED BY <1>0, <3>2, <3>3, <3>4 DEF SocketOK
  <2>8. CASE DisconnectUser(q)
    <3>1. spc'[k] # "connected"
      BY <2>8 DEF DisconnectUser
    <3>. QED BY <3>1 DEF SocketOK
  <2>9. CASE ResetPassword(q)
    <3>1. Moves(q, "disconnectUser", NoJob)
      BY <2>1, <2>9 DEF ResetPassword
    <3>. QED BY <3>1 DEF Moves, SocketOK, Witness
  <2>10. CASE Crash(q)
    <3>1. Moves(q, "crashed", NoJob)
      BY <2>1, <2>10 DEF Crash
    <3>. QED BY <3>1 DEF Moves, SocketOK, Witness
  <2>. QED BY <1>1, <2>3, <2>4, <2>5, <2>6, <2>7, <2>8, <2>9, <2>10 DEF Request
<1>2. ASSUME NEW l \in Sockets, Socket(l) PROVE SocketOK(k)'
  <2>0. UNCHANGED <<ended, pc, job>>
    BY <1>2 DEF Socket, Handshake, JoinSession, JoinUser, Recheck, HangUp, SocketUnchanged,
                sessionVars
  <2>1. \A p \in Requests, s \in Sessions : Witness(p, s) => Witness(p, s)'
    BY <2>0 DEF Witness
  <2>2. CASE spc'[k] # "connected"
    BY <2>2 DEF SocketOK
  <2>3. CASE spc'[k] = spc[k] /\ ssid'[k] = ssid[k]
    BY <1>0, <2>0, <2>1, <2>3 DEF SocketOK
  <2>4. CASE l # k
    <3>1. spc'[k] = spc[k] /\ ssid'[k] = ssid[k]
      BY <1>2, <2>4, SocketTypes DEF Socket, Handshake, JoinSession, JoinUser, Recheck, HangUp,
                                     SocketPoints
    <3>. QED BY <2>3, <3>1
  <2>5. CASE l = k
    <3>1. CASE Recheck(l) /\ MayStay(l)
      <4>1. ended[ssid[k]] # "revoked" /\ ssid' = ssid
        BY <2>5, <3>1 DEF Recheck, MayStay, Active, SessionInv
      <4>. QED BY <2>0, <4>1 DEF SocketOK
    <3>2. CASE ~(Recheck(l) /\ MayStay(l))
      <4>1. spc'[k] # "connected"
        BY <1>2, <2>5, <3>2, SocketTypes
           DEF Socket, Handshake, JoinSession, JoinUser, Recheck, HangUp, SocketPoints
      <4>. QED BY <2>2, <4>1
    <3>. QED BY <3>1, <3>2
  <2>. QED BY <2>4, <2>5
<1>3. ASSUME NEW s \in Sessions, Purge(s) PROVE SocketOK(k)'
  <2>1. UNCHANGED <<spc, ssid, pc, job>> /\ ended' = [ended EXCEPT ![s] = "expired"]
    BY <1>3 DEF Purge, socketVars
  <2>2. ended'[ssid[k]] = "revoked" => ended[ssid[k]] = "revoked"
    BY <2>1 DEF HistoryInv
  <2>. QED BY <1>0, <2>1, <2>2 DEF SocketOK, Witness
<1>4. CASE Tick
  BY <1>0, <1>4 DEF Tick, sessionVars, socketVars, SocketOK, Witness
<1>. QED BY <1>1, <1>2, <1>3, <1>4 DEF Next
-----------------------------------------------------------------------------
(* The theorems.                                                            *)

LEMMA InitIInv == Init => IInv
<1>. SUFFICES ASSUME Init PROVE IInv
  OBVIOUS
<1>1. Used \in Nat
  BY UsedType DEF Init, Points, Done, Used
<1>2. DocsInv
  BY DEF Init, DocsInv
<1>3. WorldInv
  BY DEF Init, WorldInv, Points, SocketPoints
<1>4. HistoryInv
  BY DEF Init, HistoryInv
<1>5. CountInv
  BY <1>1 DEF Init, CountInv
<1>6. JobInv /\ SocketInv
  BY DEF Init, JobInv, SocketInv
<1>7. SessionInv
  BY DEF Init, SessionInv
<1>. QED BY <1>2, <1>3, <1>4, <1>5, <1>6, <1>7 DEF IInv, TypeInv

LEMMA StepIInv == IInv /\ [Next]_vars => IInv'
<1>. SUFFICES ASSUME IInv, [Next]_vars PROVE IInv'
  OBVIOUS
<1>1. CASE Next
  <2>1. TypeInv /\ CountInv /\ JobInv /\ SessionInv /\ SocketInv
    BY DEF IInv
  <2>2. WorldInv'
    BY <1>1, <2>1, WorldStep
  <2>3. DocsInv' /\ HistoryInv'
    BY <1>1, <2>1, DocsStep, HistoryStep
  <2>4. CountInv' /\ JobInv' /\ SessionInv' /\ SocketInv'
    BY <1>1, <2>1, <2>2, CountStep, JobStep, SessionStep, SocketStep
  <2>. QED BY <2>2, <2>3, <2>4 DEF IInv, TypeInv
<1>2. CASE UNCHANGED vars
  <2>. USE <1>2 DEF IInv, vars, userVars, sessionVars, linkVars, socketVars
  <2>1. TypeInv'
    BY DEF TypeInv, DocsInv, WorldInv, HistoryInv
  <2>2. Used' = Used
    BY UsedStays
  <2>3. CountInv' /\ JobInv'
    BY <2>2 DEF CountInv, JobInv, Read
  <2>4. SessionInv' /\ SocketInv'
    BY DEF SessionInv, SocketInv
  <2>. QED BY <2>1, <2>3, <2>4
<1>. QED BY <1>1, <1>2

\* The inductive invariant holds in every state of every behaviour.
THEOREM Inductive == Spec => []IInv
  BY InitIInv, StepIInv, PTL DEF Spec

LEMMA CountersAreBounded == IInv => TypeOK
<1>. SUFFICES ASSUME IInv PROVE TypeOK
  OBVIOUS
<1>. USE DEF IInv, TypeInv
<1>1. Used \in Nat /\ Used <= Cardinality(Requests) /\ Cardinality(Requests) \in Nat
  BY UsedType, CountsType DEF WorldInv, Done, Used
<1>2. \A n \in Nat : n <= Used + 1 => n \in Counts
  BY <1>1 DEF Counts
<1>3. password \in Counts /\ link \in Counts /\ links \in Counts
  BY <1>1, <1>2 DEF CountInv, DocsInv
<1>4. mailed \subseteq Counts
  BY <1>1, <1>2 DEF CountInv, DocsInv
<1>5. generation \in [Sessions -> Counts]
  BY <1>2 DEF CountInv, DocsInv
<1>6. born \in [Sessions -> {-1} \cup Counts]
  <2>1. \A s \in Sessions : born[s] \in {-1} \cup Counts
    BY <1>1, <1>2 DEF CountInv, DocsInv, HistoryInv
  <2>. QED BY <2>1 DEF HistoryInv
<1>. QED BY <1>3, <1>4, <1>5, <1>6 DEF TypeOK, DocsInv, WorldInv, HistoryInv

\* Every variable keeps its type, and each counter is bounded by the number of
\* requests.
THEOREM TypeCorrect == Spec => []TypeOK
  BY Inductive, CountersAreBounded, PTL

\* README.md:193: no session from before a password reset survives it or is
\* brought back by a request that was under way.
THEOREM ResetRevokesAll == Spec => []SessionsAreCurrent
<1>1. IInv => SessionsAreCurrent
  BY DEF IInv, SessionInv, SessionsAreCurrent
<1>. QED BY <1>1, Inductive, PTL

\* auth.service.ts, rotateRefreshToken: a refresh token is exchanged at most
\* once.
THEOREM TokensAreSpentOnce == Spec => []TokenExchangedOnce
<1>1. IInv => TokenExchangedOnce
  BY DEF IInv, SessionInv, TokenExchangedOnce
<1>. QED BY <1>1, Inductive, PTL

\* realtime/socket.ts: a revoked session has no connected socket once the
\* request that revoked it has returned.
THEOREM RevocationReachesSockets == Spec => []RevokedSocketsClose
<1>1. IInv => RevokedSocketsClose
  BY DEF IInv, SocketInv, RevokedSocketsClose
<1>. QED BY <1>1, Inductive, PTL

LEMMA LogoutsUseTheLastToken ==
  ASSUME IInv, Next
  PROVE  EndsByLastToken
<1>. SUFFICES ASSUME NEW q \in Requests, NEW s \in Sessions,
                     pc[q] = "logout", pc'[q] = "disconnectSession", job[q].sid = s
     PROVE exchanged[s][job[q].k] = 0
  BY DEF EndsByLastToken
<1>. USE DEF IInv, TypeInv
<1>1. Request(q)
  <2>1. ASSUME NEW p \in Requests, Request(p), p # q PROVE pc'[q] = pc[q]
    <3>1. \E point \in Points : \E j : Goto(p, point, j)
      BY <2>1 DEF Request, LoginRead, LoginCommit, TokenRead, RotateSave, LogoutDelete,
                  DisconnectSession, UpgradeLegacy, LogoutLegacy, AskReset, SendMail, Cleanup,
                  ResetPassword, DisconnectUser, Crash, Finish, Points
    <3>. QED BY <2>1, <3>1, GotoMoves DEF Moves
  <2>2. ASSUME NEW k \in Sockets, Socket(k) PROVE pc' = pc
    BY <2>2 DEF Socket, Handshake, JoinSession, JoinUser, Recheck, HangUp, SocketUnchanged
  <2>3. ASSUME NEW r \in Sessions, Purge(r) PROVE pc' = pc
    BY <2>3 DEF Purge
  <2>4. CASE Tick
    BY <2>4 DEF Tick
  <2>. QED BY <2>1, <2>2, <2>3, <2>4 DEF Next
<1>2. LogoutDelete(q)
  BY <1>1 DEF Request, LoginRead, LoginCommit, TokenRead, RotateSave, DisconnectSession,
              UpgradeLegacy, LogoutLegacy, AskReset, SendMail, Cleanup, ResetPassword,
              DisconnectUser, Crash
<1>3. SameToken(q)
  <2>1. CASE Finish(q)
    <3>1. pc'[q] = "end"
      BY <2>1, GotoMoves DEF Finish, Moves, Points
    <3>. QED BY <3>1
  <2>. QED BY <1>2, <2>1 DEF LogoutDelete
<1>4. job[q].k \in Nat \ {0} /\ job[q].k <= Used + 1
  BY DEF JobInv, Read
<1>5. job[q].k \in Counts
  <2>1. Used \in Nat /\ Used <= Cardinality(Requests)
    BY UsedType DEF WorldInv, Done, Used
  <2>. QED BY <1>4, <2>1, CountsType DEF Counts
<1>6. generation[s] = job[q].k
  BY <1>3 DEF SameToken
<1>. QED BY <1>4, <1>5, <1>6 DEF SessionInv

LEMMA SessionsGetOlder ==
  ASSUME IInv, Next
  PROVE  LifeGrows
<1>. SUFFICES ASSUME NEW s \in Sessions, generation[s] > 0, generation'[s] > 0
     PROVE expires'[s] >= expires[s]
  BY DEF LifeGrows
<1>. USE DEF IInv, TypeInv, DocsInv, HistoryInv
<1>1. CASE Resting
  BY <1>1 DEF Resting, sessionVars
<1>2. CASE Begins
  BY <1>2 DEF Begins, CreateSession, SessionInv
<1>3. CASE Rotates
  <2>1. PICK q \in Requests :
          /\ pc[q] = "rotate" /\ SameToken(q)
          /\ expires' = [expires EXCEPT ![job[q].sid] = NewExpiry(q)]
    BY <1>3 DEF Rotates
  <2>2. Read(job[q])
    BY <2>1 DEF JobInv
  <2>3. CASE job[q].sid = s
    <3>1. job[q].k \in Nat /\ job[q].time \in Nat
      BY <2>2 DEF Read
    <3>2. expires[s] <= job[q].time + SessionTTL
      BY <2>1, <2>2, <2>3 DEF Read, SameToken
    <3>. QED BY <2>1, <2>3, <3>1, <3>2 DEF NewExpiry
  <2>4. CASE job[q].sid # s
    BY <2>1, <2>4
  <2>. QED BY <2>3, <2>4
<1>4. CASE \E r \in Sessions, how \in {"revoked", "expired"} : Ends(r, how)
  BY <1>4 DEF Ends
<1>5. CASE Resets
  BY <1>5 DEF Resets
<1>. QED BY <1>1, <1>2, <1>3, <1>4, <1>5, Effects

\* auth.service.ts:333: a logout ends a session only with its last token, and a
\* rotation never shortens the session's life.
THEOREM RotationsAreRespected == Spec => RotationIsRespected
<1>1. IInv /\ [Next]_vars => [EndsByLastToken /\ LifeGrows]_vars
  BY LogoutsUseTheLastToken, SessionsGetOlder
<1>. QED BY <1>1, Inductive, PTL DEF Spec, RotationIsRespected
-----------------------------------------------------------------------------
(* The browser's side of a session.                                         *)

USE VisitorAssumption, BrowserBounds

Fetched == [kind : Asked \cup Renewals \cup {"none"}, served : BOOLEAN, carries : Jars,
            says : Visitors \cup {NoVisitor}, sets : SUBSET Jars, away : BOOLEAN]
Grants == [user : Visitors \cup {NoVisitor}, turn : 1..MaxTurns]

\* What the cookies mean to sessions g: whose a session is, if it lives, whether a
\* refresh token is its current one, and that neither is of a session yet to come.
Serves(g, id, v) == id \in DOMAIN g => g[id].user \in {v, NoVisitor}
Open(g, token) ==
  token[1] \in DOMAIN g /\ g[token[1]].user # NoVisitor /\ g[token[1]].turn = token[2]
Genuine(g, c) ==
  /\ c \in Jars
  /\ c.access \in {0, c.refresh[1]}
  /\ c.refresh[1] \in DOMAIN g \cup {0}
  /\ c.refresh[1] \in DOMAIN g /\ g[c.refresh[1]].user # NoVisitor =>
       c.refresh[2] <= g[c.refresh[1]].turn

CookiesInv ==
  /\ Len(grants) <= MaxSessions
  /\ Genuine(grants, jar)
  /\ \A f \in Fetches : \A c \in fetches[f].sets : Genuine(grants, c)
  /\ \A f \in Fetches : fetches[f].carries.access \in DOMAIN grants \cup {0}
  /\ listing.carries \in DOMAIN grants \cup {0}

\* What is under way at each point of the start.
BootKinds == {"session", "bootRefresh", "sessionAgain"}
BootInv ==
  /\ boot \in {"start", "failed"} => auth = NoVisitor /\ \A f \in Fetches : ~InFlight(f)
  /\ boot = "asking" =>
       \A f \in Fetches : InFlight(f) =>
         fetches[f].kind \in BootKinds /\ \A g \in Fetches : InFlight(g) => g = f
  /\ boot = "done" => \A f \in Fetches : fetches[f].kind \notin BootKinds

\* What a request knows.
FetchInv ==
  \A f \in Fetches :
    LET x == fetches[f] IN
    /\ ~x.served => x.sets = {} /\ x.says = NoVisitor
    /\ x.kind \in Asked => x.sets = {}
    /\ x.kind \in {"session", "sessionAgain"} =>
         /\ x.carries.access \in {0, jar.refresh[1]}
         /\ x.says # NoVisitor => Serves(grants, jar.refresh[1], x.says)
    /\ x.kind = "sessionAgain" => auth # NoVisitor
    /\ x.kind = "login" /\ x.served =>
         x.says # NoVisitor /\ x.sets # {} /\ \A c \in x.sets : Serves(grants, c.refresh[1], x.says)
    /\ x.kind = "logout" /\ x.served =>
         x.says = NoVisitor /\ (x.sets = {NoJar} \/ (x.sets = {} /\ x.away))

\* A request that changes the session does so alone, and knows the cookies.
RenewInv ==
  /\ \A f, g \in Fetches : Renewing(f) /\ Renewing(g) => f = g
  /\ \A f \in Fetches :
       LET x == fetches[f] IN
       /\ x.kind = "login" => auth = NoVisitor
       /\ x.kind \in {"bootRefresh", "pageRefresh"} =>
            /\ ~x.served => x.carries.refresh = jar.refresh
            /\ x.served /\ ~x.away => ~Open(grants, jar.refresh)
            /\ x.served /\ x.says = NoVisitor => x.sets = {}
            /\ x.says # NoVisitor =>
                 /\ x.sets # {} /\ \A c \in x.sets : c.refresh[1] = jar.refresh[1]
                 /\ Serves(grants, jar.refresh[1], x.says)
                 /\ x.kind = "pageRefresh" => x.says = auth \/ (auth = NoVisitor /\ declined)

\* Who is shown, and whose cookies the browser has.
OwnerInv ==
  /\ boot = "done" /\ auth = NoVisitor /\ ~declined => ~Open(grants, jar.refresh)
  /\ auth # NoVisitor => Serves(grants, jar.refresh[1], auth)

\* Whose workspaces are shown and asked for.
PickerInv ==
  /\ ~due /\ (auth = NoVisitor \/ ~Ready) =>
       list = NoVisitor /\ listing = NoListing /\ shown = NoRoom
  /\ ~due /\ listing # NoListing => listing.as = auth
  /\ ~due /\ auth # NoVisitor /\ Ready => activeUser = auth
PickerIsOwn ==
  /\ auth # NoVisitor => list \in {auth, NoVisitor}
  /\ ~due /\ listing # NoListing => Serves(grants, listing.carries, auth)
  /\ auth # NoVisitor /\ ~elsewhere /\ shown # NoRoom => saved[auth] = shown

BrowserInv ==
  /\ BrowserTypeOK /\ CookiesInv /\ BootInv /\ FetchInv /\ PickerInv
  /\ ~unsettled => RenewInv /\ OwnerInv /\ PickerIsOwn
\* What a step does to one slot of fetches.
Slot(f, kind, served, access, refresh, says, sets) ==
  /\ fetches' \in [Fetches -> Fetched]
  /\ \A g \in Fetches : g # f => fetches'[g] = fetches[g]
  /\ fetches'[f].kind = kind /\ fetches'[f].served = served
  /\ fetches'[f].carries.access = access /\ fetches'[f].carries.refresh = refresh
  /\ fetches'[f].says = says /\ fetches'[f].sets = sets
Asks(f, kind, cookies) ==
  /\ Slot(f, kind, FALSE, IF kind \in Asked THEN cookies.access ELSE 0,
          IF kind \in Asked THEN NoToken ELSE cookies.refresh, NoVisitor, {})
  /\ kind \in Renewals /\ ~unsettled' =>
       \A g \in Fetches : g # f => fetches[g].kind \notin Renewals

Kinds == Asked \cup Renewals \cup {"none"}

\* An empty cookie jar and a free slot have their types.
LEMMA NoJarIsJar == NoJar \in Jars /\ NoFetch \in Fetched
  BY DEF NoJar, Jars, NoToken, NoFetch, Fetched

\* What Ask, Answered, Drop and StoreCookies do, in terms of the parts of a slot.
LEMMA AskingSlot ==
  ASSUME fetches \in [Fetches -> Fetched], NEW f \in Fetches, NEW kind \in Kinds,
         jar \in Jars, Ask(f, kind, jar)
  PROVE  Asks(f, kind, jar)
<1>. DEFINE a == IF kind \in Asked THEN jar.access ELSE 0
            r == IF kind \in Asked THEN NoToken ELSE jar.refresh
            x == [NoFetch EXCEPT !.kind = kind, !.carries.access = a, !.carries.refresh = r]
<1>1. fetches' = [fetches EXCEPT ![f] = x]
  BY DEF Ask
<1>2. a \in SessionIds \cup {0} /\ r \in (SessionIds \X (1..MaxTurns)) \cup {NoToken}
  BY DEF Jars
<1>. HIDE DEF a, r
<1>3. x \in Fetched
  BY <1>2, NoJarIsJar DEF Fetched, Kinds, Jars
<1>4. /\ x.kind = kind /\ x.served = FALSE /\ x.carries.access = a /\ x.carries.refresh = r
      /\ x.says = NoVisitor /\ x.sets = {}
  BY DEF NoFetch, NoJar
<1>. HIDE DEF x
<1>5. fetches' \in [Fetches -> Fetched] /\ fetches'[f] = x /\ \A g \in Fetches : g # f => fetches'[g] = fetches[g]
  BY <1>1, <1>3
<1>6. kind \in Renewals /\ ~unsettled' =>
        \A g \in Fetches : g # f => fetches[g].kind \notin Renewals
  BY DEF Ask, Renewing
<1>. QED BY <1>4, <1>5, <1>6 DEF Asks, Slot, a, r

LEMMA AskingAgainSlot ==
  ASSUME fetches \in [Fetches -> Fetched], NEW f \in Fetches, NEW kind \in Kinds,
         jar' \in Jars, Ask(f, kind, jar')
  PROVE  Asks(f, kind, jar')
<1>. DEFINE a == IF kind \in Asked THEN jar'.access ELSE 0
            r == IF kind \in Asked THEN NoToken ELSE jar'.refresh
            x == [NoFetch EXCEPT !.kind = kind, !.carries.access = a, !.carries.refresh = r]
<1>1. fetches' = [fetches EXCEPT ![f] = x]
  BY DEF Ask
<1>2. a \in SessionIds \cup {0} /\ r \in (SessionIds \X (1..MaxTurns)) \cup {NoToken}
  BY DEF Jars
<1>. HIDE DEF a, r
<1>3. x \in Fetched
  BY <1>2, NoJarIsJar DEF Fetched, Kinds, Jars
<1>4. /\ x.kind = kind /\ x.served = FALSE /\ x.carries.access = a /\ x.carries.refresh = r
      /\ x.says = NoVisitor /\ x.sets = {}
  BY DEF NoFetch, NoJar
<1>. HIDE DEF x
<1>5. fetches' \in [Fetches -> Fetched] /\ fetches'[f] = x /\ \A g \in Fetches : g # f => fetches'[g] = fetches[g]
  BY <1>1, <1>3
<1>6. kind \in Renewals /\ ~unsettled' =>
        \A g \in Fetches : g # f => fetches[g].kind \notin Renewals
  BY DEF Ask, Renewing
<1>. QED BY <1>4, <1>5, <1>6 DEF Asks, Slot, a, r

LEMMA AnsweredSlot ==
  ASSUME fetches \in [Fetches -> Fetched], NEW f \in Fetches,
         NEW STATE says, says \in Visitors \cup {NoVisitor},
         NEW STATE sets, sets \in SUBSET Jars, Answered(f, says, sets)
  PROVE  Slot(f, fetches[f].kind, TRUE, 0, NoToken, says, sets)
<1>. DEFINE x == [NoFetch EXCEPT !.kind = fetches[f].kind, !.served = TRUE, !.says = says, !.sets = sets]
<1>1. fetches' = [fetches EXCEPT ![f] = x]
  BY DEF Answered
<1>2. x \in Fetched
  BY NoJarIsJar DEF Fetched
<1>3. /\ x.kind = fetches[f].kind /\ x.served = TRUE /\ x.carries = NoJar
      /\ x.says = says /\ x.sets = sets
  BY DEF NoFetch
<1>. HIDE DEF x
<1>4. fetches' \in [Fetches -> Fetched] /\ fetches'[f] = x /\ \A g \in Fetches : g # f => fetches'[g] = fetches[g]
  BY <1>1, <1>2
<1>. QED BY <1>3, <1>4 DEF Slot, NoJar

LEMMA DroppedSlot ==
  ASSUME fetches \in [Fetches -> Fetched], NEW f \in Fetches,
         fetches' = [fetches EXCEPT ![f] = NoFetch]
  PROVE  Slot(f, "none", FALSE, 0, NoToken, NoVisitor, {})
  BY NoJarIsJar DEF Slot, NoFetch, NoJar

LEMMA StoredCookies ==
  ASSUME fetches \in [Fetches -> Fetched], jar \in Jars, NEW f \in Fetches, StoreCookies(f)
  PROVE  /\ fetches[f].sets = {} => jar' = jar
         /\ fetches[f].sets # {} => jar' \in fetches[f].sets
         /\ jar' \in Jars
<1>1. fetches[f].sets \subseteq Jars
  BY DEF Fetched
<1>2. fetches[f].sets # {} => (CHOOSE c \in fetches[f].sets : TRUE) \in fetches[f].sets
  OBVIOUS
<1>. QED BY <1>1, <1>2 DEF StoreCookies

\* What the steps do to the requests and the cookies.
Kept(f) ==
  /\ fetches[f].sets = {} => jar' = jar
  /\ fetches[f].sets # {} => jar' \in fetches[f].sets
  /\ jar' \in Jars
Serving(f, says, sets) == Slot(f, fetches[f].kind, TRUE, 0, NoToken, says, sets)
Frees(f) == Slot(f, "none", FALSE, 0, NoToken, NoVisitor, {})
EffectsOf(f) ==
  /\ ServeAsked(f) => Serving(f, Bearer(fetches[f].carries.access), {})
  /\ ServeRefresh(f) =>
       LET token == fetches[f].carries.refresh  id == token[1]  turn == token[2] + 1 IN
       IF Current(token)
       THEN turn \in 1..MaxTurns /\ id \in SessionIds /\ Serving(f, grants[id].user, Cookies(id, turn))
       ELSE Serving(f, NoVisitor, {})
  /\ ServeLogout(f) => Serving(f, NoVisitor, {NoJar})
  /\ \A v \in Visitors :
       ServeLogin(f, v) => Len(grants) + 1 \in SessionIds /\ Serving(f, v, Cookies(Len(grants) + 1, 1))
  /\ LoadSession(f) => Asks(f, "session", jar)
  /\ AskPage(f) => Asks(f, "page", jar)
  /\ LogIn(f) => Asks(f, "login", jar)
  /\ LogOut(f) => Asks(f, "logout", jar)
  /\ SessionAnswered(f) =>
       /\ Kept(f)
       /\ IF fetches[f].says = NoVisitor /\ fetches[f].kind = "session"
          THEN Asks(f, "bootRefresh", jar') ELSE Frees(f)
  /\ RefreshAnswered(f) =>
       /\ Kept(f)
       /\ IF fetches[f].says # NoVisitor /\ fetches[f].kind = "bootRefresh"
          THEN Asks(f, "sessionAgain", jar') ELSE Frees(f)
  /\ PageAnswered(f) =>
       Kept(f) /\ IF fetches[f].says = NoVisitor THEN Asks(f, "pageRefresh", jar') ELSE Frees(f)
  /\ LogAnswered(f) => Kept(f) /\ Frees(f)
  /\ Lost(f) => (Kept(f) \/ jar' = jar) /\ Frees(f)

\* What an error answers: a login's frees its slot, a logout's may clear the cookies.
Declines(f) ==
  IF fetches[f].kind = "login" THEN Frees(f)
  ELSE /\ fetches'[f].away
       /\ \/ Serving(f, NoVisitor, {})
          \/ fetches[f].kind = "logout" /\ Serving(f, NoVisitor, {NoJar})

BrowserTypes == BrowserTypeOK /\ Len(grants) <= MaxSessions

LEMMA GrantsAre ==
  ASSUME BrowserTypes
  PROVE  /\ grants \in Seq(Grants) /\ DOMAIN grants = 1..Len(grants) /\ Len(grants) \in Nat
         /\ DOMAIN grants \subseteq SessionIds /\ 0 \notin DOMAIN grants
         /\ \A id \in DOMAIN grants :
              /\ grants[id].user \in Visitors \cup {NoVisitor} /\ grants[id].turn \in 1..MaxTurns
              /\ grants[id] \in Grants
<1>1. grants \in Seq(Grants)
  BY DEF BrowserTypes, BrowserTypeOK, Grants
<1>2. Len(grants) \in Nat /\ DOMAIN grants = 1..Len(grants) /\ \A id \in DOMAIN grants : grants[id] \in Grants
  BY <1>1
<1>3. Len(grants) <= MaxSessions
  BY DEF BrowserTypes
<1>4. \A x \in Grants : x.user \in Visitors \cup {NoVisitor} /\ x.turn \in 1..MaxTurns
  BY DEF Grants
<1>. QED BY <1>1, <1>2, <1>3, <1>4 DEF SessionIds

LEMMA FetchesAre ==
  ASSUME BrowserTypes
  PROVE  /\ fetches \in [Fetches -> Fetched] /\ jar \in Jars
         /\ \A f \in Fetches :
              /\ fetches[f].carries \in Jars /\ fetches[f].sets \in SUBSET Jars
              /\ fetches[f].says \in Visitors \cup {NoVisitor}
              /\ fetches[f].served \in BOOLEAN /\ fetches[f].away \in BOOLEAN
              /\ fetches[f].kind \in Kinds
  BY DEF BrowserTypes, BrowserTypeOK, Fetched, Kinds

LEMMA JarsAre ==
  ASSUME NEW c \in Jars
  PROVE  /\ c.access \in SessionIds \cup {0}
         /\ c.refresh \in (SessionIds \X (1..MaxTurns)) \cup {NoToken}
         /\ c.refresh[1] \in SessionIds \cup {0} /\ c.refresh[2] \in 0..MaxTurns
  BY DEF Jars, NoToken

LEMMA CookiesAreJars ==
  ASSUME NEW id \in SessionIds, NEW turn \in 1..MaxTurns
  PROVE  Cookies(id, turn) \in SUBSET Jars
  BY DEF Cookies, Jars

LEMMA Bearers == BrowserTypes => \A id : Bearer(id) \in Visitors \cup {NoVisitor}
  BY GrantsAre DEF Bearer

\* What each handler does to its slot and to the cookies.
LEMMA SlotEffects ==
  ASSUME BrowserTypes, NEW f \in Fetches
  PROVE  EffectsOf(f)
<1>0. /\ fetches \in [Fetches -> Fetched] /\ jar \in Jars /\ fetches[f].carries \in Jars
      /\ fetches[f].kind \in Kinds
  BY FetchesAre
<1>0a. /\ "session" \in Kinds /\ "bootRefresh" \in Kinds /\ "sessionAgain" \in Kinds /\ "page" \in Kinds
       /\ "pageRefresh" \in Kinds /\ "login" \in Kinds /\ "logout" \in Kinds
  BY DEF Kinds, Asked, Renewals
<1>1. ServeAsked(f) => Serving(f, Bearer(fetches[f].carries.access), {})
  BY <1>0, AnsweredSlot, Bearers DEF ServeAsked, Serving
<1>2. ServeRefresh(f) =>
       LET token == fetches[f].carries.refresh  id == token[1]  turn == token[2] + 1 IN
       IF Current(token)
       THEN turn \in 1..MaxTurns /\ id \in SessionIds /\ Serving(f, grants[id].user, Cookies(id, turn))
       ELSE Serving(f, NoVisitor, {})
  <2>. DEFINE token == fetches[f].carries.refresh
  <2>. SUFFICES ASSUME ServeRefresh(f)
                PROVE  IF Current(token)
                       THEN /\ token[2] + 1 \in 1..MaxTurns /\ token[1] \in SessionIds
                            /\ Serving(f, grants[token[1]].user, Cookies(token[1], token[2] + 1))
                       ELSE Serving(f, NoVisitor, {})
    OBVIOUS
  <2>1. CASE Current(token)
    <3>1. token[1] \in SessionIds /\ token[2] \in 1..MaxTurns /\ token[1] \in DOMAIN grants
      BY <2>1, GrantsAre DEF Current
    <3>2. token[2] + 1 \in 1..MaxTurns
      BY <2>1, <3>1 DEF ServeRefresh
    <3>3. Cookies(token[1], token[2] + 1) \in SUBSET Jars /\ grants[token[1]].user \in Visitors \cup {NoVisitor}
      BY <3>1, <3>2, CookiesAreJars, GrantsAre
    <3>4. Answered(f, grants[token[1]].user, Cookies(token[1], token[2] + 1))
      BY <2>1 DEF ServeRefresh
    <3>. QED BY <1>0, <2>1, <3>1, <3>2, <3>3, <3>4, AnsweredSlot DEF Serving
  <2>2. CASE ~Current(token)
    <3>1. Answered(f, NoVisitor, {})
      BY <2>2 DEF ServeRefresh
    <3>. QED BY <1>0, <2>2, <3>1, AnsweredSlot DEF Serving
  <2>. QED BY <2>1, <2>2
<1>3. ServeLogout(f) => Serving(f, NoVisitor, {NoJar})
  BY <1>0, AnsweredSlot, NoJarIsJar DEF ServeLogout, Serving
<1>4. ASSUME NEW v \in Visitors, ServeLogin(f, v)
      PROVE  Len(grants) + 1 \in SessionIds /\ Serving(f, v, Cookies(Len(grants) + 1, 1))
  <2>1. Len(grants) + 1 \in SessionIds /\ 1 \in 1..MaxTurns
    BY <1>4, GrantsAre DEF ServeLogin, SessionIds
  <2>2. Cookies(Len(grants) + 1, 1) \in SUBSET Jars
    BY <2>1, CookiesAreJars
  <2>3. Answered(f, v, Cookies(Len(grants) + 1, 1))
    BY <1>4 DEF ServeLogin
  <2>. QED BY <1>0, <2>1, <2>2, <2>3, AnsweredSlot DEF Serving
<1>5. LoadSession(f) => Asks(f, "session", jar)
  BY <1>0, <1>0a, AskingSlot DEF LoadSession
<1>6. AskPage(f) => Asks(f, "page", jar)
  BY <1>0, <1>0a, AskingSlot DEF AskPage
<1>7. LogIn(f) => Asks(f, "login", jar)
  BY <1>0, <1>0a, AskingSlot DEF LogIn
<1>8. LogOut(f) => Asks(f, "logout", jar)
  BY <1>0, <1>0a, AskingSlot DEF LogOut
<1>9. StoreCookies(f) => Kept(f)
  BY <1>0, StoredCookies DEF Kept
<1>10. Drop(f) => Frees(f)
  BY <1>0, DroppedSlot DEF Drop, Frees
<1>11. ASSUME SessionAnswered(f)
       PROVE  /\ Kept(f)
              /\ IF fetches[f].says = NoVisitor /\ fetches[f].kind = "session"
                 THEN Asks(f, "bootRefresh", jar') ELSE Frees(f)
  <2>1. Kept(f)
    BY <1>9, <1>11 DEF SessionAnswered
  <2>. QED BY <1>0, <1>0a, <1>10, <1>11, <2>1, AskingAgainSlot DEF SessionAnswered, Kept
<1>12. ASSUME RefreshAnswered(f)
       PROVE  /\ Kept(f)
              /\ IF fetches[f].says # NoVisitor /\ fetches[f].kind = "bootRefresh"
                 THEN Asks(f, "sessionAgain", jar') ELSE Frees(f)
  <2>1. Kept(f)
    BY <1>9, <1>12 DEF RefreshAnswered
  <2>. QED BY <1>0, <1>0a, <1>10, <1>12, <2>1, AskingAgainSlot DEF RefreshAnswered, Kept
<1>13. ASSUME PageAnswered(f)
       PROVE  Kept(f) /\ IF fetches[f].says = NoVisitor THEN Asks(f, "pageRefresh", jar') ELSE Frees(f)
  <2>1. Kept(f)
    BY <1>9, <1>13 DEF PageAnswered
  <2>. QED BY <1>0, <1>0a, <1>10, <1>13, <2>1, AskingAgainSlot DEF PageAnswered, Kept
<1>14. LogAnswered(f) => Kept(f) /\ Frees(f)
  BY <1>0, <1>9, DroppedSlot DEF LogAnswered, Frees
<1>15. Lost(f) => (Kept(f) \/ jar' = jar) /\ Frees(f)
  BY <1>0, <1>9, DroppedSlot DEF Lost, Frees
<1>. QED BY <1>1, <1>2, <1>3, <1>4, <1>5, <1>6, <1>7, <1>8, <1>11, <1>12, <1>13, <1>14, <1>15
         DEF EffectsOf

LEMMA DeclinedSlot ==
  ASSUME BrowserTypes, NEW f \in Fetches, TurnAway(f)
  PROVE  /\ fetches[f].kind # "none" /\ ~fetches[f].served /\ Declines(f)
         /\ UNCHANGED <<jar, tabVars, unsettled>>
<1>0. fetches \in [Fetches -> Fetched] /\ fetches[f].kind \in Kinds
  BY FetchesAre
<1>1. PICK sets \in SUBSET {NoJar} :
        /\ sets # {} => fetches[f].kind = "logout"
        /\ fetches' = [fetches EXCEPT ![f] =
             IF fetches[f].kind = "login" THEN NoFetch
             ELSE [NoFetch EXCEPT !.kind = fetches[f].kind, !.served = TRUE, !.sets = sets,
                                  !.away = TRUE]]
  BY DEF TurnAway
<1>2. CASE fetches[f].kind = "login"
  <2>1. Frees(f)
    BY <1>0, <1>1, <1>2, DroppedSlot DEF Frees
  <2>. QED BY <1>2, <2>1 DEF TurnAway, Declines
<1>3. CASE fetches[f].kind # "login"
  <2>. DEFINE x == [NoFetch EXCEPT !.kind = fetches[f].kind, !.served = TRUE, !.sets = sets, !.away = TRUE]
  <2>1. fetches' = [fetches EXCEPT ![f] = x]
    BY <1>1, <1>3
  <2>2. x \in Fetched
    BY <1>0, NoJarIsJar DEF Fetched, Kinds
  <2>3. /\ x.kind = fetches[f].kind /\ x.served = TRUE /\ x.carries = NoJar
        /\ x.says = NoVisitor /\ x.sets = sets /\ x.away = TRUE
    BY DEF NoFetch
  <2>. HIDE DEF x
  <2>4. /\ fetches' \in [Fetches -> Fetched] /\ fetches'[f] = x
        /\ \A g \in Fetches : g # f => fetches'[g] = fetches[g]
    BY <1>0, <2>1, <2>2
  <2>5. Serving(f, NoVisitor, sets) /\ fetches'[f].away
    BY <2>3, <2>4 DEF Serving, Slot, NoJar
  <2>6. \/ Serving(f, NoVisitor, {})
        \/ fetches[f].kind = "logout" /\ Serving(f, NoVisitor, {NoJar})
    <3>1. CASE sets = {}
      BY <2>5, <3>1
    <3>2. CASE sets # {}
      <4>1. sets = {NoJar} /\ fetches[f].kind = "logout"
        BY <1>1, <3>2
      <4>. QED BY <2>5, <4>1
    <3>. QED BY <3>1, <3>2
  <2>7. Declines(f)
    BY ONLY <1>3, <2>5, <2>6 DEF Declines
  <2>. QED BY <2>7 DEF TurnAway
<1>. QED BY <1>2, <1>3

-----------------------------------------------------------------------------
(* Sessions only get older.                                                 *)

Ages ==
  /\ DOMAIN grants \subseteq DOMAIN grants'
  /\ \A id \in DOMAIN grants :
       /\ grants'[id].user \in {grants[id].user, NoVisitor}
       /\ grants'[id].user # NoVisitor => grants'[id].turn >= grants[id].turn

\* The three things the server does to a session.
LEMMA SessionEnds ==
  ASSUME BrowserTypes, NEW id \in DOMAIN grants, grants' = [grants EXCEPT ![id] = Ended]
  PROVE  grants' \in Seq(Grants) /\ Len(grants') = Len(grants) /\ Ages
<1>1. Ended \in Grants /\ Ended.user = NoVisitor
  BY DEF Ended, Grants
<1>2. grants \in Seq(Grants) /\ DOMAIN grants = 1..Len(grants)
  BY GrantsAre
<1>3. \A i \in DOMAIN grants : grants[i].turn \in Nat
  BY GrantsAre
<1>4. grants' \in Seq(Grants) /\ Len(grants') = Len(grants) /\ DOMAIN grants' = DOMAIN grants
  BY <1>1, <1>2
<1>5. \A i \in DOMAIN grants : grants'[i] = IF i = id THEN Ended ELSE grants[i]
  BY <1>2
<1>. QED BY <1>1, <1>3, <1>4, <1>5 DEF Ages

LEMMA SessionTurns ==
  ASSUME BrowserTypes, NEW id \in DOMAIN grants, NEW turn \in 1..MaxTurns,
         turn >= grants[id].turn, grants' = [grants EXCEPT ![id].turn = turn]
  PROVE  /\ grants' \in Seq(Grants) /\ Len(grants') = Len(grants) /\ Ages
         /\ DOMAIN grants' = DOMAIN grants /\ grants'[id].user = grants[id].user
         /\ grants'[id].turn = turn
<1>. DEFINE x == [grants[id] EXCEPT !.turn = turn]
<1>1. grants \in Seq(Grants) /\ DOMAIN grants = 1..Len(grants) /\ grants[id] \in Grants
  BY GrantsAre
<1>2. x \in Grants /\ x.user = grants[id].user /\ x.turn = turn
  BY <1>1 DEF Grants
<1>3. grants' = [grants EXCEPT ![id] = x]
  OBVIOUS
<1>. HIDE DEF x
<1>4. grants' \in Seq(Grants) /\ Len(grants') = Len(grants) /\ DOMAIN grants' = DOMAIN grants
  BY <1>1, <1>2, <1>3
<1>5. \A i \in DOMAIN grants : grants'[i] = IF i = id THEN x ELSE grants[i]
  BY <1>1, <1>3
<1>6. \A i \in DOMAIN grants : grants[i].turn \in Nat
  BY GrantsAre
<1>. QED BY <1>2, <1>4, <1>5, <1>6 DEF Ages

LEMMA SessionBegins ==
  ASSUME BrowserTypes, NEW v \in Visitors, Len(grants) < MaxSessions,
         grants' = Append(grants, [user |-> v, turn |-> 1])
  PROVE  /\ grants' \in Seq(Grants) /\ Len(grants') <= MaxSessions /\ Ages
         /\ Len(grants) + 1 \in DOMAIN grants' /\ grants'[Len(grants) + 1] = [user |-> v, turn |-> 1]
         /\ \A id \in DOMAIN grants : grants'[id] = grants[id]
<1>. DEFINE x == [user |-> v, turn |-> 1]
<1>1. grants \in Seq(Grants) /\ DOMAIN grants = 1..Len(grants) /\ Len(grants) \in Nat
  BY GrantsAre
<1>2. x \in Grants
  BY DEF Grants
<1>. HIDE DEF x
<1>3. grants' = Append(grants, x)
  BY DEF x
<1>4. /\ grants' \in Seq(Grants) /\ Len(grants') = Len(grants) + 1
      /\ DOMAIN grants' = 1..(Len(grants) + 1)
      /\ \A id \in DOMAIN grants : grants'[id] = grants[id]
      /\ grants'[Len(grants) + 1] = x
  BY <1>1, <1>2, <1>3
<1>5. \A i \in DOMAIN grants : grants[i].turn \in Nat
  BY GrantsAre
<1>6. DOMAIN grants \subseteq DOMAIN grants' /\ Len(grants) + 1 \in DOMAIN grants'
  BY <1>1, <1>4
<1>. QED BY <1>1, <1>4, <1>5, <1>6 DEF Ages, x

\* No step brings a session back to life or turns it back.
LEMMA GrantsStep ==
  ASSUME BrowserTypes, [BrowserNext]_browserVars
  PROVE  grants' \in Seq(Grants) /\ Len(grants') <= MaxSessions /\ Ages
<1>0. /\ grants \in Seq(Grants) /\ Len(grants) <= MaxSessions
      /\ grants' = grants => Ages
  <2>1. \A i \in DOMAIN grants : grants[i].turn \in Nat
    BY GrantsAre
  <2>. QED BY <2>1, GrantsAre DEF BrowserTypes, Ages
<1>1. ASSUME RunEffects PROVE grants' \in Seq(Grants) /\ Len(grants') <= MaxSessions /\ Ages
  BY <1>1, <1>0 DEF RunEffects
<1>2. ASSUME NEW f \in Fetches, AskPage(f)
      PROVE  grants' \in Seq(Grants) /\ Len(grants') <= MaxSessions /\ Ages
  BY <1>2, <1>0 DEF AskPage
<1>3. ASSUME NEW f \in Fetches, ServeAsked(f)
      PROVE  grants' \in Seq(Grants) /\ Len(grants') <= MaxSessions /\ Ages
  BY <1>3, <1>0 DEF ServeAsked
<1>4. ASSUME NEW f \in Fetches, ServeRefresh(f)
      PROVE  grants' \in Seq(Grants) /\ Len(grants') <= MaxSessions /\ Ages
  <2>. DEFINE token == fetches[f].carries.refresh
  <2>1. CASE Current(token)
    <3>1. token[1] \in DOMAIN grants /\ token[2] + 1 \in 1..MaxTurns /\ grants[token[1]].turn = token[2]
      BY <1>4, <2>1, SlotEffects DEF EffectsOf, Current
    <3>2. grants' = [grants EXCEPT ![token[1]].turn = token[2] + 1]
      BY <1>4, <2>1 DEF ServeRefresh
    <3>3. token[2] + 1 >= grants[token[1]].turn
      BY <3>1, GrantsAre
    <3>. HIDE DEF token
    <3>. QED BY <1>0, <3>1, <3>2, <3>3, SessionTurns
  <2>2. CASE ~Current(token)
    BY <1>4, <1>0, <2>2 DEF ServeRefresh
  <2>. QED BY <2>1, <2>2
<1>5. ASSUME NEW f \in Fetches, ServeLogout(f)
      PROVE  grants' \in Seq(Grants) /\ Len(grants') <= MaxSessions /\ Ages
  BY <1>5, <1>0, SessionEnds DEF ServeLogout, Current
<1>6. ASSUME NEW f \in Fetches, NEW v \in Visitors, ServeLogin(f, v)
      PROVE  grants' \in Seq(Grants) /\ Len(grants') <= MaxSessions /\ Ages
  BY <1>6, SessionBegins DEF ServeLogin
<1>7. ASSUME NEW f \in Fetches, LoadSession(f)
      PROVE  grants' \in Seq(Grants) /\ Len(grants') <= MaxSessions /\ Ages
  BY <1>7, <1>0 DEF LoadSession
<1>8. ASSUME NEW f \in Fetches, LogIn(f)
      PROVE  grants' \in Seq(Grants) /\ Len(grants') <= MaxSessions /\ Ages
  BY <1>8, <1>0 DEF LogIn
<1>9. ASSUME NEW f \in Fetches, LogOut(f)
      PROVE  grants' \in Seq(Grants) /\ Len(grants') <= MaxSessions /\ Ages
  BY <1>9, <1>0 DEF LogOut
<1>10. ASSUME NEW f \in Fetches, SessionAnswered(f)
       PROVE  grants' \in Seq(Grants) /\ Len(grants') <= MaxSessions /\ Ages
  BY <1>10, <1>0 DEF SessionAnswered
<1>11. ASSUME NEW f \in Fetches, RefreshAnswered(f)
       PROVE  grants' \in Seq(Grants) /\ Len(grants') <= MaxSessions /\ Ages
  BY <1>11, <1>0 DEF RefreshAnswered
<1>12. ASSUME NEW f \in Fetches, PageAnswered(f)
       PROVE  grants' \in Seq(Grants) /\ Len(grants') <= MaxSessions /\ Ages
  BY <1>12, <1>0 DEF PageAnswered
<1>13. ASSUME NEW f \in Fetches, LogAnswered(f)
       PROVE  grants' \in Seq(Grants) /\ Len(grants') <= MaxSessions /\ Ages
  BY <1>13, <1>0 DEF LogAnswered
<1>14. ASSUME NEW f \in Fetches, Lost(f)
       PROVE  grants' \in Seq(Grants) /\ Len(grants') <= MaxSessions /\ Ages
  BY <1>14, <1>0 DEF Lost
<1>15. ASSUME NEW id \in SessionIds, Revoke(id)
       PROVE  grants' \in Seq(Grants) /\ Len(grants') <= MaxSessions /\ Ages
  BY <1>15, <1>0, SessionEnds DEF Revoke
<1>16. ASSUME AccessExpires PROVE grants' \in Seq(Grants) /\ Len(grants') <= MaxSessions /\ Ages
  BY <1>16, <1>0 DEF AccessExpires
<1>17. ASSUME RetryBoot PROVE grants' \in Seq(Grants) /\ Len(grants') <= MaxSessions /\ Ages
  BY <1>17, <1>0 DEF RetryBoot
<1>18. ASSUME Reload PROVE grants' \in Seq(Grants) /\ Len(grants') <= MaxSessions /\ Ages
  BY <1>18, <1>0 DEF Reload
<1>19. ASSUME ListAnswered PROVE grants' \in Seq(Grants) /\ Len(grants') <= MaxSessions /\ Ages
  BY <1>19, <1>0 DEF ListAnswered
<1>20. ASSUME ListFailed PROVE grants' \in Seq(Grants) /\ Len(grants') <= MaxSessions /\ Ages
  BY <1>20, <1>0 DEF ListFailed
<1>21. ASSUME NEW room \in Rooms, SelectRoom(room)
       PROVE  grants' \in Seq(Grants) /\ Len(grants') <= MaxSessions /\ Ages
  BY <1>21, <1>0 DEF SelectRoom
<1>22. ASSUME NEW room \in Rooms, SelectElsewhere(room)
       PROVE  grants' \in Seq(Grants) /\ Len(grants') <= MaxSessions /\ Ages
  BY <1>22, <1>0 DEF SelectElsewhere
<1>23. ASSUME UNCHANGED browserVars
       PROVE  grants' \in Seq(Grants) /\ Len(grants') <= MaxSessions /\ Ages
  BY <1>23, <1>0 DEF browserVars
<1>24. ASSUME NEW f \in Fetches, TurnAway(f)
       PROVE  grants' \in Seq(Grants) /\ Len(grants') <= MaxSessions /\ Ages
  <2>. DEFINE token == fetches[f].carries.refresh
  <2>1. CASE UNCHANGED grants
    BY <1>0, <2>1
  <2>2. CASE Current(token) /\ token[2] < MaxTurns /\ grants' = [grants EXCEPT ![token[1]].turn = token[2] + 1]
    <3>1. token[1] \in DOMAIN grants /\ grants[token[1]].turn = token[2] /\ token[2] \in 1..MaxTurns
      BY <2>2, GrantsAre DEF Current
    <3>2. token[2] + 1 \in 1..MaxTurns /\ token[2] + 1 >= grants[token[1]].turn
      BY <2>2, <3>1
    <3>. HIDE DEF token
    <3>. QED BY <1>0, <2>2, <3>1, <3>2, SessionTurns
  <2>. QED BY <1>24, <2>1, <2>2 DEF TurnAway
<1>. QED BY <1>1, <1>2, <1>3, <1>4, <1>5, <1>6, <1>7, <1>8, <1>9, <1>10, <1>11, <1>12,
            <1>13, <1>14, <1>15, <1>16, <1>17, <1>18, <1>19, <1>20, <1>21, <1>22, <1>23, <1>24 DEF BrowserNext

\* What was said of a session before stays true.
\* What holds of cookies goes on holding while sessions age.
LEMMA Aging ==
  ASSUME BrowserTypes, Ages, grants' \in Seq(Grants)
  PROVE  /\ \A v : \A id \in DOMAIN grants \cup {0} : Serves(grants, id, v) => Serves(grants', id, v)
         /\ \A id \in DOMAIN grants \cup {0} : id \in DOMAIN grants' \cup {0}
         /\ \A c : Genuine(grants, c) => Genuine(grants', c)
         /\ \A c : Genuine(grants, c) /\ ~Open(grants, c.refresh) => ~Open(grants', c.refresh)
<1>1. /\ 0 \notin DOMAIN grants /\ 0 \notin DOMAIN grants' /\ DOMAIN grants \subseteq DOMAIN grants'
      /\ \A id \in DOMAIN grants :
           /\ grants'[id].user \in {grants[id].user, NoVisitor} /\ grants[id].turn \in Nat
           /\ grants'[id].user # NoVisitor => grants'[id].turn >= grants[id].turn
      /\ \A id \in DOMAIN grants' : grants'[id].turn \in Nat
  <2>1. \A i \in DOMAIN grants' : grants'[i] \in Grants
    OBVIOUS
  <2>2. \A x \in Grants : x.turn \in Nat
    BY DEF Grants
  <2>3. DOMAIN grants' = 1..Len(grants')
    OBVIOUS
  <2>4. 0 \notin DOMAIN grants'
    BY <2>3
  <2>. QED BY <2>1, <2>2, <2>4, GrantsAre DEF Ages
<1>2. \A c \in Jars : c.refresh[2] \in Nat
  BY JarsAre
<1>3. \A v : \A id \in DOMAIN grants \cup {0} : Serves(grants, id, v) => Serves(grants', id, v)
  BY <1>1 DEF Serves
<1>4. ASSUME NEW c, Genuine(grants, c) PROVE Genuine(grants', c)
  BY <1>1, <1>2, <1>4 DEF Genuine
<1>5. ASSUME NEW c, Genuine(grants, c), ~Open(grants, c.refresh) PROVE ~Open(grants', c.refresh)
  BY <1>1, <1>2, <1>5 DEF Genuine, Open
<1>. QED BY <1>1, <1>3, <1>4, <1>5

\* What a served request brings.
\* What a served request puts into its answer.
LEMMA BearerServes ==
  ASSUME BrowserTypes, NEW id, Bearer(id) # NoVisitor
  PROVE  id # 0 /\ Serves(grants, id, Bearer(id))
  BY GrantsAre DEF Bearer, Serves

LEMMA RefreshServes ==
  ASSUME BrowserTypes, NEW f \in Fetches, ServeRefresh(f), Current(fetches[f].carries.refresh)
  PROVE  LET token == fetches[f].carries.refresh IN
         /\ \A c \in Cookies(token[1], token[2] + 1) :
              Genuine(grants', c) /\ c.refresh[1] = token[1]
         /\ Cookies(token[1], token[2] + 1) # {}
         /\ grants[token[1]].user # NoVisitor /\ Serves(grants', token[1], grants[token[1]].user)
         /\ ~Open(grants', token)
<1>. DEFINE token == fetches[f].carries.refresh
<1>1. /\ token[1] \in DOMAIN grants /\ token[2] + 1 \in 1..MaxTurns /\ grants[token[1]].turn = token[2]
      /\ token[1] \in SessionIds /\ grants[token[1]].user # NoVisitor
  BY SlotEffects DEF EffectsOf, Current
<1>2. grants' = [grants EXCEPT ![token[1]].turn = token[2] + 1]
  BY DEF ServeRefresh
<1>3. token[2] + 1 >= grants[token[1]].turn /\ token[2] \in Nat
  BY <1>1, GrantsAre
<1>4. \A c \in Cookies(token[1], token[2] + 1) :
        /\ c \in Jars /\ c.access = token[1] /\ c.refresh = <<token[1], token[2] + 1>>
  BY <1>1 DEF Cookies, Jars
<1>5. Cookies(token[1], token[2] + 1) # {}
  BY DEF Cookies
<1>. HIDE DEF token
<1>6. /\ DOMAIN grants' = DOMAIN grants /\ grants'[token[1]].user = grants[token[1]].user
      /\ grants'[token[1]].turn = token[2] + 1
  BY <1>1, <1>2, <1>3, SessionTurns
<1>7. ASSUME NEW c \in Cookies(token[1], token[2] + 1)
      PROVE  Genuine(grants', c) /\ c.refresh[1] = token[1]
  BY <1>1, <1>3, <1>4, <1>6 DEF Genuine
<1>8. grants[token[1]].user # NoVisitor /\ Serves(grants', token[1], grants[token[1]].user)
  BY <1>1, <1>6 DEF Serves
<1>9. ~Open(grants', token)
  BY <1>3, <1>6 DEF Open
<1>. QED BY <1>5, <1>7, <1>8, <1>9 DEF token

LEMMA LoginServes ==
  ASSUME BrowserTypes, NEW f \in Fetches, NEW v \in Visitors, ServeLogin(f, v)
  PROVE  /\ \A c \in Cookies(Len(grants) + 1, 1) :
              Genuine(grants', c) /\ Serves(grants', c.refresh[1], v)
         /\ Cookies(Len(grants) + 1, 1) # {}
<1>1. Len(grants) + 1 \in SessionIds /\ 1 \in 1..MaxTurns
  BY SlotEffects DEF EffectsOf
<1>2. /\ Len(grants) + 1 \in DOMAIN grants' /\ grants'[Len(grants) + 1] = [user |-> v, turn |-> 1]
  BY SessionBegins DEF ServeLogin
<1>3. \A c \in Cookies(Len(grants) + 1, 1) :
        /\ c \in Jars /\ c.access = Len(grants) + 1 /\ c.refresh = <<Len(grants) + 1, 1>>
  BY <1>1 DEF Cookies, Jars
<1>4. Cookies(Len(grants) + 1, 1) # {}
  BY DEF Cookies
<1>. DEFINE n == Len(grants) + 1
<1>. HIDE DEF n
<1>5. ASSUME NEW c \in Cookies(n, 1) PROVE Genuine(grants', c) /\ Serves(grants', c.refresh[1], v)
  <2>1. grants'[n].user = v /\ grants'[n].turn = 1 /\ n \in DOMAIN grants'
    BY <1>2 DEF n
  <2>2. c \in Jars /\ c.access = n /\ c.refresh = <<n, 1>>
    BY <1>3 DEF n
  <2>3. c.refresh[1] = n /\ c.refresh[2] = 1
    BY <2>2
  <2>. QED BY <2>1, <2>2, <2>3 DEF Genuine, Serves
<1>. QED BY <1>4, <1>5 DEF n

\* Cleared cookies open nothing.
LEMMA NoJarIsGenuine ==
  ASSUME BrowserTypes, grants' \in Seq(Grants)
  PROVE  Genuine(grants', NoJar) /\ ~Open(grants', NoJar.refresh)
<1>1. NoJar.refresh[1] = 0 /\ NoJar.access = 0
  BY DEF NoJar, NoToken
<1>2. 0 \notin DOMAIN grants'
  <2>1. DOMAIN grants' = 1..Len(grants')
    OBVIOUS
  <2>. QED BY <2>1
<1>. QED BY <1>1, <1>2, NoJarIsJar DEF Genuine, Open

-----------------------------------------------------------------------------
(* The steps keep the types.                                                *)

TabTypes ==
  /\ auth \in Visitors \cup {NoVisitor}
  /\ boot \in {"start", "asking", "done", "failed"}
  /\ listing \in [as : Visitors \cup {NoVisitor}, room : Rooms \cup {NoRoom},
       carries : SessionIds \cup {0}]
  /\ list \in Visitors \cup {NoVisitor}
  /\ shown \in Rooms \cup {NoRoom}
  /\ saved \in [Visitors -> Rooms \cup {NoRoom}]
  /\ activeUser \in Visitors \cup {NoVisitor}
  /\ {due, elsewhere, unsettled, declined} \subseteq BOOLEAN

LEMMA TypesAre ==
  BrowserTypes <=> /\ grants \in Seq(Grants) /\ Len(grants) <= MaxSessions /\ jar \in Jars
                   /\ fetches \in [Fetches -> Fetched] /\ TabTypes
  BY DEF BrowserTypes, BrowserTypeOK, Grants, Fetched, TabTypes

\* The tab's part of the types, then all of them.
LEMMA TabStep ==
  ASSUME BrowserTypes, [BrowserNext]_browserVars
  PROVE  jar' \in Jars /\ fetches' \in [Fetches -> Fetched] /\ TabTypes'
<1>. USE DEF TabTypes, tabVars, localVars, SessionUser
<1>0. TabTypes /\ jar \in Jars /\ fetches \in [Fetches -> Fetched] /\ NoJar \in Jars /\ NoFetch \in Fetched
  BY TypesAre, NoJarIsJar DEF TabTypes
<1>1. ASSUME RunEffects PROVE jar' \in Jars /\ fetches' \in [Fetches -> Fetched] /\ TabTypes'
  <2>1. jar.access \in SessionIds \cup {0}
    BY JarsAre, FetchesAre
  <2>2. CASE Ready /\ auth # NoVisitor
    <3>1. saved[auth] \in Rooms \cup {NoRoom} /\ auth \in Visitors
      BY <1>0, <2>2
    <3>2. listing' = [as |-> auth, room |-> saved[auth], carries |-> jar.access] /\ activeUser' = auth
      BY <1>1, <2>2 DEF RunEffects
    <3>. QED BY <1>1, <1>0, <2>1, <2>2, <3>1, <3>2 DEF RunEffects
  <2>3. CASE ~(Ready /\ auth # NoVisitor)
    <3>1. NoListing \in [as : Visitors \cup {NoVisitor}, room : Rooms \cup {NoRoom},
                         carries : SessionIds \cup {0}]
      BY DEF NoListing
    <3>. QED BY <1>1, <1>0, <2>3, <3>1 DEF RunEffects
  <2>. QED BY <2>2, <2>3
<1>2. ASSUME NEW f \in Fetches, AskPage(f)
      PROVE  jar' \in Jars /\ fetches' \in [Fetches -> Fetched] /\ TabTypes'
  BY <1>2, <1>0, SlotEffects, FetchesAre DEF AskPage, EffectsOf, Slot, Asks, Serving, Frees, Kept,
     Ask
<1>3. ASSUME NEW f \in Fetches, ServeAsked(f)
      PROVE  jar' \in Jars /\ fetches' \in [Fetches -> Fetched] /\ TabTypes'
  BY <1>3, <1>0, SlotEffects, FetchesAre DEF ServeAsked, EffectsOf, Slot, Asks, Serving, Frees, Kept
<1>4. ASSUME NEW f \in Fetches, ServeRefresh(f)
      PROVE  jar' \in Jars /\ fetches' \in [Fetches -> Fetched] /\ TabTypes'
  BY <1>4, <1>0, SlotEffects, FetchesAre DEF ServeRefresh, EffectsOf, Slot, Asks, Serving, Frees,
     Kept
<1>5. ASSUME NEW f \in Fetches, ServeLogout(f)
      PROVE  jar' \in Jars /\ fetches' \in [Fetches -> Fetched] /\ TabTypes'
  BY <1>5, <1>0, SlotEffects, FetchesAre DEF ServeLogout, EffectsOf, Slot, Asks, Serving, Frees,
     Kept
<1>6. ASSUME NEW f \in Fetches, NEW v \in Visitors, ServeLogin(f, v)
      PROVE  jar' \in Jars /\ fetches' \in [Fetches -> Fetched] /\ TabTypes'
  BY <1>6, <1>0, SlotEffects, FetchesAre DEF ServeLogin, EffectsOf, Slot, Asks, Serving, Frees, Kept
<1>7. ASSUME NEW f \in Fetches, LoadSession(f)
      PROVE  jar' \in Jars /\ fetches' \in [Fetches -> Fetched] /\ TabTypes'
  BY <1>7, <1>0, SlotEffects, FetchesAre DEF LoadSession, EffectsOf, Slot, Asks, Serving, Frees,
     Kept, Ask
<1>8. ASSUME NEW f \in Fetches, LogIn(f)
      PROVE  jar' \in Jars /\ fetches' \in [Fetches -> Fetched] /\ TabTypes'
  BY <1>8, <1>0, SlotEffects, FetchesAre DEF LogIn, EffectsOf, Slot, Asks, Serving, Frees, Kept, Ask
<1>9. ASSUME NEW f \in Fetches, LogOut(f)
      PROVE  jar' \in Jars /\ fetches' \in [Fetches -> Fetched] /\ TabTypes'
  BY <1>9, <1>0, SlotEffects, FetchesAre DEF LogOut, EffectsOf, Slot, Asks, Serving, Frees, Kept,
     Ask
<1>10. ASSUME NEW f \in Fetches, SessionAnswered(f)
       PROVE  jar' \in Jars /\ fetches' \in [Fetches -> Fetched] /\ TabTypes'
  <2>1. jar' \in Jars /\ fetches' \in [Fetches -> Fetched]
    BY <1>10, SlotEffects DEF EffectsOf, Kept, Asks, Frees, Slot
  <2>2. auth' \in Visitors \cup {NoVisitor} /\ boot' \in {boot, "done"} /\ due' \in BOOLEAN
    BY <1>10, <1>0, FetchesAre DEF SessionAnswered, SetAuth
  <2>3. unsettled' \in BOOLEAN
    BY <1>10, <1>0 DEF SessionAnswered, Ask, Drop
  <2>. QED BY <1>10, <1>0, <2>1, <2>2, <2>3 DEF SessionAnswered
<1>11. ASSUME NEW f \in Fetches, RefreshAnswered(f)
       PROVE  jar' \in Jars /\ fetches' \in [Fetches -> Fetched] /\ TabTypes'
  BY <1>11, <1>0, SlotEffects, FetchesAre DEF RefreshAnswered, EffectsOf, Slot, Asks, Serving,
     Frees, Kept, Ask, Drop, SetAuth
<1>12. ASSUME NEW f \in Fetches, PageAnswered(f)
       PROVE  jar' \in Jars /\ fetches' \in [Fetches -> Fetched] /\ TabTypes'
  BY <1>12, <1>0, SlotEffects, FetchesAre DEF PageAnswered, EffectsOf, Slot, Asks, Serving, Frees,
     Kept, Ask, Drop
<1>13. ASSUME NEW f \in Fetches, LogAnswered(f)
       PROVE  jar' \in Jars /\ fetches' \in [Fetches -> Fetched] /\ TabTypes'
  BY <1>13, <1>0, SlotEffects, FetchesAre DEF LogAnswered, EffectsOf, Slot, Asks, Serving, Frees,
     Kept, Drop, SetAuth
<1>14. ASSUME NEW f \in Fetches, Lost(f)
       PROVE  jar' \in Jars /\ fetches' \in [Fetches -> Fetched] /\ TabTypes'
  BY <1>14, <1>0, SlotEffects, FetchesAre DEF Lost, EffectsOf, Slot, Asks, Serving, Frees, Kept,
     Drop, SetAuth
<1>15. ASSUME NEW id \in SessionIds, Revoke(id)
       PROVE  jar' \in Jars /\ fetches' \in [Fetches -> Fetched] /\ TabTypes'
  BY <1>15, <1>0, FetchesAre DEF Revoke
<1>16. ASSUME AccessExpires PROVE jar' \in Jars /\ fetches' \in [Fetches -> Fetched] /\ TabTypes'
  <2>1. [jar EXCEPT !.access = 0] \in Jars
    BY <1>0 DEF Jars
  <2>. QED BY <1>16, <1>0, <2>1 DEF AccessExpires
<1>17. ASSUME RetryBoot PROVE jar' \in Jars /\ fetches' \in [Fetches -> Fetched] /\ TabTypes'
  BY <1>17, <1>0, FetchesAre DEF RetryBoot
<1>18. ASSUME Reload PROVE jar' \in Jars /\ fetches' \in [Fetches -> Fetched] /\ TabTypes'
  <2>1. [f \in Fetches |-> NoFetch] \in [Fetches -> Fetched]
    BY <1>0
  <2>2. NoListing \in [as : Visitors \cup {NoVisitor}, room : Rooms \cup {NoRoom},
                       carries : SessionIds \cup {0}]
    BY DEF NoListing
  <2>. QED BY <1>18, <1>0, <2>1, <2>2 DEF Reload
<1>19. ASSUME ListAnswered PROVE jar' \in Jars /\ fetches' \in [Fetches -> Fetched] /\ TabTypes'
  <2>1. Bearer(listing.carries) \in Visitors /\ listing.as \in Visitors \cup {NoVisitor}
    BY <1>19, <1>0, Bearers DEF ListAnswered
  <2>2. NoListing \in [as : Visitors \cup {NoVisitor}, room : Rooms \cup {NoRoom},
                       carries : SessionIds \cup {0}]
    BY DEF NoListing
  <2>3. listing.room \in Rooms \cup {NoRoom}
    BY <1>0
  <2>4. shown' \in Rooms \cup {NoRoom}
    BY <1>19, <2>3 DEF ListAnswered
  <2>. QED BY <1>19, <1>0, <2>1, <2>2, <2>4 DEF ListAnswered, Choose
<1>20. ASSUME ListFailed PROVE jar' \in Jars /\ fetches' \in [Fetches -> Fetched] /\ TabTypes'
  BY <1>20, <1>0, FetchesAre DEF ListFailed, NoListing
<1>21. ASSUME NEW room \in Rooms, SelectRoom(room)
       PROVE  jar' \in Jars /\ fetches' \in [Fetches -> Fetched] /\ TabTypes'
  BY <1>21, <1>0, FetchesAre DEF SelectRoom, Choose
<1>22. ASSUME NEW room \in Rooms, SelectElsewhere(room)
       PROVE  jar' \in Jars /\ fetches' \in [Fetches -> Fetched] /\ TabTypes'
  BY <1>22, <1>0, FetchesAre DEF SelectElsewhere
<1>23. ASSUME UNCHANGED browserVars
       PROVE  jar' \in Jars /\ fetches' \in [Fetches -> Fetched] /\ TabTypes'
  BY <1>23, <1>0, FetchesAre DEF browserVars
<1>24. ASSUME NEW f \in Fetches, TurnAway(f)
       PROVE  jar' \in Jars /\ fetches' \in [Fetches -> Fetched] /\ TabTypes'
  BY <1>24, <1>0, DeclinedSlot DEF Declines, Slot, Serving, Frees
<1>. QED BY <1>1, <1>2, <1>3, <1>4, <1>5, <1>6, <1>7, <1>8, <1>9, <1>10, <1>11, <1>12,
            <1>13, <1>14, <1>15, <1>16, <1>17, <1>18, <1>19, <1>20, <1>21, <1>22, <1>23, <1>24 DEF BrowserNext

LEMMA TypesStep ==
  ASSUME BrowserTypes, [BrowserNext]_browserVars
  PROVE  BrowserTypes'
<1>1. grants' \in Seq(Grants) /\ Len(grants') <= MaxSessions
  BY GrantsStep
<1>2. jar' \in Jars /\ fetches' \in [Fetches -> Fetched] /\ TabTypes'
  BY TabStep
<1>. QED BY <1>1, <1>2 DEF BrowserTypes, BrowserTypeOK, Grants, Fetched, TabTypes

-----------------------------------------------------------------------------
(* The steps keep the parts of the invariant that always hold.              *)

LEMMA GenuineAccess ==
  ASSUME NEW g, NEW c, Genuine(g, c)
  PROVE  c.access \in DOMAIN g \cup {0}
  BY DEF Genuine

\* No cookie is of a session yet to come, nor ahead of its session.
LEMMA CookiesStep ==
  ASSUME BrowserTypes, CookiesInv, [BrowserNext]_browserVars
  PROVE  CookiesInv'
<1>. USE DEF tabVars, localVars, SessionUser
<1>0. /\ fetches \in [Fetches -> Fetched] /\ jar \in Jars /\ grants' \in Seq(Grants)
      /\ Len(grants') <= MaxSessions
  BY FetchesAre, GrantsStep
<1>1. /\ CookiesInv /\ Genuine(grants, jar) /\ jar.access \in DOMAIN grants \cup {0}
  BY GenuineAccess DEF CookiesInv
<1>2. /\ \A id \in DOMAIN grants \cup {0} : id \in DOMAIN grants' \cup {0}
      /\ \A c : Genuine(grants, c) => Genuine(grants', c)
      /\ \A c : Genuine(grants', c) => c.access \in DOMAIN grants' \cup {0}
  BY GrantsStep, Aging, GenuineAccess
<1>11. ASSUME RunEffects PROVE CookiesInv'
  BY <1>11, <1>0, <1>1, <1>2 DEF RunEffects, NoListing, CookiesInv
<1>12. ASSUME NEW f \in Fetches, AskPage(f) PROVE CookiesInv'
  <2>1. Asks(f, "page", jar)
    BY <1>12, SlotEffects DEF EffectsOf
  <2>. QED BY <1>12, <2>1, <1>0, <1>1, <1>2 DEF AskPage, Asks, Slot, CookiesInv
<1>13. ASSUME NEW f \in Fetches, ServeAsked(f) PROVE CookiesInv'
  <2>1. Serving(f, Bearer(fetches[f].carries.access), {})
    BY <1>13, SlotEffects DEF EffectsOf
  <2>. QED BY <1>13, <2>1, <1>0, <1>1, <1>2 DEF ServeAsked, Serving, Slot, CookiesInv
<1>14. ASSUME NEW f \in Fetches, ServeRefresh(f) PROVE CookiesInv'
  <2>1. CASE Current(fetches[f].carries.refresh)
    <3>1. Serving(f, grants[fetches[f].carries.refresh[1]].user,
                  Cookies(fetches[f].carries.refresh[1], fetches[f].carries.refresh[2] + 1))
      BY <1>14, <2>1, SlotEffects DEF EffectsOf
    <3>. QED BY <1>14, <2>1, <3>1, <1>0, <1>1, <1>2, RefreshServes DEF ServeRefresh, Serving,
                Slot, CookiesInv
  <2>2. CASE ~(Current(fetches[f].carries.refresh))
    <3>1. Serving(f, NoVisitor, {})
      BY <1>14, <2>2, SlotEffects DEF EffectsOf
    <3>. QED BY <1>14, <2>2, <3>1, <1>0, <1>1, <1>2 DEF ServeRefresh, Serving, Slot, CookiesInv
  <2>. QED BY <2>1, <2>2
<1>15. ASSUME NEW f \in Fetches, ServeLogout(f) PROVE CookiesInv'
  <2>1. Serving(f, NoVisitor, {NoJar})
    BY <1>15, SlotEffects DEF EffectsOf
  <2>. QED BY <1>15, <2>1, <1>0, <1>1, <1>2, NoJarIsGenuine DEF ServeLogout, Serving, Slot,
              CookiesInv
<1>16. ASSUME NEW f \in Fetches, NEW v \in Visitors, ServeLogin(f, v) PROVE CookiesInv'
  <2>1. Serving(f, v, Cookies(Len(grants) + 1, 1))
    BY <1>16, SlotEffects DEF EffectsOf
  <2>. QED BY <1>16, <2>1, <1>0, <1>1, <1>2, LoginServes DEF ServeLogin, Serving, Slot, CookiesInv
<1>17. ASSUME NEW f \in Fetches, LoadSession(f) PROVE CookiesInv'
  <2>1. Asks(f, "session", jar)
    BY <1>17, SlotEffects DEF EffectsOf
  <2>. QED BY <1>17, <2>1, <1>0, <1>1, <1>2 DEF LoadSession, Asks, Slot, CookiesInv
<1>18. ASSUME NEW f \in Fetches, LogIn(f) PROVE CookiesInv'
  <2>1. Asks(f, "login", jar)
    BY <1>18, SlotEffects DEF EffectsOf
  <2>. QED BY <1>18, <2>1, <1>0, <1>1, <1>2 DEF LogIn, Asks, Slot, CookiesInv
<1>19. ASSUME NEW f \in Fetches, LogOut(f) PROVE CookiesInv'
  <2>1. Asks(f, "logout", jar)
    BY <1>19, SlotEffects DEF EffectsOf
  <2>. QED BY <1>19, <2>1, <1>0, <1>1, <1>2 DEF LogOut, Asks, Slot, CookiesInv
<1>20. ASSUME NEW f \in Fetches, SessionAnswered(f) PROVE CookiesInv'
  <2>1. CASE fetches[f].says = NoVisitor /\ fetches[f].kind = "session"
    <3>1. Kept(f) /\ Asks(f, "bootRefresh", jar')
      BY <1>20, <2>1, SlotEffects DEF EffectsOf
    <3>. QED BY <1>20, <2>1, <3>1, <1>0, <1>1, <1>2 DEF SessionAnswered, Asks, Kept, Slot,
                CookiesInv
  <2>2. CASE ~(fetches[f].says = NoVisitor /\ fetches[f].kind = "session")
    <3>1. Kept(f) /\ Frees(f)
      BY <1>20, <2>2, SlotEffects DEF EffectsOf
    <3>. QED BY <1>20, <2>2, <3>1, <1>0, <1>1, <1>2 DEF SessionAnswered, Frees, Kept, Slot,
                CookiesInv
  <2>. QED BY <2>1, <2>2
<1>21. ASSUME NEW f \in Fetches, RefreshAnswered(f) PROVE CookiesInv'
  <2>1. CASE fetches[f].says # NoVisitor /\ fetches[f].kind = "bootRefresh"
    <3>1. Kept(f) /\ Asks(f, "sessionAgain", jar')
      BY <1>21, <2>1, SlotEffects DEF EffectsOf
    <3>. QED BY <1>21, <2>1, <3>1, <1>0, <1>1, <1>2 DEF RefreshAnswered, Asks, Kept, Slot,
                CookiesInv
  <2>2. CASE ~(fetches[f].says # NoVisitor /\ fetches[f].kind = "bootRefresh")
    <3>1. Kept(f) /\ Frees(f)
      BY <1>21, <2>2, SlotEffects DEF EffectsOf
    <3>. QED BY <1>21, <2>2, <3>1, <1>0, <1>1, <1>2 DEF RefreshAnswered, Frees, Kept, Slot,
                CookiesInv
  <2>. QED BY <2>1, <2>2
<1>22. ASSUME NEW f \in Fetches, PageAnswered(f) PROVE CookiesInv'
  <2>1. CASE fetches[f].says = NoVisitor
    <3>1. Kept(f) /\ Asks(f, "pageRefresh", jar')
      BY <1>22, <2>1, SlotEffects DEF EffectsOf
    <3>. QED BY <1>22, <2>1, <3>1, <1>0, <1>1, <1>2 DEF PageAnswered, Asks, Kept, Slot, CookiesInv
  <2>2. CASE ~(fetches[f].says = NoVisitor)
    <3>1. Kept(f) /\ Frees(f)
      BY <1>22, <2>2, SlotEffects DEF EffectsOf
    <3>. QED BY <1>22, <2>2, <3>1, <1>0, <1>1, <1>2 DEF PageAnswered, Frees, Kept, Slot, CookiesInv
  <2>. QED BY <2>1, <2>2
<1>23. ASSUME NEW f \in Fetches, LogAnswered(f) PROVE CookiesInv'
  <2>1. Kept(f) /\ Frees(f)
    BY <1>23, SlotEffects DEF EffectsOf
  <2>. QED BY <1>23, <2>1, <1>0, <1>1, <1>2 DEF LogAnswered, Frees, Kept, Slot, CookiesInv
<1>24. ASSUME NEW f \in Fetches, Lost(f) PROVE CookiesInv'
  <2>1. (Kept(f) \/ jar' = jar) /\ Frees(f)
    BY <1>24, SlotEffects DEF EffectsOf
  <2>. QED BY <1>24, <2>1, <1>0, <1>1, <1>2 DEF Lost, Frees, Kept, Slot, CookiesInv
<1>25. ASSUME NEW id \in SessionIds, Revoke(id) PROVE CookiesInv'
  BY <1>25, <1>0, <1>1, <1>2 DEF Revoke, CookiesInv
<1>26. ASSUME AccessExpires PROVE CookiesInv'
  <2>1. Genuine(grants, [jar EXCEPT !.access = 0])
    <3>1. [jar EXCEPT !.access = 0] \in Jars /\ [jar EXCEPT !.access = 0].access = 0
          /\ [jar EXCEPT !.access = 0].refresh = jar.refresh
      BY <1>0 DEF Jars
    <3>. QED BY <3>1, <1>1 DEF Genuine
  <2>. QED BY <1>26, <2>1, <1>0, <1>1, <1>2 DEF AccessExpires, CookiesInv
<1>27. ASSUME RetryBoot PROVE CookiesInv'
  BY <1>27, <1>0, <1>1, <1>2 DEF RetryBoot, CookiesInv
<1>28. ASSUME Reload PROVE CookiesInv'
  <2>1. \A f \in Fetches : fetches'[f] = NoFetch
    BY <1>28 DEF Reload
  <2>. QED BY <1>28, <2>1, <1>0, <1>1, <1>2 DEF Reload, NoFetch, NoJar, NoListing, CookiesInv
<1>29. ASSUME ListAnswered PROVE CookiesInv'
  BY <1>29, <1>0, <1>1, <1>2 DEF ListAnswered, NoListing, CookiesInv
<1>30. ASSUME ListFailed PROVE CookiesInv'
  BY <1>30, <1>0, <1>1, <1>2 DEF ListFailed, NoListing, CookiesInv
<1>31. ASSUME NEW room \in Rooms, SelectRoom(room) PROVE CookiesInv'
  BY <1>31, <1>0, <1>1, <1>2 DEF SelectRoom, CookiesInv
<1>32. ASSUME NEW room \in Rooms, SelectElsewhere(room) PROVE CookiesInv'
  BY <1>32, <1>0, <1>1, <1>2 DEF SelectElsewhere, CookiesInv
<1>33. ASSUME UNCHANGED browserVars PROVE CookiesInv'
  BY <1>33, <1>0, <1>1, <1>2 DEF browserVars, CookiesInv
<1>34. ASSUME NEW f \in Fetches, TurnAway(f) PROVE CookiesInv'
  <2>1. Declines(f) /\ UNCHANGED <<jar, tabVars>>
    BY <1>34, DeclinedSlot
  <2>2. CASE Frees(f) \/ Serving(f, NoVisitor, {})
    BY <2>1, <2>2, <1>0, <1>1, <1>2 DEF Frees, Serving, Slot, CookiesInv
  <2>3. CASE Serving(f, NoVisitor, {NoJar})
    BY <2>1, <2>3, <1>0, <1>1, <1>2, NoJarIsGenuine DEF Serving, Slot, CookiesInv
  <2>. QED BY <2>1, <2>2, <2>3 DEF Declines
<1>. QED BY <1>11, <1>12, <1>13, <1>14, <1>15, <1>16, <1>17, <1>18, <1>19, <1>20, <1>21,
            <1>22, <1>23, <1>24, <1>25, <1>26, <1>27, <1>28, <1>29, <1>30, <1>31, <1>32,
            <1>33, <1>34 DEF BrowserNext

\* The start of the tab asks one thing at a time.
LEMMA BootStep ==
  ASSUME BrowserTypes, BootInv, [BrowserNext]_browserVars
  PROVE  BootInv'
<1>. USE DEF tabVars, localVars, SessionUser
<1>0. /\ BootInv /\ fetches \in [Fetches -> Fetched] /\ NoVisitor \notin Visitors
      /\ boot \in {"start", "asking", "done", "failed"}
  BY FetchesAre, TypesAre DEF TabTypes
<1>11. ASSUME RunEffects PROVE BootInv'
  BY <1>11, <1>0 DEF RunEffects, BootInv, InFlight, Arrives, SetAuth, BootKinds, Asked, Renewals
<1>12. ASSUME NEW f \in Fetches, AskPage(f) PROVE BootInv'
  <2>1. Asks(f, "page", jar)
    BY <1>12, SlotEffects DEF EffectsOf
  <2>. QED BY <1>12, <2>1, <1>0 DEF AskPage, Asks, Slot, BootInv, InFlight, Arrives, SetAuth,
              BootKinds, Asked, Renewals
<1>13. ASSUME NEW f \in Fetches, ServeAsked(f) PROVE BootInv'
  <2>1. Serving(f, Bearer(fetches[f].carries.access), {})
    BY <1>13, SlotEffects DEF EffectsOf
  <2>. QED BY <1>13, <2>1, <1>0 DEF ServeAsked, Serving, Slot, BootInv, InFlight, Arrives,
              SetAuth, BootKinds, Asked, Renewals
<1>14. ASSUME NEW f \in Fetches, ServeRefresh(f) PROVE BootInv'
  <2>1. CASE Current(fetches[f].carries.refresh)
    <3>1. Serving(f, grants[fetches[f].carries.refresh[1]].user,
                  Cookies(fetches[f].carries.refresh[1], fetches[f].carries.refresh[2] + 1))
      BY <1>14, <2>1, SlotEffects DEF EffectsOf
    <3>. QED BY <1>14, <2>1, <3>1, <1>0 DEF ServeRefresh, Serving, Slot, BootInv, InFlight,
                Arrives, SetAuth, BootKinds, Asked, Renewals
  <2>2. CASE ~(Current(fetches[f].carries.refresh))
    <3>1. Serving(f, NoVisitor, {})
      BY <1>14, <2>2, SlotEffects DEF EffectsOf
    <3>. QED BY <1>14, <2>2, <3>1, <1>0 DEF ServeRefresh, Serving, Slot, BootInv, InFlight,
                Arrives, SetAuth, BootKinds, Asked, Renewals
  <2>. QED BY <2>1, <2>2
<1>15. ASSUME NEW f \in Fetches, ServeLogout(f) PROVE BootInv'
  <2>1. Serving(f, NoVisitor, {NoJar})
    BY <1>15, SlotEffects DEF EffectsOf
  <2>. QED BY <1>15, <2>1, <1>0 DEF ServeLogout, Serving, Slot, BootInv, InFlight, Arrives,
              SetAuth, BootKinds, Asked, Renewals
<1>16. ASSUME NEW f \in Fetches, NEW v \in Visitors, ServeLogin(f, v) PROVE BootInv'
  <2>1. Serving(f, v, Cookies(Len(grants) + 1, 1))
    BY <1>16, SlotEffects DEF EffectsOf
  <2>. QED BY <1>16, <2>1, <1>0 DEF ServeLogin, Serving, Slot, BootInv, InFlight, Arrives,
              SetAuth, BootKinds, Asked, Renewals
<1>17. ASSUME NEW f \in Fetches, LoadSession(f) PROVE BootInv'
  <2>1. Asks(f, "session", jar)
    BY <1>17, SlotEffects DEF EffectsOf
  <2>. QED BY <1>17, <2>1, <1>0 DEF LoadSession, Asks, Slot, BootInv, InFlight, Arrives, SetAuth,
              BootKinds, Asked, Renewals
<1>18. ASSUME NEW f \in Fetches, LogIn(f) PROVE BootInv'
  <2>1. Asks(f, "login", jar)
    BY <1>18, SlotEffects DEF EffectsOf
  <2>. QED BY <1>18, <2>1, <1>0 DEF LogIn, Asks, Slot, BootInv, InFlight, Arrives, SetAuth,
              BootKinds, Asked, Renewals
<1>19. ASSUME NEW f \in Fetches, LogOut(f) PROVE BootInv'
  <2>1. Asks(f, "logout", jar)
    BY <1>19, SlotEffects DEF EffectsOf
  <2>. QED BY <1>19, <2>1, <1>0 DEF LogOut, Asks, Slot, BootInv, InFlight, Arrives, SetAuth,
              BootKinds, Asked, Renewals
<1>20. ASSUME NEW f \in Fetches, SessionAnswered(f) PROVE BootInv'
  <2>1. CASE fetches[f].says = NoVisitor /\ fetches[f].kind = "session"
    <3>1. Kept(f) /\ Asks(f, "bootRefresh", jar')
      BY <1>20, <2>1, SlotEffects DEF EffectsOf
    <3>. QED BY <1>20, <2>1, <3>1, <1>0 DEF SessionAnswered, Asks, Kept, Slot, BootInv, InFlight,
                Arrives, SetAuth, BootKinds, Asked, Renewals
  <2>2. CASE ~(fetches[f].says = NoVisitor /\ fetches[f].kind = "session")
    <3>1. Kept(f) /\ Frees(f)
      BY <1>20, <2>2, SlotEffects DEF EffectsOf
    <3>. QED BY <1>20, <2>2, <3>1, <1>0 DEF SessionAnswered, Frees, Kept, Slot, BootInv, InFlight,
                Arrives, SetAuth, BootKinds, Asked, Renewals
  <2>. QED BY <2>1, <2>2
<1>21. ASSUME NEW f \in Fetches, RefreshAnswered(f) PROVE BootInv'
  <2>1. CASE fetches[f].says # NoVisitor /\ fetches[f].kind = "bootRefresh"
    <3>1. Kept(f) /\ Asks(f, "sessionAgain", jar')
      BY <1>21, <2>1, SlotEffects DEF EffectsOf
    <3>. QED BY <1>21, <2>1, <3>1, <1>0 DEF RefreshAnswered, Asks, Kept, Slot, BootInv, InFlight,
                Arrives, SetAuth, BootKinds, Asked, Renewals
  <2>2. CASE ~(fetches[f].says # NoVisitor /\ fetches[f].kind = "bootRefresh")
    <3>1. Kept(f) /\ Frees(f)
      BY <1>21, <2>2, SlotEffects DEF EffectsOf
    <3>. QED BY <1>21, <2>2, <3>1, <1>0 DEF RefreshAnswered, Frees, Kept, Slot, BootInv, InFlight,
                Arrives, SetAuth, BootKinds, Asked, Renewals
  <2>. QED BY <2>1, <2>2
<1>22. ASSUME NEW f \in Fetches, PageAnswered(f) PROVE BootInv'
  <2>1. CASE fetches[f].says = NoVisitor
    <3>1. Kept(f) /\ Asks(f, "pageRefresh", jar')
      BY <1>22, <2>1, SlotEffects DEF EffectsOf
    <3>. QED BY <1>22, <2>1, <3>1, <1>0 DEF PageAnswered, Asks, Kept, Slot, BootInv, InFlight,
                Arrives, SetAuth, BootKinds, Asked, Renewals
  <2>2. CASE ~(fetches[f].says = NoVisitor)
    <3>1. Kept(f) /\ Frees(f)
      BY <1>22, <2>2, SlotEffects DEF EffectsOf
    <3>. QED BY <1>22, <2>2, <3>1, <1>0 DEF PageAnswered, Frees, Kept, Slot, BootInv, InFlight,
                Arrives, SetAuth, BootKinds, Asked, Renewals
  <2>. QED BY <2>1, <2>2
<1>23. ASSUME NEW f \in Fetches, LogAnswered(f) PROVE BootInv'
  <2>1. Kept(f) /\ Frees(f)
    BY <1>23, SlotEffects DEF EffectsOf
  <2>. QED BY <1>23, <2>1, <1>0 DEF LogAnswered, Frees, Kept, Slot, BootInv, InFlight, Arrives,
              SetAuth, BootKinds, Asked, Renewals
<1>24. ASSUME NEW f \in Fetches, Lost(f) PROVE BootInv'
  <2>1. (Kept(f) \/ jar' = jar) /\ Frees(f)
    BY <1>24, SlotEffects DEF EffectsOf
  <2>. QED BY <1>24, <2>1, <1>0 DEF Lost, Frees, Kept, Slot, BootInv, InFlight, Arrives, SetAuth,
              BootKinds, Asked, Renewals
<1>25. ASSUME NEW id \in SessionIds, Revoke(id) PROVE BootInv'
  BY <1>25, <1>0 DEF Revoke, BootInv, InFlight, Arrives, SetAuth, BootKinds, Asked, Renewals
<1>26. ASSUME AccessExpires PROVE BootInv'
  BY <1>26, <1>0 DEF AccessExpires, BootInv, InFlight, Arrives, SetAuth, BootKinds, Asked, Renewals
<1>27. ASSUME RetryBoot PROVE BootInv'
  BY <1>27, <1>0 DEF RetryBoot, BootInv, InFlight, Arrives, SetAuth, BootKinds, Asked, Renewals
<1>28. ASSUME Reload PROVE BootInv'
  <2>1. \A f \in Fetches : fetches'[f] = NoFetch
    BY <1>28 DEF Reload
  <2>. QED BY <1>28, <2>1 DEF Reload, NoFetch, InFlight, BootInv
<1>29. ASSUME ListAnswered PROVE BootInv'
  BY <1>29, <1>0 DEF ListAnswered, BootInv, InFlight, Arrives, SetAuth, BootKinds, Asked, Renewals
<1>30. ASSUME ListFailed PROVE BootInv'
  BY <1>30, <1>0 DEF ListFailed, BootInv, InFlight, Arrives, SetAuth, BootKinds, Asked, Renewals
<1>31. ASSUME NEW room \in Rooms, SelectRoom(room) PROVE BootInv'
  BY <1>31, <1>0 DEF SelectRoom, BootInv, InFlight, Arrives, SetAuth, BootKinds, Asked, Renewals
<1>32. ASSUME NEW room \in Rooms, SelectElsewhere(room) PROVE BootInv'
  BY <1>32, <1>0 DEF SelectElsewhere, BootInv, InFlight, Arrives, SetAuth, BootKinds, Asked,
     Renewals
<1>33. ASSUME UNCHANGED browserVars PROVE BootInv'
  BY <1>33, <1>0 DEF browserVars, BootInv, InFlight, Arrives, SetAuth, BootKinds, Asked, Renewals
<1>34. ASSUME NEW f \in Fetches, TurnAway(f) PROVE BootInv'
  <2>1. Declines(f) /\ fetches[f].kind # "none" /\ UNCHANGED tabVars
    BY <1>34, DeclinedSlot
  <2>. QED BY <2>1, <1>0 DEF Declines, Frees, Serving, Slot, BootInv, InFlight, BootKinds
<1>. QED BY <1>11, <1>12, <1>13, <1>14, <1>15, <1>16, <1>17, <1>18, <1>19, <1>20, <1>21,
            <1>22, <1>23, <1>24, <1>25, <1>26, <1>27, <1>28, <1>29, <1>30, <1>31, <1>32,
            <1>33, <1>34 DEF BrowserNext

\* An answer under way is true of the session its cookies name.
LEMMA FetchStep ==
  ASSUME BrowserTypes, CookiesInv, BootInv, FetchInv, [BrowserNext]_browserVars
  PROVE  FetchInv'
<1>. USE DEF tabVars, localVars, SessionUser
<1>0. /\ FetchInv /\ fetches \in [Fetches -> Fetched] /\ jar \in Jars /\ NoVisitor \notin Visitors
      /\ \A f \in Fetches : fetches[f].served \in BOOLEAN
  BY FetchesAre
<1>1. /\ jar.access \in {0, jar.refresh[1]} /\ jar.refresh[1] \in DOMAIN grants \cup {0}
      /\ \A f \in Fetches : \A c \in fetches[f].sets :
           c.access \in {0, c.refresh[1]} /\ c.refresh[1] \in DOMAIN grants \cup {0}
  BY DEF CookiesInv, Genuine
<1>2. \A v : \A id \in DOMAIN grants \cup {0} : Serves(grants, id, v) => Serves(grants', id, v)
  BY GrantsStep, Aging
<1>3. \A f \in Fetches : fetches[f].kind \in {"session", "bootRefresh", "sessionAgain"} =>
        boot = "asking" /\ \A g \in Fetches : fetches[g].kind # "none" => g = f
  BY TypesAre DEF TabTypes, BootInv, BootKinds, InFlight
<1>11. ASSUME RunEffects PROVE FetchInv'
  BY <1>11, <1>0, <1>1, <1>2, <1>3 DEF RunEffects, FetchInv
<1>12. ASSUME NEW f \in Fetches, AskPage(f) PROVE FetchInv'
  <2>1. Asks(f, "page", jar)
    BY <1>12, SlotEffects DEF EffectsOf
  <2>. QED BY <1>12, <2>1, <1>0, <1>1, <1>2, <1>3 DEF AskPage, Asks, Slot, FetchInv, Arrives,
              SetAuth, Asked, Renewals
<1>13. ASSUME NEW f \in Fetches, ServeAsked(f) PROVE FetchInv'
  <2>1. Serving(f, Bearer(fetches[f].carries.access), {})
    BY <1>13, SlotEffects DEF EffectsOf
  <2>. QED BY <1>13, <2>1, <1>0, <1>1, <1>2, <1>3, BearerServes DEF ServeAsked, Serving, Slot,
              FetchInv, Arrives, SetAuth, Asked, Renewals
<1>14. ASSUME NEW f \in Fetches, ServeRefresh(f) PROVE FetchInv'
  <2>1. CASE Current(fetches[f].carries.refresh)
    <3>1. Serving(f, grants[fetches[f].carries.refresh[1]].user,
                  Cookies(fetches[f].carries.refresh[1], fetches[f].carries.refresh[2] + 1))
      BY <1>14, <2>1, SlotEffects DEF EffectsOf
    <3>. QED BY <1>14, <2>1, <3>1, <1>0, <1>1, <1>2, <1>3 DEF ServeRefresh, Serving, Slot,
                FetchInv, Arrives, SetAuth, Asked, Renewals
  <2>2. CASE ~(Current(fetches[f].carries.refresh))
    <3>1. Serving(f, NoVisitor, {})
      BY <1>14, <2>2, SlotEffects DEF EffectsOf
    <3>. QED BY <1>14, <2>2, <3>1, <1>0, <1>1, <1>2, <1>3 DEF ServeRefresh, Serving, Slot,
                FetchInv, Arrives, SetAuth, Asked, Renewals
  <2>. QED BY <2>1, <2>2
<1>15. ASSUME NEW f \in Fetches, ServeLogout(f) PROVE FetchInv'
  <2>1. Serving(f, NoVisitor, {NoJar})
    BY <1>15, SlotEffects DEF EffectsOf
  <2>2. fetches[f].kind = "logout" /\ UNCHANGED <<jar, auth>>
    BY <1>15 DEF ServeLogout
  <2>3. /\ \A g \in Fetches : g # f => fetches'[g] = fetches[g]
        /\ fetches'[f].kind = "logout" /\ fetches'[f].served
        /\ fetches'[f].says = NoVisitor /\ fetches'[f].sets = {NoJar}
    BY <2>1, <2>2 DEF Serving, Slot
  <2>. QED BY <2>2, <2>3, <1>0, <1>1, <1>2 DEF FetchInv, Asked
<1>16. ASSUME NEW f \in Fetches, NEW v \in Visitors, ServeLogin(f, v) PROVE FetchInv'
  <2>1. Serving(f, v, Cookies(Len(grants) + 1, 1))
    BY <1>16, SlotEffects DEF EffectsOf
  <2>. QED BY <1>16, <2>1, <1>0, <1>1, <1>2, <1>3, LoginServes DEF ServeLogin, Serving, Slot,
              FetchInv, Arrives, SetAuth, Asked, Renewals
<1>17. ASSUME NEW f \in Fetches, LoadSession(f) PROVE FetchInv'
  <2>1. Asks(f, "session", jar)
    BY <1>17, SlotEffects DEF EffectsOf
  <2>. QED BY <1>17, <2>1, <1>0, <1>1, <1>2, <1>3 DEF LoadSession, Asks, Slot, FetchInv, Arrives,
              SetAuth, Asked, Renewals
<1>18. ASSUME NEW f \in Fetches, LogIn(f) PROVE FetchInv'
  <2>1. Asks(f, "login", jar)
    BY <1>18, SlotEffects DEF EffectsOf
  <2>. QED BY <1>18, <2>1, <1>0, <1>1, <1>2, <1>3 DEF LogIn, Asks, Slot, FetchInv, Arrives,
              SetAuth, Asked, Renewals
<1>19. ASSUME NEW f \in Fetches, LogOut(f) PROVE FetchInv'
  <2>1. Asks(f, "logout", jar)
    BY <1>19, SlotEffects DEF EffectsOf
  <2>. QED BY <1>19, <2>1, <1>0, <1>1, <1>2, <1>3 DEF LogOut, Asks, Slot, FetchInv, Arrives,
              SetAuth, Asked, Renewals
<1>20. ASSUME NEW f \in Fetches, SessionAnswered(f) PROVE FetchInv'
  <2>1. CASE fetches[f].says = NoVisitor /\ fetches[f].kind = "session"
    <3>1. Kept(f) /\ Asks(f, "bootRefresh", jar')
      BY <1>20, <2>1, SlotEffects DEF EffectsOf
    <3>. QED BY <1>20, <2>1, <3>1, <1>0, <1>1, <1>2, <1>3 DEF SessionAnswered, Asks, Kept, Slot,
                FetchInv, Arrives, SetAuth, Asked, Renewals
  <2>2. CASE ~(fetches[f].says = NoVisitor /\ fetches[f].kind = "session")
    <3>1. Kept(f) /\ Frees(f)
      BY <1>20, <2>2, SlotEffects DEF EffectsOf
    <3>. QED BY <1>20, <2>2, <3>1, <1>0, <1>1, <1>2, <1>3 DEF SessionAnswered, Frees, Kept, Slot,
                FetchInv, Arrives, SetAuth, Asked, Renewals
  <2>. QED BY <2>1, <2>2
<1>21. ASSUME NEW f \in Fetches, RefreshAnswered(f) PROVE FetchInv'
  <2>1. CASE fetches[f].says # NoVisitor /\ fetches[f].kind = "bootRefresh"
    <3>1. Kept(f) /\ Asks(f, "sessionAgain", jar')
      BY <1>21, <2>1, SlotEffects DEF EffectsOf
    <3>. QED BY <1>21, <2>1, <3>1, <1>0, <1>1, <1>2, <1>3 DEF RefreshAnswered, Asks, Kept, Slot,
                FetchInv, Arrives, SetAuth, Asked, Renewals
  <2>2. CASE ~(fetches[f].says # NoVisitor /\ fetches[f].kind = "bootRefresh")
    <3>1. Kept(f) /\ Frees(f)
      BY <1>21, <2>2, SlotEffects DEF EffectsOf
    <3>. QED BY <1>21, <2>2, <3>1, <1>0, <1>1, <1>2, <1>3 DEF RefreshAnswered, Frees, Kept, Slot,
                FetchInv, Arrives, SetAuth, Asked, Renewals
  <2>. QED BY <2>1, <2>2
<1>22. ASSUME NEW f \in Fetches, PageAnswered(f) PROVE FetchInv'
  <2>1. CASE fetches[f].says = NoVisitor
    <3>1. Kept(f) /\ Asks(f, "pageRefresh", jar')
      BY <1>22, <2>1, SlotEffects DEF EffectsOf
    <3>. QED BY <1>22, <2>1, <3>1, <1>0, <1>1, <1>2, <1>3 DEF PageAnswered, Asks, Kept, Slot,
                FetchInv, Arrives, SetAuth, Asked, Renewals
  <2>2. CASE ~(fetches[f].says = NoVisitor)
    <3>1. Kept(f) /\ Frees(f)
      BY <1>22, <2>2, SlotEffects DEF EffectsOf
    <3>. QED BY <1>22, <2>2, <3>1, <1>0, <1>1, <1>2, <1>3 DEF PageAnswered, Frees, Kept, Slot,
                FetchInv, Arrives, SetAuth, Asked, Renewals
  <2>. QED BY <2>1, <2>2
<1>23. ASSUME NEW f \in Fetches, LogAnswered(f) PROVE FetchInv'
  <2>1. Kept(f) /\ Frees(f)
    BY <1>23, SlotEffects DEF EffectsOf
  <2>. QED BY <1>23, <2>1, <1>0, <1>1, <1>2, <1>3 DEF LogAnswered, Frees, Kept, Slot, FetchInv,
              Arrives, SetAuth, Asked, Renewals
<1>24. ASSUME NEW f \in Fetches, Lost(f) PROVE FetchInv'
  <2>1. (Kept(f) \/ jar' = jar) /\ Frees(f)
    BY <1>24, SlotEffects DEF EffectsOf
  <2>. QED BY <1>24, <2>1, <1>0, <1>1, <1>2, <1>3 DEF Lost, Frees, Kept, Slot, FetchInv, Arrives,
              SetAuth, Asked, Renewals, InFlight
<1>25. ASSUME NEW id \in SessionIds, Revoke(id) PROVE FetchInv'
  BY <1>25, <1>0, <1>1, <1>2, <1>3 DEF Revoke, FetchInv
<1>26. ASSUME AccessExpires PROVE FetchInv'
  <2>1. jar'.refresh = jar.refresh
    BY <1>26, <1>0 DEF AccessExpires, Jars
  <2>. QED BY <1>26, <2>1, <1>0, <1>1, <1>2 DEF AccessExpires, FetchInv
<1>27. ASSUME RetryBoot PROVE FetchInv'
  BY <1>27, <1>0, <1>1, <1>2, <1>3 DEF RetryBoot, FetchInv
<1>28. ASSUME Reload PROVE FetchInv'
  <2>1. \A f \in Fetches : fetches'[f] = NoFetch
    BY <1>28 DEF Reload
  <2>. QED BY <1>28, <2>1 DEF Reload, NoFetch, FetchInv, Asked
<1>29. ASSUME ListAnswered PROVE FetchInv'
  BY <1>29, <1>0, <1>1, <1>2, <1>3 DEF ListAnswered, FetchInv
<1>30. ASSUME ListFailed PROVE FetchInv'
  BY <1>30, <1>0, <1>1, <1>2, <1>3 DEF ListFailed, FetchInv
<1>31. ASSUME NEW room \in Rooms, SelectRoom(room) PROVE FetchInv'
  BY <1>31, <1>0, <1>1, <1>2, <1>3 DEF SelectRoom, FetchInv
<1>32. ASSUME NEW room \in Rooms, SelectElsewhere(room) PROVE FetchInv'
  BY <1>32, <1>0, <1>1, <1>2, <1>3 DEF SelectElsewhere, FetchInv
<1>33. ASSUME UNCHANGED browserVars PROVE FetchInv'
  BY <1>33, <1>0, <1>1, <1>2, <1>3 DEF browserVars, FetchInv
<1>34. ASSUME NEW f \in Fetches, TurnAway(f) PROVE FetchInv'
  <2>1. Declines(f) /\ UNCHANGED <<jar, tabVars>>
    BY <1>34, DeclinedSlot
  <2>. QED BY <2>1, <1>0, <1>1, <1>2, <1>3 DEF Declines, Frees, Serving, Slot, FetchInv, Asked
<1>. QED BY <1>11, <1>12, <1>13, <1>14, <1>15, <1>16, <1>17, <1>18, <1>19, <1>20, <1>21,
            <1>22, <1>23, <1>24, <1>25, <1>26, <1>27, <1>28, <1>29, <1>30, <1>31, <1>32,
            <1>33, <1>34 DEF BrowserNext

\* The picker's request is the user's, and nobody has one while signed out.
LEMMA PickerStep ==
  ASSUME BrowserTypes, BootInv, PickerInv, [BrowserNext]_browserVars
  PROVE  PickerInv'
<1>. USE DEF tabVars, localVars, SessionUser
<1>0. PickerInv /\ BootInv /\ NoVisitor \notin Visitors /\ TabTypes
  BY TypesAre
<1>11. ASSUME RunEffects PROVE PickerInv'
  BY <1>11, <1>0 DEF RunEffects, NoListing, PickerInv, SetAuth, Ready
<1>12. ASSUME NEW f \in Fetches, AskPage(f) PROVE PickerInv'
  BY <1>12, <1>0 DEF AskPage, PickerInv, SetAuth, Ready
<1>13. ASSUME NEW f \in Fetches, ServeAsked(f) PROVE PickerInv'
  BY <1>13, <1>0 DEF ServeAsked, PickerInv, SetAuth, Ready
<1>14. ASSUME NEW f \in Fetches, ServeRefresh(f) PROVE PickerInv'
  BY <1>14, <1>0 DEF ServeRefresh, PickerInv, SetAuth, Ready
<1>15. ASSUME NEW f \in Fetches, ServeLogout(f) PROVE PickerInv'
  BY <1>15, <1>0 DEF ServeLogout, PickerInv, SetAuth, Ready
<1>16. ASSUME NEW f \in Fetches, NEW v \in Visitors, ServeLogin(f, v) PROVE PickerInv'
  BY <1>16, <1>0 DEF ServeLogin, PickerInv, SetAuth, Ready
<1>17. ASSUME NEW f \in Fetches, LoadSession(f) PROVE PickerInv'
  BY <1>17, <1>0 DEF LoadSession, PickerInv, SetAuth, Ready
<1>18. ASSUME NEW f \in Fetches, LogIn(f) PROVE PickerInv'
  BY <1>18, <1>0 DEF LogIn, PickerInv, SetAuth, Ready
<1>19. ASSUME NEW f \in Fetches, LogOut(f) PROVE PickerInv'
  BY <1>19, <1>0 DEF LogOut, PickerInv, SetAuth, Ready
<1>20. ASSUME NEW f \in Fetches, SessionAnswered(f) PROVE PickerInv'
  BY <1>20, <1>0 DEF SessionAnswered, PickerInv, SetAuth, Ready
<1>21. ASSUME NEW f \in Fetches, RefreshAnswered(f) PROVE PickerInv'
  BY <1>21, <1>0 DEF RefreshAnswered, PickerInv, SetAuth, Ready
<1>22. ASSUME NEW f \in Fetches, PageAnswered(f) PROVE PickerInv'
  BY <1>22, <1>0 DEF PageAnswered, PickerInv, SetAuth, Ready
<1>23. ASSUME NEW f \in Fetches, LogAnswered(f) PROVE PickerInv'
  BY <1>23, <1>0 DEF LogAnswered, PickerInv, SetAuth, Ready
<1>24. ASSUME NEW f \in Fetches, Lost(f) PROVE PickerInv'
  BY <1>24, <1>0 DEF Lost, PickerInv, SetAuth, Ready, BootInv, BootKinds, InFlight
<1>25. ASSUME NEW id \in SessionIds, Revoke(id) PROVE PickerInv'
  BY <1>25, <1>0 DEF Revoke, PickerInv, SetAuth, Ready
<1>26. ASSUME AccessExpires PROVE PickerInv'
  BY <1>26, <1>0 DEF AccessExpires, PickerInv, SetAuth, Ready
<1>27. ASSUME RetryBoot PROVE PickerInv'
  BY <1>27, <1>0 DEF RetryBoot, PickerInv, SetAuth, Ready
<1>28. ASSUME Reload PROVE PickerInv'
  BY <1>28, <1>0 DEF Reload, PickerInv, SetAuth, Ready
<1>29. ASSUME ListAnswered PROVE PickerInv'
  BY <1>29, <1>0 DEF ListAnswered, NoListing, Choose, PickerInv, SetAuth, Ready
<1>30. ASSUME ListFailed PROVE PickerInv'
  BY <1>30, <1>0 DEF ListFailed, NoListing, PickerInv, SetAuth, Ready
<1>31. ASSUME NEW room \in Rooms, SelectRoom(room) PROVE PickerInv'
  BY <1>31, <1>0 DEF SelectRoom, Choose, PickerInv, SetAuth, Ready
<1>32. ASSUME NEW room \in Rooms, SelectElsewhere(room) PROVE PickerInv'
  BY <1>32, <1>0 DEF SelectElsewhere, PickerInv, SetAuth, Ready
<1>33. ASSUME UNCHANGED browserVars PROVE PickerInv'
  BY <1>33, <1>0 DEF browserVars, PickerInv, SetAuth, Ready
<1>34. ASSUME NEW f \in Fetches, TurnAway(f) PROVE PickerInv'
  BY <1>34, <1>0, DeclinedSlot DEF PickerInv, Ready
<1>. QED BY <1>11, <1>12, <1>13, <1>14, <1>15, <1>16, <1>17, <1>18, <1>19, <1>20, <1>21,
            <1>22, <1>23, <1>24, <1>25, <1>26, <1>27, <1>28, <1>29, <1>30, <1>31, <1>32,
            <1>33, <1>34 DEF BrowserNext

-----------------------------------------------------------------------------
(* The parts that hold while the session is settled.                        *)

Settled == RenewInv /\ OwnerInv /\ PickerIsOwn

LEMMA CurrentIsOpen == \A token : Current(token) <=> Open(grants, token)
  BY DEF Current, Open

\* While settled, one request at a time changes the session, with the browser's
\* own cookies, so that a refresh has used up what it carried.
LEMMA RenewStep ==
  ASSUME BrowserTypes, CookiesInv, BootInv, FetchInv, PickerInv, Settled, ~unsettled, ~unsettled',
         [BrowserNext]_browserVars
  PROVE  RenewInv'
<1>. USE DEF tabVars, localVars, SessionUser
<1>0. /\ RenewInv /\ OwnerInv /\ FetchInv /\ NoVisitor \notin Visitors
      /\ fetches \in [Fetches -> Fetched] /\ jar \in Jars
      /\ \A f \in Fetches : fetches[f].served \in BOOLEAN
  BY FetchesAre DEF Settled
<1>1. /\ \A f \in Fetches : fetches[f].kind \in {"session", "bootRefresh", "sessionAgain"} =>
           boot = "asking" /\ \A g \in Fetches : fetches[g].kind # "none" => g = f
      /\ \A f \in Fetches : fetches[f].kind \in {"page", "pageRefresh", "login", "logout"} => boot = "done"
  BY TypesAre DEF TabTypes, BootInv, BootKinds, InFlight
<1>2. /\ \A v : \A id \in DOMAIN grants \cup {0} : Serves(grants, id, v) => Serves(grants', id, v)
      /\ \A c : Genuine(grants, c) /\ ~Open(grants, c.refresh) => ~Open(grants', c.refresh)
      /\ Genuine(grants, jar) /\ jar.refresh[1] \in DOMAIN grants \cup {0}
      /\ \A f \in Fetches : \A c \in fetches[f].sets : c.refresh[1] \in DOMAIN grants \cup {0}
  BY GrantsStep, Aging DEF CookiesInv, Genuine
<1>3. \A f, g \in Fetches : fetches[f].kind \in Renewals /\ fetches[g].kind \in Renewals => f = g
  BY <1>0 DEF RenewInv, Renewing
<1>11. ASSUME RunEffects PROVE RenewInv'
  BY <1>11, <1>0, <1>1, <1>2, <1>3 DEF RunEffects, RenewInv, Renewing
<1>12. ASSUME NEW f \in Fetches, AskPage(f) PROVE RenewInv'
  <2>1. Asks(f, "page", jar)
    BY <1>12, SlotEffects DEF EffectsOf
  <2>. QED BY <1>12, <2>1, <1>0, <1>1, <1>2, <1>3 DEF AskPage, Asks, Slot, RenewInv, Arrives,
              SetAuth, Asked, Renewals, Renewing
<1>13. ASSUME NEW f \in Fetches, ServeAsked(f) PROVE RenewInv'
  <2>1. Serving(f, Bearer(fetches[f].carries.access), {})
    BY <1>13, SlotEffects DEF EffectsOf
  <2>. QED BY <1>13, <2>1, <1>0, <1>1, <1>2, <1>3 DEF ServeAsked, Serving, Slot, RenewInv,
              Arrives, SetAuth, Asked, Renewals, Renewing
<1>14. ASSUME NEW f \in Fetches, ServeRefresh(f) PROVE RenewInv'
  <2>. DEFINE token == fetches[f].carries.refresh
  <2>0. /\ fetches[f].kind \in {"bootRefresh", "pageRefresh"} /\ ~fetches[f].served
        /\ token = jar.refresh /\ UNCHANGED <<jar, auth, boot, declined>>
    BY <1>14, <1>0 DEF ServeRefresh, RenewInv
  <2>1. CASE Current(token)
    <3>1. Serving(f, grants[token[1]].user, Cookies(token[1], token[2] + 1))
      BY <1>14, <2>1, SlotEffects DEF EffectsOf
    <3>2. /\ \A c \in Cookies(token[1], token[2] + 1) : c.refresh[1] = token[1]
          /\ Cookies(token[1], token[2] + 1) # {}
          /\ grants[token[1]].user # NoVisitor /\ Serves(grants', token[1], grants[token[1]].user)
          /\ ~Open(grants', token)
      BY <1>14, <2>1, RefreshServes
    <3>3. fetches[f].kind = "pageRefresh" =>
            grants[token[1]].user = auth \/ (auth = NoVisitor /\ declined)
      <4>1. token[1] \in DOMAIN grants /\ Open(grants, jar.refresh)
        BY <2>0, <2>1, CurrentIsOpen DEF Current
      <4>. QED BY <1>0, <1>1, <2>0, <3>2, <4>1 DEF OwnerInv, Serves
    <3>. HIDE DEF token
    <3>. QED BY <2>0, <3>1, <3>2, <3>3, <1>0, <1>1, <1>2, <1>3 DEF Serving, Slot, RenewInv,
                Renewing, Renewals
  <2>2. CASE ~Current(token)
    <3>1. Serving(f, NoVisitor, {}) /\ grants' = grants /\ ~Open(grants, jar.refresh)
      BY <1>14, <2>0, <2>2, SlotEffects, CurrentIsOpen DEF EffectsOf, ServeRefresh
    <3>. QED BY <2>0, <3>1, <1>0, <1>1, <1>2, <1>3 DEF Serving, Slot, RenewInv, Renewing, Renewals
  <2>. QED BY <2>1, <2>2
<1>15. ASSUME NEW f \in Fetches, ServeLogout(f) PROVE RenewInv'
  <2>1. Serving(f, NoVisitor, {NoJar})
    BY <1>15, SlotEffects DEF EffectsOf
  <2>2. fetches[f].kind = "logout" /\ UNCHANGED <<jar, auth, declined>>
    BY <1>15 DEF ServeLogout
  <2>. QED BY <2>1, <2>2, <1>0, <1>1, <1>2, <1>3 DEF Serving, Slot, RenewInv, Renewing, Renewals
<1>16. ASSUME NEW f \in Fetches, NEW v \in Visitors, ServeLogin(f, v) PROVE RenewInv'
  <2>1. Serving(f, v, Cookies(Len(grants) + 1, 1))
    BY <1>16, SlotEffects DEF EffectsOf
  <2>. QED BY <1>16, <2>1, <1>0, <1>1, <1>2, <1>3 DEF ServeLogin, Serving, Slot, RenewInv,
              Arrives, SetAuth, Asked, Renewals, Renewing
<1>17. ASSUME NEW f \in Fetches, LoadSession(f) PROVE RenewInv'
  <2>1. Asks(f, "session", jar)
    BY <1>17, SlotEffects DEF EffectsOf
  <2>. QED BY <1>17, <2>1, <1>0, <1>1, <1>2, <1>3 DEF LoadSession, Asks, Slot, RenewInv, Arrives,
              SetAuth, Asked, Renewals, Renewing
<1>18. ASSUME NEW f \in Fetches, LogIn(f) PROVE RenewInv'
  <2>1. Asks(f, "login", jar)
    BY <1>18, SlotEffects DEF EffectsOf
  <2>. QED BY <1>18, <2>1, <1>0, <1>1, <1>2, <1>3 DEF LogIn, Asks, Slot, RenewInv, Arrives,
              SetAuth, Asked, Renewals, Renewing
<1>19. ASSUME NEW f \in Fetches, LogOut(f) PROVE RenewInv'
  <2>1. Asks(f, "logout", jar)
    BY <1>19, SlotEffects DEF EffectsOf
  <2>. QED BY <1>19, <2>1, <1>0, <1>1, <1>2, <1>3 DEF LogOut, Asks, Slot, RenewInv, Arrives,
              SetAuth, Asked, Renewals, Renewing
<1>20. ASSUME NEW f \in Fetches, SessionAnswered(f) PROVE RenewInv'
  <2>1. CASE fetches[f].says = NoVisitor /\ fetches[f].kind = "session"
    <3>1. Kept(f) /\ Asks(f, "bootRefresh", jar')
      BY <1>20, <2>1, SlotEffects DEF EffectsOf
    <3>. QED BY <1>20, <2>1, <3>1, <1>0, <1>1, <1>2, <1>3 DEF SessionAnswered, Asks, Kept, Slot,
                RenewInv, Arrives, SetAuth, Asked, Renewals, Renewing, FetchInv
  <2>2. CASE ~(fetches[f].says = NoVisitor /\ fetches[f].kind = "session")
    <3>1. Kept(f) /\ Frees(f)
      BY <1>20, <2>2, SlotEffects DEF EffectsOf
    <3>. QED BY <1>20, <2>2, <3>1, <1>0, <1>1, <1>2, <1>3 DEF SessionAnswered, Frees, Kept, Slot,
                RenewInv, Arrives, SetAuth, Asked, Renewals, Renewing, FetchInv
  <2>. QED BY <2>1, <2>2
<1>21. ASSUME NEW f \in Fetches, RefreshAnswered(f) PROVE RenewInv'
  <2>1. CASE fetches[f].says # NoVisitor /\ fetches[f].kind = "bootRefresh"
    <3>1. Kept(f) /\ Asks(f, "sessionAgain", jar')
      BY <1>21, <2>1, SlotEffects DEF EffectsOf
    <3>. QED BY <1>21, <2>1, <3>1, <1>0, <1>1, <1>2, <1>3 DEF RefreshAnswered, Asks, Kept, Slot,
                RenewInv, Arrives, SetAuth, Asked, Renewals, Renewing, FetchInv
  <2>2. CASE ~(fetches[f].says # NoVisitor /\ fetches[f].kind = "bootRefresh")
    <3>1. Kept(f) /\ Frees(f)
      BY <1>21, <2>2, SlotEffects DEF EffectsOf
    <3>. QED BY <1>21, <2>2, <3>1, <1>0, <1>1, <1>2, <1>3 DEF RefreshAnswered, Frees, Kept, Slot,
                RenewInv, Arrives, SetAuth, Asked, Renewals, Renewing, FetchInv
  <2>. QED BY <2>1, <2>2
<1>22. ASSUME NEW f \in Fetches, PageAnswered(f) PROVE RenewInv'
  <2>1. CASE fetches[f].says = NoVisitor
    <3>1. Kept(f) /\ Asks(f, "pageRefresh", jar')
      BY <1>22, <2>1, SlotEffects DEF EffectsOf
    <3>. QED BY <1>22, <2>1, <3>1, <1>0, <1>1, <1>2, <1>3 DEF PageAnswered, Asks, Kept, Slot,
                RenewInv, Arrives, SetAuth, Asked, Renewals, Renewing, FetchInv
  <2>2. CASE ~(fetches[f].says = NoVisitor)
    <3>1. Kept(f) /\ Frees(f)
      BY <1>22, <2>2, SlotEffects DEF EffectsOf
    <3>. QED BY <1>22, <2>2, <3>1, <1>0, <1>1, <1>2, <1>3 DEF PageAnswered, Frees, Kept, Slot,
                RenewInv, Arrives, SetAuth, Asked, Renewals, Renewing, FetchInv
  <2>. QED BY <2>1, <2>2
<1>23. ASSUME NEW f \in Fetches, LogAnswered(f) PROVE RenewInv'
  <2>1. Kept(f) /\ Frees(f)
    BY <1>23, SlotEffects DEF EffectsOf
  <2>. QED BY <1>23, <2>1, <1>0, <1>1, <1>2, <1>3 DEF LogAnswered, Frees, Kept, Slot, RenewInv,
              Arrives, SetAuth, Asked, Renewals, Renewing
<1>24. ASSUME NEW f \in Fetches, Lost(f) PROVE RenewInv'
  <2>1. Frees(f) /\ (Kept(f) \/ jar' = jar)
    BY <1>24, SlotEffects DEF EffectsOf
  <2>2. /\ fetches[f].kind \in {"session", "bootRefresh", "sessionAgain", "page", "pageRefresh"}
        /\ grants' = grants /\ declined' = declined
        /\ IF fetches[f].kind \in {"session", "bootRefresh", "sessionAgain"}
           THEN auth' = NoVisitor /\ boot' = "failed" ELSE auth' = auth /\ boot' = boot
    <3>1. fetches[f].kind \in Kinds \ {"login", "logout", "none"}
      BY <1>24, FetchesAre DEF Lost, InFlight
    <3>. QED BY <1>24, <3>1, <1>1 DEF Lost, SetAuth, Kinds, Asked, Renewals
  <2>3. CASE fetches[f].kind \in Asked
    <3>1. jar' = jar
      BY <2>1, <2>3, <1>0 DEF Kept, FetchInv
    <3>. QED BY <2>1, <2>2, <2>3, <3>1, <1>0, <1>1, <1>3 DEF Frees, Slot, RenewInv, Renewing,
                Renewals, Asked
  <2>4. CASE fetches[f].kind \in {"bootRefresh", "pageRefresh"}
    <3>1. jar'.refresh[1] = jar.refresh[1] /\ (fetches[f].says = NoVisitor => jar' = jar)
      BY <2>1, <2>4, <1>0 DEF Kept, FetchInv, RenewInv
    <3>. QED BY <2>1, <2>2, <2>4, <3>1, <1>0, <1>1, <1>3 DEF Frees, Slot, RenewInv, Renewing,
                Renewals
  <2>. QED BY <2>2, <2>3, <2>4 DEF Asked
<1>25. ASSUME NEW id \in SessionIds, Revoke(id) PROVE RenewInv'
  BY <1>25, <1>0, <1>1, <1>2, <1>3 DEF Revoke, RenewInv, Renewing
<1>26. ASSUME AccessExpires PROVE RenewInv'
  <2>1. jar'.refresh = jar.refresh
    BY <1>26, <1>0 DEF AccessExpires, Jars
  <2>. QED BY <1>26, <2>1, <1>0, <1>1, <1>2 DEF AccessExpires, RenewInv, Renewing
<1>27. ASSUME RetryBoot PROVE RenewInv'
  BY <1>27, <1>0, <1>1, <1>2, <1>3 DEF RetryBoot, RenewInv, Renewing
<1>28. ASSUME Reload PROVE RenewInv'
  <2>1. \A f \in Fetches : fetches'[f] = NoFetch
    BY <1>28 DEF Reload
  <2>. QED BY <1>28, <2>1, <1>0 DEF Reload, NoFetch, RenewInv, Renewing, Renewals
<1>29. ASSUME ListAnswered PROVE RenewInv'
  BY <1>29, <1>0, <1>1, <1>2, <1>3 DEF ListAnswered, RenewInv, Renewing
<1>30. ASSUME ListFailed PROVE RenewInv'
  BY <1>30, <1>0, <1>1, <1>2, <1>3 DEF ListFailed, RenewInv, Renewing
<1>31. ASSUME NEW room \in Rooms, SelectRoom(room) PROVE RenewInv'
  BY <1>31, <1>0, <1>1, <1>2, <1>3 DEF SelectRoom, RenewInv, Renewing
<1>32. ASSUME NEW room \in Rooms, SelectElsewhere(room) PROVE RenewInv'
  BY <1>32, <1>0, <1>1, <1>2, <1>3 DEF SelectElsewhere, RenewInv, Renewing
<1>33. ASSUME UNCHANGED browserVars PROVE RenewInv'
  BY <1>33, <1>0, <1>1, <1>2, <1>3 DEF browserVars, RenewInv, Renewing
<1>34. ASSUME NEW f \in Fetches, TurnAway(f) PROVE RenewInv'
  <2>1. Declines(f) /\ UNCHANGED <<jar, tabVars>>
    BY <1>34, DeclinedSlot
  <2>2. CASE fetches[f].kind = "login"
    BY <2>1, <2>2, <1>0, <1>2, <1>3 DEF Declines, Frees, Slot, RenewInv, Renewing, Renewals
  <2>3. CASE fetches[f].kind # "login"
    <3>1. /\ fetches'[f].away /\ \A g \in Fetches : g # f => fetches'[g] = fetches[g]
          /\ fetches'[f].kind = fetches[f].kind /\ fetches'[f].served /\ fetches'[f].says = NoVisitor
          /\ fetches[f].kind # "logout" => fetches'[f].sets = {}
      BY <2>1, <2>3 DEF Declines, Serving, Slot
    <3>. QED BY <2>1, <2>3, <3>1, <1>0, <1>2, <1>3 DEF RenewInv, Renewing, Renewals
  <2>. QED BY <2>2, <2>3
<1>. QED BY <1>11, <1>12, <1>13, <1>14, <1>15, <1>16, <1>17, <1>18, <1>19, <1>20, <1>21,
            <1>22, <1>23, <1>24, <1>25, <1>26, <1>27, <1>28, <1>29, <1>30, <1>31, <1>32,
            <1>33, <1>34 DEF BrowserNext

\* While settled, a signed-out tab's cookies open nothing, and a user's cookies
\* are of that user.
LEMMA OwnerStep ==
  ASSUME BrowserTypes, CookiesInv, BootInv, FetchInv, PickerInv, Settled, ~unsettled, ~unsettled',
         [BrowserNext]_browserVars
  PROVE  OwnerInv'
<1>. USE DEF tabVars, localVars, SessionUser
<1>0. /\ RenewInv /\ OwnerInv /\ FetchInv /\ NoVisitor \notin Visitors
      /\ fetches \in [Fetches -> Fetched] /\ jar \in Jars
      /\ \A f \in Fetches : fetches[f].served \in BOOLEAN
  BY FetchesAre DEF Settled
<1>1. /\ \A f \in Fetches : fetches[f].kind \in {"session", "bootRefresh", "sessionAgain"} =>
           boot = "asking" /\ \A g \in Fetches : fetches[g].kind # "none" => g = f
      /\ \A f \in Fetches : fetches[f].kind \in {"page", "pageRefresh", "login", "logout"} => boot = "done"
  BY TypesAre DEF TabTypes, BootInv, BootKinds, InFlight
<1>2. /\ \A v : \A id \in DOMAIN grants \cup {0} : Serves(grants, id, v) => Serves(grants', id, v)
      /\ \A c : Genuine(grants, c) /\ ~Open(grants, c.refresh) => ~Open(grants', c.refresh)
      /\ Genuine(grants, jar) /\ jar.refresh[1] \in DOMAIN grants \cup {0}
      /\ \A f \in Fetches : \A c \in fetches[f].sets : c.refresh[1] \in DOMAIN grants \cup {0}
  BY GrantsStep, Aging DEF CookiesInv, Genuine
<1>3. \A f, g \in Fetches : fetches[f].kind \in Renewals /\ fetches[g].kind \in Renewals => f = g
  BY <1>0 DEF RenewInv, Renewing
<1>11. ASSUME RunEffects PROVE OwnerInv'
  BY <1>11, <1>0, <1>1, <1>2, <1>3 DEF RunEffects, OwnerInv
<1>12. ASSUME NEW f \in Fetches, AskPage(f) PROVE OwnerInv'
  <2>1. Asks(f, "page", jar)
    BY <1>12, SlotEffects DEF EffectsOf
  <2>. QED BY <1>12, <2>1, <1>0, <1>1, <1>2, <1>3 DEF AskPage, Asks, Slot, OwnerInv, Arrives,
              SetAuth, Asked, Renewals, Renewing
<1>13. ASSUME NEW f \in Fetches, ServeAsked(f) PROVE OwnerInv'
  <2>1. Serving(f, Bearer(fetches[f].carries.access), {})
    BY <1>13, SlotEffects DEF EffectsOf
  <2>. QED BY <1>13, <2>1, <1>0, <1>1, <1>2, <1>3 DEF ServeAsked, Serving, Slot, OwnerInv,
              Arrives, SetAuth, Asked, Renewals, Renewing
<1>14. ASSUME NEW f \in Fetches, ServeRefresh(f) PROVE OwnerInv'
  <2>. DEFINE token == fetches[f].carries.refresh
  <2>0. /\ fetches[f].kind \in {"bootRefresh", "pageRefresh"} /\ ~fetches[f].served
        /\ token = jar.refresh /\ UNCHANGED <<jar, auth, boot, declined>>
    BY <1>14, <1>0 DEF ServeRefresh, RenewInv
  <2>1. CASE Current(token)
    <3>1. Serving(f, grants[token[1]].user, Cookies(token[1], token[2] + 1))
      BY <1>14, <2>1, SlotEffects DEF EffectsOf
    <3>2. /\ \A c \in Cookies(token[1], token[2] + 1) : c.refresh[1] = token[1]
          /\ Cookies(token[1], token[2] + 1) # {}
          /\ grants[token[1]].user # NoVisitor /\ Serves(grants', token[1], grants[token[1]].user)
          /\ ~Open(grants', token)
      BY <1>14, <2>1, RefreshServes
    <3>3. fetches[f].kind = "pageRefresh" =>
            grants[token[1]].user = auth \/ (auth = NoVisitor /\ declined)
      <4>1. token[1] \in DOMAIN grants /\ Open(grants, jar.refresh)
        BY <2>0, <2>1, CurrentIsOpen DEF Current
      <4>. QED BY <1>0, <1>1, <2>0, <3>2, <4>1 DEF OwnerInv, Serves
    <3>. HIDE DEF token
    <3>. QED BY <2>0, <3>1, <3>2, <3>3, <1>0, <1>1, <1>2, <1>3 DEF Serving, Slot, OwnerInv,
                Renewing, Renewals
  <2>2. CASE ~Current(token)
    <3>1. Serving(f, NoVisitor, {}) /\ grants' = grants /\ ~Open(grants, jar.refresh)
      BY <1>14, <2>0, <2>2, SlotEffects, CurrentIsOpen DEF EffectsOf, ServeRefresh
    <3>. QED BY <2>0, <3>1, <1>0, <1>1, <1>2, <1>3 DEF Serving, Slot, OwnerInv, Renewing, Renewals
  <2>. QED BY <2>1, <2>2
<1>15. ASSUME NEW f \in Fetches, ServeLogout(f) PROVE OwnerInv'
  <2>1. Serving(f, NoVisitor, {NoJar})
    BY <1>15, SlotEffects DEF EffectsOf
  <2>2. fetches[f].kind = "logout" /\ UNCHANGED <<jar, auth, boot, declined>>
    BY <1>15 DEF ServeLogout
  <2>. QED BY <2>1, <2>2, <1>0, <1>1, <1>2, <1>3 DEF Serving, Slot, OwnerInv
<1>16. ASSUME NEW f \in Fetches, NEW v \in Visitors, ServeLogin(f, v) PROVE OwnerInv'
  <2>1. Serving(f, v, Cookies(Len(grants) + 1, 1))
    BY <1>16, SlotEffects DEF EffectsOf
  <2>. QED BY <1>16, <2>1, <1>0, <1>1, <1>2, <1>3 DEF ServeLogin, Serving, Slot, OwnerInv,
              Arrives, SetAuth, Asked, Renewals, Renewing
<1>17. ASSUME NEW f \in Fetches, LoadSession(f) PROVE OwnerInv'
  <2>1. Asks(f, "session", jar)
    BY <1>17, SlotEffects DEF EffectsOf
  <2>. QED BY <1>17, <2>1, <1>0, <1>1, <1>2, <1>3 DEF LoadSession, Asks, Slot, OwnerInv, Arrives,
              SetAuth, Asked, Renewals, Renewing
<1>18. ASSUME NEW f \in Fetches, LogIn(f) PROVE OwnerInv'
  <2>1. Asks(f, "login", jar)
    BY <1>18, SlotEffects DEF EffectsOf
  <2>. QED BY <1>18, <2>1, <1>0, <1>1, <1>2, <1>3 DEF LogIn, Asks, Slot, OwnerInv, Arrives,
              SetAuth, Asked, Renewals, Renewing
<1>19. ASSUME NEW f \in Fetches, LogOut(f) PROVE OwnerInv'
  <2>1. Asks(f, "logout", jar)
    BY <1>19, SlotEffects DEF EffectsOf
  <2>. QED BY <1>19, <2>1, <1>0, <1>1, <1>2, <1>3 DEF LogOut, Asks, Slot, OwnerInv, Arrives,
              SetAuth, Asked, Renewals, Renewing
<1>20. ASSUME NEW f \in Fetches, SessionAnswered(f) PROVE OwnerInv'
  <2>1. CASE fetches[f].says = NoVisitor /\ fetches[f].kind = "session"
    <3>1. Kept(f) /\ Asks(f, "bootRefresh", jar')
      BY <1>20, <2>1, SlotEffects DEF EffectsOf
    <3>. QED BY <1>20, <2>1, <3>1, <1>0, <1>1, <1>2, <1>3 DEF SessionAnswered, Asks, Kept, Slot,
                OwnerInv, Arrives, SetAuth, Asked, Renewals, Renewing, FetchInv, RenewInv
  <2>2. CASE ~(fetches[f].says = NoVisitor /\ fetches[f].kind = "session")
    <3>1. Kept(f) /\ Frees(f)
      BY <1>20, <2>2, SlotEffects DEF EffectsOf
    <3>. QED BY <1>20, <2>2, <3>1, <1>0, <1>1, <1>2, <1>3 DEF SessionAnswered, Frees, Kept, Slot,
                OwnerInv, Arrives, SetAuth, Asked, Renewals, Renewing, FetchInv, RenewInv
  <2>. QED BY <2>1, <2>2
<1>21. ASSUME NEW f \in Fetches, RefreshAnswered(f) PROVE OwnerInv'
  <2>1. CASE fetches[f].says # NoVisitor /\ fetches[f].kind = "bootRefresh"
    <3>1. Kept(f) /\ Asks(f, "sessionAgain", jar')
      BY <1>21, <2>1, SlotEffects DEF EffectsOf
    <3>. QED BY <1>21, <2>1, <3>1, <1>0, <1>1, <1>2, <1>3 DEF RefreshAnswered, Asks, Kept, Slot,
                OwnerInv, Arrives, SetAuth, Asked, Renewals, Renewing, FetchInv, RenewInv
  <2>2. CASE ~(fetches[f].says # NoVisitor /\ fetches[f].kind = "bootRefresh")
    <3>1. Kept(f) /\ Frees(f)
      BY <1>21, <2>2, SlotEffects DEF EffectsOf
    <3>. QED BY <1>21, <2>2, <3>1, <1>0, <1>1, <1>2, <1>3 DEF RefreshAnswered, Frees, Kept, Slot,
                OwnerInv, Arrives, SetAuth, Asked, Renewals, Renewing, FetchInv, RenewInv
  <2>. QED BY <2>1, <2>2
<1>22. ASSUME NEW f \in Fetches, PageAnswered(f) PROVE OwnerInv'
  <2>1. CASE fetches[f].says = NoVisitor
    <3>1. Kept(f) /\ Asks(f, "pageRefresh", jar')
      BY <1>22, <2>1, SlotEffects DEF EffectsOf
    <3>. QED BY <1>22, <2>1, <3>1, <1>0, <1>1, <1>2, <1>3 DEF PageAnswered, Asks, Kept, Slot,
                OwnerInv, Arrives, SetAuth, Asked, Renewals, Renewing, FetchInv, RenewInv
  <2>2. CASE ~(fetches[f].says = NoVisitor)
    <3>1. Kept(f) /\ Frees(f)
      BY <1>22, <2>2, SlotEffects DEF EffectsOf
    <3>. QED BY <1>22, <2>2, <3>1, <1>0, <1>1, <1>2, <1>3 DEF PageAnswered, Frees, Kept, Slot,
                OwnerInv, Arrives, SetAuth, Asked, Renewals, Renewing, FetchInv, RenewInv
  <2>. QED BY <2>1, <2>2
<1>23. ASSUME NEW f \in Fetches, LogAnswered(f) PROVE OwnerInv'
  <2>1. Frees(f) /\ Kept(f)
    BY <1>23, SlotEffects DEF EffectsOf
  <2>2. /\ fetches[f].served /\ grants' = grants /\ auth' = fetches[f].says /\ boot' = boot
        /\ fetches[f].kind \in {"login", "logout"} /\ declined' = fetches[f].away
    BY <1>23 DEF LogAnswered, Arrives, SetAuth
  <2>3. CASE fetches[f].kind = "login"
    <3>1. jar' \in fetches[f].sets /\ Serves(grants, jar'.refresh[1], auth') /\ auth' # NoVisitor
      BY <2>1, <2>2, <2>3, <1>0 DEF Kept, FetchInv
    <3>. QED BY <2>2, <3>1 DEF OwnerInv
  <2>4. CASE fetches[f].kind = "logout"
    <3>1. (jar' = NoJar \/ declined') /\ auth' = NoVisitor
      BY <2>1, <2>2, <2>4, <1>0 DEF Kept, FetchInv
    <3>2. ~Open(grants', NoJar.refresh)
      BY GrantsStep, NoJarIsGenuine
    <3>. QED BY <3>1, <3>2 DEF OwnerInv
  <2>. QED BY <2>2, <2>3, <2>4
<1>24. ASSUME NEW f \in Fetches, Lost(f) PROVE OwnerInv'
  <2>1. Frees(f) /\ (Kept(f) \/ jar' = jar)
    BY <1>24, SlotEffects DEF EffectsOf
  <2>2. /\ fetches[f].kind \in {"session", "bootRefresh", "sessionAgain", "page", "pageRefresh"}
        /\ grants' = grants /\ declined' = declined
        /\ IF fetches[f].kind \in {"session", "bootRefresh", "sessionAgain"}
           THEN auth' = NoVisitor /\ boot' = "failed" ELSE auth' = auth /\ boot' = boot
    <3>1. fetches[f].kind \in Kinds \ {"login", "logout", "none"}
      BY <1>24, FetchesAre DEF Lost, InFlight
    <3>. QED BY <1>24, <3>1, <1>1 DEF Lost, SetAuth, Kinds, Asked, Renewals
  <2>3. CASE fetches[f].kind \in Asked
    <3>1. jar' = jar
      BY <2>1, <2>3, <1>0 DEF Kept, FetchInv
    <3>. QED BY <2>1, <2>2, <2>3, <3>1, <1>0, <1>1, <1>3 DEF Frees, Slot, OwnerInv, Renewing,
                Renewals, Asked
  <2>4. CASE fetches[f].kind \in {"bootRefresh", "pageRefresh"}
    <3>1. jar'.refresh[1] = jar.refresh[1] /\ (fetches[f].says = NoVisitor => jar' = jar)
      BY <2>1, <2>4, <1>0 DEF Kept, FetchInv, RenewInv
    <3>. QED BY <2>1, <2>2, <2>4, <3>1, <1>0, <1>1, <1>3 DEF Frees, Slot, OwnerInv, RenewInv,
                Renewing, Renewals
  <2>. QED BY <2>2, <2>3, <2>4 DEF Asked
<1>25. ASSUME NEW id \in SessionIds, Revoke(id) PROVE OwnerInv'
  BY <1>25, <1>0, <1>1, <1>2, <1>3 DEF Revoke, OwnerInv
<1>26. ASSUME AccessExpires PROVE OwnerInv'
  <2>1. jar'.refresh = jar.refresh
    BY <1>26, <1>0 DEF AccessExpires, Jars
  <2>. QED BY <1>26, <2>1, <1>0, <1>1, <1>2 DEF AccessExpires, OwnerInv, Renewing
<1>27. ASSUME RetryBoot PROVE OwnerInv'
  BY <1>27, <1>0, <1>1, <1>2, <1>3 DEF RetryBoot, OwnerInv
<1>28. ASSUME Reload PROVE OwnerInv'
  <2>1. \A f \in Fetches : fetches'[f] = NoFetch
    BY <1>28 DEF Reload
  <2>. QED BY <1>28, <2>1, <1>0 DEF Reload, NoFetch, OwnerInv, Renewing, Renewals
<1>29. ASSUME ListAnswered PROVE OwnerInv'
  BY <1>29, <1>0, <1>1, <1>2, <1>3 DEF ListAnswered, OwnerInv
<1>30. ASSUME ListFailed PROVE OwnerInv'
  BY <1>30, <1>0, <1>1, <1>2, <1>3 DEF ListFailed, OwnerInv
<1>31. ASSUME NEW room \in Rooms, SelectRoom(room) PROVE OwnerInv'
  BY <1>31, <1>0, <1>1, <1>2, <1>3 DEF SelectRoom, OwnerInv
<1>32. ASSUME NEW room \in Rooms, SelectElsewhere(room) PROVE OwnerInv'
  BY <1>32, <1>0, <1>1, <1>2, <1>3 DEF SelectElsewhere, OwnerInv
<1>33. ASSUME UNCHANGED browserVars PROVE OwnerInv'
  BY <1>33, <1>0, <1>1, <1>2, <1>3 DEF browserVars, OwnerInv
<1>34. ASSUME NEW f \in Fetches, TurnAway(f) PROVE OwnerInv'
  BY <1>34, <1>0, <1>2, DeclinedSlot DEF OwnerInv
<1>. QED BY <1>11, <1>12, <1>13, <1>14, <1>15, <1>16, <1>17, <1>18, <1>19, <1>20, <1>21,
            <1>22, <1>23, <1>24, <1>25, <1>26, <1>27, <1>28, <1>29, <1>30, <1>31, <1>32,
            <1>33, <1>34 DEF BrowserNext

\* While settled, the list is the user's, and the choice shown is the one saved.
LEMMA PickerOwnStep ==
  ASSUME BrowserTypes, CookiesInv, BootInv, FetchInv, PickerInv, Settled, ~unsettled, ~unsettled',
         [BrowserNext]_browserVars
  PROVE  PickerIsOwn'
<1>. USE DEF tabVars, localVars, SessionUser
<1>0. /\ PickerIsOwn /\ PickerInv /\ NoVisitor \notin Visitors /\ TabTypes
      /\ \A id \in DOMAIN grants \cup {0} : Serves(grants, id, auth) => Serves(grants', id, auth)
      /\ listing.carries \in DOMAIN grants \cup {0}
  BY TypesAre, GrantsStep, Aging DEF Settled, CookiesInv
<1>1. /\ \A f \in Fetches : fetches[f].kind \in {"session", "bootRefresh", "sessionAgain"} => boot = "asking"
      /\ \A f \in Fetches : fetches[f].kind = "pageRefresh" /\ fetches[f].served =>
           fetches[f].says \in {NoVisitor, auth} \/ auth = NoVisitor
      /\ \A f \in Fetches : fetches[f].kind = "login" => auth = NoVisitor
      /\ \A f \in Fetches : fetches[f].kind = "logout" /\ fetches[f].served => fetches[f].says = NoVisitor
  <2>1. \A f \in Fetches : fetches[f].kind \in {"session", "bootRefresh", "sessionAgain"} => boot = "asking"
    BY TypesAre DEF TabTypes, BootInv, BootKinds, InFlight
  <2>2. \A f \in Fetches : fetches[f].kind = "pageRefresh" /\ fetches[f].served =>
          fetches[f].says \in {NoVisitor, auth} \/ auth = NoVisitor
    BY DEF RenewInv, Settled
  <2>3. \A f \in Fetches : fetches[f].kind = "login" => auth = NoVisitor
    BY DEF RenewInv, Settled
  <2>4. \A f \in Fetches : fetches[f].kind = "logout" /\ fetches[f].served => fetches[f].says = NoVisitor
    BY DEF FetchInv
  <2>. QED BY <2>1, <2>2, <2>3, <2>4
<1>2. ASSUME UNCHANGED tabVars PROVE PickerIsOwn'
  BY <1>0, <1>2 DEF PickerIsOwn, NoListing
<1>3. ASSUME auth' \in {auth, NoVisitor} \/ (~due /\ (auth = NoVisitor \/ ~Ready)), due' = TRUE,
             UNCHANGED localVars
      PROVE  PickerIsOwn'
  BY <1>0, <1>3 DEF PickerIsOwn, PickerInv
<1>11. ASSUME RunEffects PROVE PickerIsOwn'
  <2>1. CASE Ready /\ auth # NoVisitor
    <3>1. Serves(grants, jar.access, auth) /\ grants' = grants
      <4>1. /\ jar.access \in {0, jar.refresh[1]} /\ Serves(grants, jar.refresh[1], auth)
            /\ grants' = grants
        BY <1>11, <2>1 DEF RunEffects, CookiesInv, Genuine, OwnerInv, Settled
      <4>. QED BY <4>1, GrantsAre DEF Serves
    <3>2. /\ listing' = [as |-> auth, room |-> saved[auth], carries |-> jar.access]
          /\ UNCHANGED <<auth, list, shown, saved, elsewhere>>
      BY <1>11, <2>1 DEF RunEffects
    <3>3. listing'.carries = jar.access
      BY <3>2
    <3>. QED BY <3>1, <3>2, <3>3, <1>0 DEF PickerIsOwn
  <2>2. CASE ~(Ready /\ auth # NoVisitor)
    BY <1>11, <2>2, <1>0 DEF RunEffects, PickerIsOwn
  <2>. QED BY <2>1, <2>2
<1>12. ASSUME NEW f \in Fetches, AskPage(f) PROVE PickerIsOwn'
  BY <1>12, <1>2 DEF AskPage
<1>13. ASSUME NEW f \in Fetches, ~due, ServeAsked(f) PROVE PickerIsOwn'
  BY <1>13, <1>2 DEF ServeAsked
<1>14. ASSUME NEW f \in Fetches, ~due, ServeRefresh(f) PROVE PickerIsOwn'
  BY <1>14, <1>2 DEF ServeRefresh
<1>15. ASSUME NEW f \in Fetches, ~due, ServeLogout(f) PROVE PickerIsOwn'
  BY <1>15, <1>2 DEF ServeLogout
<1>16. ASSUME NEW f \in Fetches, NEW v \in Visitors, ~due, ServeLogin(f, v) PROVE PickerIsOwn'
  BY <1>16, <1>2 DEF ServeLogin
<1>17. ASSUME NEW f \in Fetches, ~due, LoadSession(f) PROVE PickerIsOwn'
  BY <1>17, <1>0 DEF LoadSession, PickerIsOwn, NoListing
<1>18. ASSUME NEW f \in Fetches, ~due, LogIn(f) PROVE PickerIsOwn'
  BY <1>18, <1>2 DEF LogIn
<1>19. ASSUME NEW f \in Fetches, ~due, LogOut(f) PROVE PickerIsOwn'
  BY <1>19, <1>2 DEF LogOut
<1>20. ASSUME NEW f \in Fetches, ~due, SessionAnswered(f) PROVE PickerIsOwn'
  <2>1. CASE fetches[f].says = NoVisitor /\ fetches[f].kind = "session"
    BY <1>20, <2>1, <1>2 DEF SessionAnswered, PickerIsOwn
  <2>2. CASE ~(fetches[f].says = NoVisitor /\ fetches[f].kind = "session")
    BY <1>20, <2>2, <1>1, <1>3 DEF SessionAnswered, Arrives, SetAuth, Ready
  <2>. QED BY <2>1, <2>2
<1>21. ASSUME NEW f \in Fetches, ~due, RefreshAnswered(f) PROVE PickerIsOwn'
  BY <1>21, <1>1, <1>3 DEF RefreshAnswered, Arrives, SetAuth, Ready
<1>22. ASSUME NEW f \in Fetches, ~due, PageAnswered(f) PROVE PickerIsOwn'
  BY <1>22, <1>2 DEF PageAnswered
<1>23. ASSUME NEW f \in Fetches, ~due, LogAnswered(f) PROVE PickerIsOwn'
  BY <1>23, <1>1, <1>3 DEF LogAnswered, Arrives, SetAuth, Ready
<1>24. ASSUME NEW f \in Fetches, ~due, Lost(f) PROVE PickerIsOwn'
  <2>1. CASE fetches[f].kind \in {"session", "bootRefresh", "sessionAgain", "logout"}
    BY <1>24, <2>1, <1>3 DEF Lost, SetAuth
  <2>2. CASE fetches[f].kind \notin {"session", "bootRefresh", "sessionAgain", "logout"}
    BY <1>24, <2>2, <1>0 DEF Lost, PickerIsOwn, NoListing
  <2>. QED BY <2>1, <2>2
<1>25. ASSUME NEW id \in SessionIds, ~due, Revoke(id) PROVE PickerIsOwn'
  BY <1>25, <1>2 DEF Revoke
<1>26. ASSUME ~due, AccessExpires PROVE PickerIsOwn'
  BY <1>26, <1>2 DEF AccessExpires
<1>27. ASSUME ~due, RetryBoot PROVE PickerIsOwn'
  BY <1>27, <1>3 DEF RetryBoot
<1>28. ASSUME ~due, Reload PROVE PickerIsOwn'
  BY <1>28, <1>0 DEF Reload, PickerIsOwn
<1>29. ASSUME ~due, ListAnswered PROVE PickerIsOwn'
  <2>1. auth # NoVisitor /\ listing.as = auth /\ Serves(grants, listing.carries, auth) /\ auth \in Visitors
    BY <1>29, <1>0 DEF ListAnswered, PickerInv, PickerIsOwn, TabTypes
  <2>2. Bearer(listing.carries) \in {auth, NoVisitor}
    BY <2>1 DEF Serves, Bearer
  <2>3. /\ list' = auth /\ auth' = auth /\ listing' = NoListing
        /\ shown' # NoRoom => saved' = [saved EXCEPT ![auth] = shown']
    BY <1>29, <2>1, <2>2 DEF ListAnswered, Choose
  <2>. QED BY <2>1, <2>3, <1>0 DEF PickerIsOwn, TabTypes
<1>30. ASSUME ~due, ListFailed PROVE PickerIsOwn'
  BY <1>30, <1>0 DEF ListFailed, PickerIsOwn
<1>31. ASSUME NEW room \in Rooms, ~due, SelectRoom(room) PROVE PickerIsOwn'
  BY <1>31, <1>0 DEF SelectRoom, Choose, PickerIsOwn, TabTypes
<1>32. ASSUME NEW room \in Rooms, ~due, SelectElsewhere(room) PROVE PickerIsOwn'
  BY <1>32, <1>0 DEF SelectElsewhere, PickerIsOwn, NoListing
<1>33. ASSUME UNCHANGED browserVars PROVE PickerIsOwn'
  BY <1>33, <1>2 DEF browserVars
<1>34. ASSUME NEW f \in Fetches, ~due, TurnAway(f) PROVE PickerIsOwn'
  BY <1>34, <1>2, DeclinedSlot
<1>. QED BY <1>11, <1>12, <1>13, <1>14, <1>15, <1>16, <1>17, <1>18, <1>19, <1>20, <1>21,
            <1>22, <1>23, <1>24, <1>25, <1>26, <1>27, <1>28, <1>29, <1>30, <1>31, <1>32,
            <1>33, <1>34 DEF BrowserNext


-----------------------------------------------------------------------------
(* The whole invariant.                                                     *)

\* A tab gets settled only by a login answered with nothing else under way or a
\* reload.
LEMMA Settles ==
  ASSUME BrowserTypes, FetchInv, PickerInv, unsettled, ~unsettled', [BrowserNext]_browserVars
  PROVE  Settled'
<1>. USE DEF tabVars, localVars, SessionUser
<1>0. unsettled \in BOOLEAN /\ unsettled' # unsettled
  BY TypesAre DEF TabTypes
<1>1. \A f \in Fetches : \A kind : \A c : ~Ask(f, kind, c)
  BY DEF Ask
<1>2. ASSUME NEW f \in Fetches,
             AskPage(f) \/ LoadSession(f) \/ LogIn(f) \/ LogOut(f) \/ SessionAnswered(f)
               \/ RefreshAnswered(f) \/ PageAnswered(f)
      PROVE  FALSE
  <2>1. \A kind : \A c : ~Ask(f, kind, c)
    BY <1>1
  <2>2. ~Drop(f)
    BY <1>0 DEF Drop
  <2>. QED BY ONLY <1>2, <2>1, <2>2 DEF AskPage, LoadSession, LogIn, LogOut, SessionAnswered,
              RefreshAnswered, PageAnswered
<1>3. ASSUME NEW f \in Fetches, ~due, LogAnswered(f) PROVE Settled'
  <2>1. /\ fetches[f].kind = "login" /\ fetches[f].served /\ auth = NoVisitor
        /\ \A g \in Fetches \ {f} : fetches[g].kind = "none"
        /\ auth' = fetches[f].says /\ due' /\ UNCHANGED <<grants, boot, listing, localVars>>
    BY <1>0, <1>3 DEF LogAnswered, Arrives, SetAuth, InFlight
  <2>2. Kept(f) /\ \A g \in Fetches : fetches'[g].kind = "none"
    <3>1. Kept(f) /\ Frees(f)
      BY <1>3, SlotEffects DEF EffectsOf
    <3>. QED BY <2>1, <3>1 DEF Frees, Slot
  <2>3. RenewInv'
    BY <2>2 DEF RenewInv, Renewing, Renewals
  <2>4. OwnerInv'
    BY <2>1, <2>2 DEF OwnerInv, FetchInv, Kept
  <2>5. PickerIsOwn'
    BY <1>3, <2>1 DEF PickerInv, PickerIsOwn
  <2>. QED BY <2>3, <2>4, <2>5 DEF Settled
<1>4. ASSUME Reload PROVE Settled'
  <2>1. /\ \A f \in Fetches : fetches'[f] = NoFetch
        /\ auth' = NoVisitor /\ boot' = "start" /\ listing' = NoListing
    BY <1>4 DEF Reload
  <2>. QED BY <2>1 DEF Settled, RenewInv, OwnerInv, PickerIsOwn, NoFetch, Renewing, Renewals
<1>5. ASSUME RunEffects \/ AccessExpires \/ RetryBoot \/ ListAnswered \/ ListFailed \/ UNCHANGED browserVars
      PROVE  FALSE
  BY <1>0, <1>5 DEF RunEffects, AccessExpires, RetryBoot, ListAnswered, ListFailed, browserVars
<1>6. ASSUME NEW f \in Fetches,
             \/ ServeAsked(f) \/ ServeRefresh(f) \/ ServeLogout(f) \/ \E v \in Visitors : ServeLogin(f, v)
             \/ TurnAway(f) \/ Lost(f)
      PROVE  FALSE
  BY <1>0, <1>6 DEF ServeAsked, ServeRefresh, ServeLogout, ServeLogin, TurnAway, Lost
<1>7. ASSUME \/ \E id \in SessionIds : Revoke(id)
             \/ \E room \in Rooms : SelectRoom(room) \/ SelectElsewhere(room)
      PROVE  FALSE
  BY <1>0, <1>7 DEF Revoke, SelectRoom, SelectElsewhere
<1>. QED BY <1>2, <1>3, <1>4, <1>5, <1>6, <1>7 DEF BrowserNext

\* The invariant holds at the start, is kept by each step and says what is promised.
LEMMA BrowserStarts == BrowserInit => BrowserInv /\ BrowserTypes
<1>. SUFFICES ASSUME BrowserInit PROVE BrowserInv /\ BrowserTypes
  OBVIOUS
<1>0. /\ grants = <<>> /\ jar = NoJar /\ fetches \in [Fetches -> Fetched] /\ auth = NoVisitor
      /\ boot = "start" /\ ~due /\ listing = NoListing /\ list = NoVisitor /\ shown = NoRoom
      /\ \A f \in Fetches : fetches[f] = NoFetch
  BY NoJarIsJar DEF BrowserInit
<1>1. TabTypes
  BY DEF BrowserInit, TabTypes, NoListing
<1>2. grants \in Seq(Grants) /\ Len(grants) = 0 /\ DOMAIN grants = {} /\ 0 <= MaxSessions
  BY <1>0
<1>3. BrowserTypes
  BY <1>0, <1>1, <1>2, NoJarIsJar, TypesAre
<1>4. NoJar.access = 0 /\ NoJar.refresh[1] = 0
  BY DEF NoJar, NoToken
<1>5. NoListing.carries = 0 /\ NoFetch.carries.access = 0 /\ NoFetch.sets = {} /\ NoFetch.kind = "none"
      /\ NoFetch.served = FALSE /\ NoFetch.says = NoVisitor
  BY DEF NoListing, NoFetch, NoJar
<1>6. CookiesInv
  BY <1>0, <1>2, <1>4, <1>5, NoJarIsJar DEF CookiesInv, Genuine
<1>7. BootInv /\ FetchInv /\ PickerInv
  BY <1>0, <1>5 DEF BootInv, FetchInv, PickerInv, InFlight, BootKinds, Asked
<1>8. Settled
  BY <1>0, <1>2, <1>4, <1>5 DEF Settled, RenewInv, OwnerInv, PickerIsOwn, Renewing, Renewals,
     Serves, Open
<1>. QED BY <1>3, <1>6, <1>7, <1>8 DEF BrowserInv, BrowserTypes, Settled

LEMMA BrowserSteps ==
  ASSUME BrowserInv, [BrowserNext]_browserVars
  PROVE  BrowserInv'
<1>1. BrowserTypes /\ CookiesInv /\ BootInv /\ FetchInv /\ PickerInv
  BY DEF BrowserInv, BrowserTypes, CookiesInv
<1>2. BrowserTypes'
  BY <1>1, TypesStep
<1>3. CookiesInv' /\ BootInv' /\ FetchInv' /\ PickerInv'
  BY <1>1, CookiesStep, BootStep, FetchStep, PickerStep
<1>4. ~unsettled' => Settled'
  <2>1. CASE unsettled
    BY <1>1, <2>1, Settles
  <2>2. CASE ~unsettled
    BY <1>1, <2>2, RenewStep, OwnerStep, PickerOwnStep DEF BrowserInv, Settled
  <2>. QED BY <2>1, <2>2
<1>. QED BY <1>2, <1>3, <1>4 DEF BrowserInv, BrowserTypes, Settled

LEMMA BrowserTells ==
  BrowserInv => BrowserTypeOK /\ SignedOutMeansOver /\ SignedInIsOwner /\ ListIsOwn /\ HeaderIsShown
<1>. SUFFICES ASSUME BrowserInv
              PROVE  SignedOutMeansOver /\ SignedInIsOwner /\ ListIsOwn /\ HeaderIsShown
  BY DEF BrowserInv
<1>1. Current(jar.refresh) <=> Open(grants, jar.refresh)
  BY CurrentIsOpen
<1>2. SignedOutMeansOver
  BY <1>1 DEF BrowserInv, OwnerInv, SignedOutMeansOver, SessionIsShown
<1>3. SignedInIsOwner
  BY <1>1 DEF BrowserInv, OwnerInv, SignedInIsOwner, Serves, Bearer, Open
<1>4. ListIsOwn /\ HeaderIsShown
  BY DEF BrowserInv, PickerInv, PickerIsOwn, ListIsOwn, HeaderIsShown, Ready
<1>. QED BY <1>2, <1>3, <1>4

\* App.tsx:221, :245, :275 and api.ts:26: whatever answers come late or never,
\* the tab shows the user its cookies act for, with that user's workspaces, its
\* requests name the workspace it shows, and the login page means that the session
\* is over - the parts on the session unless requests that change it overlapped or
\* got lost, the last one also unless refresh or logout was turned away.
THEOREM BrowserStaysTrue == LoginSpec => []BrowserIsTrue
<1>1. LoginInit => BrowserInv
  BY BrowserStarts DEF LoginInit
<1>2. BrowserInv /\ [LoginNext]_loginVars => BrowserInv'
  <2>1. [LoginNext]_loginVars => [BrowserNext]_browserVars
    BY DEF LoginNext, loginVars
  <2>. QED BY <2>1, BrowserSteps
<1>3. BrowserInv => BrowserIsTrue
  BY BrowserTells DEF BrowserIsTrue
<1>. QED BY <1>1, <1>2, <1>3, PTL DEF LoginSpec
=============================================================================
