----------------------------- MODULE ZaloLifecycle -----------------------------
(***************************************************************************)
(* The personal Zalo account of one owner in several API processes:        *)
(* zalo-personal.service.ts with the Redis lease of server.ts.             *)
(*                                                                         *)
(* In a process, operations on the owner run one at a time in a queue      *)
(* (runOwnerLifecycle) that needs the owner's lease.  Outside the queue    *)
(* run the fencing after a lost lease, the end of a listener, and the      *)
(* native QR logins until they settle.  An action is what runs between two *)
(* awaits of Redis, MongoDB or Zalo.                                       *)
(*                                                                         *)
(* The order of the queue is left open: whatever waits may be next.        *)
(* Messages, profiles and the setting history are left out.                *)
(***************************************************************************)
EXTENDS Integers, FiniteSets

CONSTANTS
  Procs,        \* API processes
  Logins,       \* QR logins (PendingZaloPersonalSession)
  Nothing,      \* no process, no login, no api
  MaxRestores,  \* bound: restored apis per process
  MaxLosses,    \* bound: leases that expire or are given up in use
  MaxCrashes,   \* bound: ends of a process
  MaxFaults     \* bound: MongoDB operations and listener stops that throw

ASSUME BoundsAssumption ==
  /\ MaxRestores \in Nat /\ MaxLosses \in Nat
  /\ MaxCrashes \in Nat /\ MaxFaults \in Nat
ASSUME NothingAssumption == Nothing \notin Procs \cup Logins \cup 1..MaxRestores
ASSUME ApisAssumption == Logins \cap 1..MaxRestores = {}

VARIABLES
  redis,     \* the process whose token the owner's key holds
  doc,       \* the ZaloPersonalSession document
  \* the Maps of a process: heldLeasesByOwner, lostLeasesByOwner,
  \* runtimeErrorsByOwner, pendingSessionsByOwner, activeClientsByOwner
  held, lost, err, pend, active,
  listens,   \* the apis of a process whose listener runs
  restored,  \* how many apis it has restored
  \* what runs in a process: the operation in the queue, the fencing, the
  \* handler of a closed listener, and the restore at its start
  op, fence, closing, boot,
  \* a QR login: status, expiry, cancellation, its native promise, and
  \* whether stopPendingApi has stopped its api
  home, qr, late, cancelled, native, stopped,
  losses, crashes, faults,
  \* history: logins begun before the last logout; whether a lease in use was
  \* given away or a session restored that is gone; the processes in which,
  \* since they started, a QR login got a listener beside a restored client
  voided, slips, beside

mapVars   == <<held, lost, err, pend, active>>
taskVars  == <<op, fence, closing, boot>>
loginVars == <<home, qr, late, cancelled, native, stopped>>
boundVars == <<losses, crashes, faults>>
history   == <<voided, slips, beside>>
vars == <<redis, doc, mapVars, listens, restored, taskVars, loginVars,
          boundVars, history>>

Apis == Logins \cup 1..MaxRestores
Points == {"idle", "dispose", "lookup", "logout", "logoutWait", "logoutDelete",
           "find", "login", "restoreSave", "avatars", "account", "saveQr",
           "compensate", "saveError"}
Errors == {"none", "lease", "listener", "stop", "delete", "compensation"}

Idle == [at |-> "idle", q |-> Nothing, api |-> Nothing, left |-> 0,
         boot |-> FALSE, ok |-> TRUE]

TypeOK ==
  /\ redis \in Procs \cup {Nothing}
  /\ doc \in [status : {"none", "connected", "error"},
              code : {"none", "listener", "other"}, by : Logins \cup {Nothing}]
  /\ held \in [Procs -> BOOLEAN] /\ lost \in [Procs -> BOOLEAN]
  /\ err \in [Procs -> Errors]
  /\ pend \in [Procs -> Logins \cup {Nothing}]
  /\ active \in [Procs -> Apis \cup {Nothing}]
  /\ listens \in [Procs -> SUBSET Apis]
  /\ restored \in [Procs -> 0..MaxRestores]
  /\ op \in [Procs -> [at : Points, q : Logins \cup {Nothing},
               api : Apis \cup {Nothing}, left : 0..2, boot : BOOLEAN, ok : BOOLEAN]]
  /\ fence \in [Procs -> [on : BOOLEAN, q : Logins \cup {Nothing},
                          api : Apis \cup {Nothing}]]
  /\ closing \in [Procs -> Apis \cup {Nothing}]
  /\ boot \in [Procs -> {"start", "queued", "save", "done"}]
  /\ home \in [Logins -> Procs \cup {Nothing}]
  /\ qr \in [Logins -> {"unused", "waiting_qr", "connected", "expired", "error"}]
  /\ late \in [Logins -> BOOLEAN] /\ cancelled \in [Logins -> BOOLEAN]
  /\ native \in [Logins -> {"none", "running", "resolved", "failed", "done"}]
  /\ stopped \in [Logins -> BOOLEAN]
  /\ voided \subseteq Logins
  /\ slips \subseteq {"lease", "restore"} /\ beside \subseteq Procs
  /\ losses \in 0..MaxLosses /\ crashes \in 0..MaxCrashes /\ faults \in 0..MaxFaults

NoDoc == [status |-> "none", code |-> "none", by |-> Nothing]
NoFence == [on |-> FALSE, q |-> Nothing, api |-> Nothing]

\* The processes start, perhaps with a session of an earlier login.
Init ==
  /\ redis = Nothing
  /\ doc \in {NoDoc, [NoDoc EXCEPT !.status = "connected"]}
  /\ held = [p \in Procs |-> FALSE] /\ lost = [p \in Procs |-> FALSE]
  /\ err = [p \in Procs |-> "none"]
  /\ pend = [p \in Procs |-> Nothing]
  /\ active = [p \in Procs |-> Nothing]
  /\ listens = [p \in Procs |-> {}]
  /\ restored = [p \in Procs |-> 0]
  /\ op = [p \in Procs |-> Idle]
  /\ fence = [p \in Procs |-> NoFence]
  /\ closing = [p \in Procs |-> Nothing]
  /\ boot = [p \in Procs |-> "start"]
  /\ home = [q \in Logins |-> Nothing]
  /\ qr = [q \in Logins |-> "unused"]
  /\ late = [q \in Logins |-> FALSE] /\ cancelled = [q \in Logins |-> FALSE]
  /\ native = [q \in Logins |-> "none"]
  /\ stopped = [q \in Logins |-> FALSE]
  /\ losses = 0 /\ crashes = 0 /\ faults = 0
  /\ voided = {} /\ slips = {} /\ beside = {}
-----------------------------------------------------------------------------
(* The pieces the operations are made of.                                   *)

\* A MongoDB operation or a listener's stop throws without taking effect.
Fault == faults < MaxFaults /\ faults' = faults + 1
NoFault == UNCHANGED faults

\* updateOne on the owner's document, which does nothing without one.
MarkError(code) ==
  doc' = IF doc.status = "none" THEN doc
         ELSE [doc EXCEPT !.status = "error", !.code = code]

\* api.stopListener.
StopApi(p, api) == listens' = [listens EXCEPT ![p] = @ \ {api}]

\* As a mutant of HasApi: the api is forgotten once the login is complete.
HasUnfinishedApi(q) == native[q] = "resolved" /\ ~stopped[q]

\* The native login has yielded an api that has not been stopped.
HasApi(q) == native[q] \notin {"none", "running"} /\ ~stopped[q]

\* stopPendingApi, and before there is an api the client's disconnect, which has
\* nothing to stop.  A stop that succeeded is remembered.
StopLogin(p, q) ==
  IF ~HasApi(q)
  THEN UNCHANGED <<listens, stopped>>
  ELSE StopApi(p, q) /\ stopped' = [stopped EXCEPT ![q] = TRUE]

CancelLogin(q, status) ==
  /\ cancelled' = [cancelled EXCEPT ![q] = TRUE]
  /\ qr' = [qr EXCEPT ![q] = status]

\* As a mutant of IsPendingReady: the QR code has not expired, and that is
\* all.
NotExpired(p, q) == ~late[q]

\* isPendingReady
IsPendingReady(p, q) ==
  pend[p] = q /\ ~cancelled[q] /\ qr[q] = "waiting_qr" /\ ~late[q]

\* As a mutant of ReadyForListener: what was checked before getAccountInfo.
AlreadyChecked(p, q) == op[p].q = q

\* The checks between getAccountInfo and startListener.
ReadyForListener(p, q) == IsPendingReady(p, q)

\* releaseHeldLease, after which Redis may not have heard of it.
Release(p) ==
  /\ held' = [held EXCEPT ![p] = FALSE]
  /\ lost' = [lost EXCEPT ![p] = FALSE]
  /\ redis' \in {redis, IF redis = p THEN Nothing ELSE redis}
KeepLease == UNCHANGED <<held, lost, redis>>

\* As a mutant of Retains: a QR code that waits to be scanned is forgotten.
RetainsConnected(p, ok) ==
  active[p] # Nothing \/ err[p] # "none" \/ (~ok /\ pend[p] # Nothing)

\* retainsOwnership
Retains(p, ok) ==
  \/ active[p] # Nothing
  \/ err[p] # "none"
  \/ pend[p] # Nothing /\ (qr[pend[p]] = "waiting_qr" \/ ~ok)

\* The process has a listener, or a QR code that may be scanned.
Uses(p) ==
  listens[p] # {} \/ (pend[p] # Nothing /\ qr[pend[p]] = "waiting_qr")

\* runOwnerLifecycle up to the operation: the lease it holds or a new one.
CanEnter(p) == op[p].at = "idle" /\ (held[p] \/ redis = Nothing)
TakeLease(p) ==
  /\ held' = [held EXCEPT ![p] = TRUE]
  /\ redis' = IF held[p] THEN redis ELSE p
  /\ UNCHANGED lost

\* LOCK_UNAVAILABLE: the lease is another's, or Redis does not answer.
CannotEnter(p) == op[p].at = "idle" /\ ~held[p]

Goto(p, o) == op' = [op EXCEPT ![p] = o]

\* For the history: the service now has a client and the listener of another
\* QR login, of which a logout stops the client only.
NotesBeside(p, both) == beside' = IF both THEN beside \cup {p} ELSE beside

\* The finally of runOwnerLifecycle, after the maps have their new values.
LeaveQueue(p, ok) ==
  /\ Goto(p, Idle)
  /\ IF ~Retains(p, ok)' /\ held[p] THEN Release(p) ELSE KeepLease

\* An operation that does not touch the maps, and takes the lease for no
\* longer than it lasts.
LeaveAtOnce(p) ==
  /\ UNCHANGED op
  /\ IF Retains(p, TRUE)' THEN TakeLease(p)
     ELSE IF held[p] THEN Release(p)
     ELSE UNCHANGED <<held, lost>> /\ redis' \in {redis, p}

-----------------------------------------------------------------------------
(* startZaloPersonalQr                                                      *)

\* A QR login that is over and has to be disposed of.
Outdated(q) == q # Nothing /\ (qr[q] = "expired" \/ late[q])

\* Nothing to do: a client, an error or a QR login is already there.
QrRefused(p) ==
  /\ CanEnter(p)
  /\ \/ active[p] # Nothing \/ err[p] # "none"
     \/ pend[p] # Nothing /\ ~Outdated(pend[p])
  /\ UNCHANGED <<err, pend, active, qr>>
  /\ LeaveAtOnce(p)
  /\ UNCHANGED <<doc, listens, restored, fence, closing, boot, home, late,
                 cancelled, native, stopped, boundVars, history>>

\* disposePendingQr, whose stop may throw.
QrReplaces(p) ==
  LET q == pend[p] IN
  /\ CanEnter(p)
  /\ active[p] = Nothing /\ err[p] = "none"
  /\ Outdated(q)
  /\ \/ /\ CancelLogin(q, "expired")
        /\ StopLogin(p, q)
        /\ TakeLease(p)
        /\ Goto(p, [Idle EXCEPT !.at = "dispose", !.q = q])
        /\ NoFault
     \/ /\ HasApi(q) /\ Fault
        /\ CancelLogin(q, "error")
        /\ TakeLease(p)
        /\ UNCHANGED <<listens, stopped, op>>
  /\ UNCHANGED <<doc, err, pend, active, restored, fence, closing, boot, home,
                 late, native, losses, crashes, history>>

\* After waiting for the old native login, for 2 s at most.
QrDisposed(p) ==
  /\ op[p].at = "dispose"
  /\ pend' = [pend EXCEPT ![p] = Nothing]
  /\ Goto(p, [Idle EXCEPT !.at = "lookup"])
  /\ UNCHANGED <<redis, doc, held, lost, err, active, listens, restored, fence,
                 closing, boot, loginVars, boundVars, history>>

QrLooksUp(p) ==
  /\ CanEnter(p)
  /\ active[p] = Nothing /\ err[p] = "none" /\ pend[p] = Nothing
  /\ TakeLease(p)
  /\ Goto(p, [Idle EXCEPT !.at = "lookup"])
  /\ UNCHANGED <<doc, err, pend, active, listens, restored, fence, closing,
                 boot, loginVars, boundVars, history>>

\* Only a session that is absent or ended with a listener error admits a new
\* QR login.
QrAllowed == doc.status = "none" \/ doc.code = "listener"

QrStarts(p) ==
  /\ op[p].at = "lookup"
  /\ \/ \E q \in Logins :
          /\ QrAllowed /\ qr[q] = "unused"
          /\ home' = [home EXCEPT ![q] = p]
          /\ pend' = [pend EXCEPT ![p] = q]
          /\ qr' = [qr EXCEPT ![q] = "waiting_qr"]
          /\ native' = [native EXCEPT ![q] = "running"]
          /\ UNCHANGED <<err, active>>
          /\ NoFault
          /\ LeaveQueue(p, TRUE)
     \/ /\ UNCHANGED <<home, pend, qr, native, err, active>>
        /\ \/ ~QrAllowed /\ NoFault /\ LeaveQueue(p, TRUE)
           \/ Fault /\ LeaveQueue(p, FALSE)
  /\ UNCHANGED <<doc, listens, restored, fence, closing, boot, late, cancelled,
                 stopped, losses, crashes, history>>

\* The time of the QR code passes, whatever has become of the login; and the
\* owner's browser asks for the status of one that still waits.  The time of a
\* login that is no longer in the map matters to nobody.
QrExpires(q) ==
  /\ qr[q] # "unused" /\ pend[home[q]] = q
  /\ \/ ~late[q] /\ late' = [late EXCEPT ![q] = TRUE] /\ UNCHANGED qr
     \/ /\ late[q] /\ qr[q] = "waiting_qr"
        /\ qr' = [qr EXCEPT ![q] = "expired"]
        /\ UNCHANGED late
  /\ UNCHANGED <<redis, doc, mapVars, listens, restored, taskVars, home,
                 cancelled, native, stopped, boundVars, history>>
-----------------------------------------------------------------------------
(* logoutZaloPersonal                                                       *)

\* The client and the QR login to stop are those of its beginning; then the
\* session is read, for the history only.
LogoutBegins(p) ==
  /\ CanEnter(p)
  /\ TakeLease(p)
  /\ Goto(p, [Idle EXCEPT !.at = "logout", !.q = pend[p], !.api = active[p]])
  /\ UNCHANGED <<doc, err, pend, active, listens, restored, fence, closing,
                 boot, loginVars, boundVars, history>>

\* The stop fails: the error is kept in memory and, if it can be, in MongoDB.
LogoutStopFails(p) ==
  LET q == op[p].q IN
  /\ op[p].at = "logout"
  /\ op[p].api # Nothing \/ (q # Nothing /\ HasApi(q))
  /\ Fault
  /\ err' = [err EXCEPT ![p] = "stop"]
  /\ IF q = Nothing THEN UNCHANGED <<qr, cancelled>> ELSE CancelLogin(q, "error")
  /\ Goto(p, [Idle EXCEPT !.at = "saveError", !.ok = FALSE])
  /\ UNCHANGED <<redis, doc, held, lost, pend, active, listens, restored,
                 fence, closing, boot, home, late, native, stopped, losses,
                 crashes, history>>

ClearMaps(p) ==
  /\ pend' = [pend EXCEPT ![p] = Nothing]
  /\ active' = [active EXCEPT ![p] = Nothing]
  /\ err' = [err EXCEPT ![p] = "none"]

\* An active client is stopped and the maps are cleared at once; a QR login is
\* cancelled first and its native promise waited for.
LogoutStops(p) ==
  LET o == op[p] IN
  /\ o.at = "logout"
  /\ \/ /\ o.api # Nothing
        /\ StopApi(p, o.api)
        /\ ClearMaps(p)
        /\ Goto(p, [Idle EXCEPT !.at = "logoutDelete"])
        /\ UNCHANGED <<qr, cancelled, stopped>>
     \/ /\ o.api = Nothing /\ o.q # Nothing
        /\ CancelLogin(o.q, "error")
        /\ StopLogin(p, o.q)
        /\ Goto(p, [Idle EXCEPT !.at = "logoutWait"])
        /\ UNCHANGED <<err, pend, active>>
     \/ /\ o.api = Nothing /\ o.q = Nothing
        /\ ClearMaps(p)
        /\ Goto(p, [Idle EXCEPT !.at = "logoutDelete"])
        /\ UNCHANGED <<listens, qr, cancelled, stopped>>
  /\ UNCHANGED <<redis, doc, held, lost, restored, fence, closing, boot, home,
                 late, native, boundVars, history>>

LogoutWaited(p) ==
  /\ op[p].at = "logoutWait"
  /\ ClearMaps(p)
  /\ Goto(p, [Idle EXCEPT !.at = "logoutDelete"])
  /\ UNCHANGED <<redis, doc, held, lost, listens, restored, fence, closing,
                 boot, loginVars, boundVars, history>>

LogoutDeletes(p) ==
  /\ op[p].at = "logoutDelete"
  /\ \/ /\ doc' = NoDoc
        /\ voided' = {q \in Logins : qr[q] # "unused"}
        /\ UNCHANGED err
        /\ NoFault
        /\ UNCHANGED <<pend, active, qr>>
        /\ LeaveQueue(p, TRUE)
     \/ /\ Fault
        /\ err' = [err EXCEPT ![p] = "delete"]
        /\ Goto(p, [Idle EXCEPT !.at = "saveError", !.ok = FALSE])
        /\ KeepLease
        /\ UNCHANGED <<doc, voided, pend, active, qr>>
  /\ UNCHANGED <<listens, restored, fence, closing, boot, home, late,
                 cancelled, native, stopped, losses, crashes, slips, beside>>

\* The last write of an operation that recorded an error in runtimeErrors;
\* its own failure is swallowed.
SaveError(p) ==
  /\ op[p].at = "saveError"
  /\ \/ MarkError("other") /\ NoFault
     \/ Fault /\ UNCHANGED doc
  /\ UNCHANGED <<err, pend, active, qr>>
  /\ \E ok \in BOOLEAN : ok = op[p].ok /\ LeaveQueue(p, ok)
  /\ boot' = IF op[p].boot THEN [boot EXCEPT ![p] = "save"] ELSE boot
  /\ UNCHANGED <<listens, restored, fence, closing, home, late, cancelled,
                 native, stopped, losses, crashes, history>>
-----------------------------------------------------------------------------
(* getActiveZaloPersonalClient and restoreActiveZaloPersonalClients         *)

\* A message is to be sent, or a process has started: look for the session.
\* The start reads it before it queues for the lease.
SendFinds(p) ==
  /\ active[p] = Nothing /\ err[p] = "none"
  /\ CanEnter(p)
  /\ TakeLease(p)
  /\ Goto(p, [Idle EXCEPT !.at = "find"])
  /\ UNCHANGED <<doc, err, pend, active, listens, restored, fence, closing,
                 boot, loginVars, boundVars, history>>

Restorable == doc.status = "connected" /\ doc.code = "none"
Restoring(boots) == [Idle EXCEPT !.at = "login", !.left = 2, !.boot = boots]

SendRestores(p) ==
  /\ op[p].at = "find"
  /\ UNCHANGED <<err, pend, active, qr>>
  /\ \/ /\ Restorable /\ NoFault
        /\ Goto(p, Restoring(FALSE))
        /\ KeepLease
     \/ ~Restorable /\ NoFault /\ LeaveQueue(p, TRUE)
     \/ Fault /\ LeaveQueue(p, FALSE)
  /\ UNCHANGED <<doc, listens, restored, fence, closing, boot, home, late,
                 cancelled, native, stopped, losses, crashes, history>>

BootReads(p) ==
  /\ boot[p] = "start"
  /\ \/ boot' = [boot EXCEPT ![p] = IF Restorable THEN "queued" ELSE "done"]
        /\ NoFault
     \/ Fault /\ boot' = [boot EXCEPT ![p] = "done"]
  /\ UNCHANGED <<redis, doc, mapVars, listens, restored, op, fence, closing,
                 loginVars, losses, crashes, history>>

\* Without the lease, another process is taken to look after the owner.
BootRestores(p) ==
  /\ boot[p] = "queued"
  /\ boot' = [boot EXCEPT ![p] = "done"]
  /\ UNCHANGED <<err, pend, active, qr>>
  /\ \/ CannotEnter(p) /\ UNCHANGED <<op, slips>> /\ KeepLease
     \/ /\ CanEnter(p)
        /\ active[p] # Nothing \/ err[p] # "none"
        /\ UNCHANGED slips
        /\ LeaveAtOnce(p)
     \/ /\ CanEnter(p)
        /\ active[p] = Nothing /\ err[p] = "none"
        /\ TakeLease(p)
        /\ Goto(p, Restoring(TRUE))
        /\ slips' = IF Restorable THEN slips ELSE slips \cup {"restore"}
  /\ UNCHANGED <<doc, listens, restored, fence, closing, home, late, cancelled,
                 native, stopped, boundVars, voided, beside>>

\* As a mutant of AttemptsLeft: a restore that is never given up.
AlwaysRetry(p) == TRUE

\* RESTORE_ATTEMPTS
AttemptsLeft(p) == op[p].left > 1

\* An attempt to restore has failed and its client is disconnected: another
\* one, or the operation throws, and the start notes that in MongoDB.
NextAttempt(p) ==
  /\ UNCHANGED <<err, pend, active, qr>>
  /\ IF AttemptsLeft(p)
     THEN Goto(p, [op[p] EXCEPT !.at = "login", !.left = @ - 1])
          /\ KeepLease /\ UNCHANGED boot
     ELSE /\ LeaveQueue(p, FALSE)
          /\ boot' = IF op[p].boot THEN [boot EXCEPT ![p] = "save"] ELSE boot

\* client.login, and the start of the listener.  Nothing looks at the lease
\* or at runtimeErrors any more.
RestoreLogsIn(p) ==
  LET api == restored[p] + 1 IN
  /\ op[p].at = "login"
  /\ \/ /\ restored[p] < MaxRestores
        /\ restored' = [restored EXCEPT ![p] = api]
        /\ listens' = [listens EXCEPT ![p] = @ \cup {api}]
        /\ Goto(p, [op[p] EXCEPT !.at = "restoreSave", !.api = api])
        /\ UNCHANGED <<err, pend, active, qr, boot>>
        /\ KeepLease
     \/ NextAttempt(p) /\ UNCHANGED <<listens, restored>>
  /\ UNCHANGED <<doc, fence, closing, home, late, cancelled, native, stopped,
                 boundVars, history>>

RestoreSaves(p) ==
  LET api == op[p].api IN
  /\ op[p].at = "restoreSave"
  /\ \/ /\ doc' = IF doc.status = "none" THEN doc
                  ELSE [doc EXCEPT !.status = "connected", !.code = "none"]
        /\ err' = [err EXCEPT ![p] = "none"]
        /\ active' = [active EXCEPT ![p] = api]
        /\ Goto(p, [Idle EXCEPT !.at = "avatars"])
        /\ KeepLease
        /\ NotesBeside(p, listens[p] \cap Logins # {})
        /\ UNCHANGED <<listens, boot, pend, qr>>
        /\ NoFault
     \/ /\ Fault /\ StopApi(p, api) /\ NextAttempt(p) /\ UNCHANGED <<doc, beside>>
     \/ /\ faults + 1 < MaxFaults /\ faults' = faults + 2
        /\ err' = [err EXCEPT ![p] = "stop"]
        /\ Goto(p, [op[p] EXCEPT !.at = "saveError", !.ok = FALSE])
        /\ KeepLease
        /\ UNCHANGED <<doc, active, listens, boot, pend, qr, beside>>
  /\ UNCHANGED <<restored, fence, closing, home, late, cancelled, native,
                 stopped, losses, crashes, voided, slips>>

\* refreshZaloCustomerAvatars, whose failure is swallowed.
RestoreEnds(p) ==
  /\ op[p].at = "avatars"
  /\ UNCHANGED <<err, pend, active, qr>>
  /\ LeaveQueue(p, TRUE)
  /\ UNCHANGED <<doc, listens, restored, fence, closing, boot, home, late,
                 cancelled, native, stopped, boundVars, history>>

\* RESTORE_FAILED, outside of the queue.
BootSavesError(p) ==
  /\ boot[p] = "save"
  /\ boot' = [boot EXCEPT ![p] = "done"]
  /\ \/ MarkError("other") /\ NoFault
     \/ Fault /\ UNCHANGED doc
  /\ UNCHANGED <<redis, mapVars, listens, restored, op, fence, closing,
                 loginVars, losses, crashes, history>>
-----------------------------------------------------------------------------
(* The QR login that was started: runQrLogin and what it queues.            *)

\* A failed login is recorded, unless it was cancelled.
AfterFailure(q) == IF cancelled[q] THEN "done" ELSE "failed"

\* The native promise settles, however late.  An api that is not wanted any
\* more is stopped.
NativeSettles(p, q) ==
  /\ home[q] = p
  /\ native[q] = "running"
  /\ \/ /\ IsPendingReady(p, q)
        /\ native' = [native EXCEPT ![q] = "resolved"]
        /\ UNCHANGED stopped /\ NoFault
     \/ /\ ~IsPendingReady(p, q)
        /\ \/ /\ native' = [native EXCEPT ![q] = "done"]
              /\ stopped' = [stopped EXCEPT ![q] = TRUE] /\ NoFault
           \/ /\ native' = [native EXCEPT ![q] = AfterFailure(q)]
              /\ UNCHANGED stopped /\ Fault
     \/ /\ native' = [native EXCEPT ![q] = AfterFailure(q)]
        /\ UNCHANGED stopped /\ NoFault
  /\ UNCHANGED <<redis, doc, mapVars, listens, restored, taskVars, home, qr,
                 late, cancelled, losses, crashes, history>>

\* completeQrLogin, up to getAccountInfo.
CompleteBegins(p, q) ==
  /\ home[q] = p
  /\ native[q] = "resolved"
  /\ native' = [native EXCEPT ![q] = "done"]
  /\ UNCHANGED <<err, pend, active, qr>>
  /\ \/ /\ CanEnter(p) /\ IsPendingReady(p, q)
        /\ TakeLease(p)
        /\ Goto(p, [Idle EXCEPT !.at = "account", !.q = q])
        /\ UNCHANGED <<listens, stopped>> /\ NoFault
     \/ /\ CanEnter(p) /\ ~IsPendingReady(p, q)
        /\ \/ StopLogin(p, q) /\ NoFault
           \/ HasApi(q) /\ Fault /\ UNCHANGED <<listens, stopped>>
        /\ LeaveAtOnce(p)
  /\ UNCHANGED <<doc, restored, fence, closing, boot, home, late, cancelled,
                 losses, crashes, history>>

\* Without the lease the login has failed.
CompleteLocked(q) ==
  /\ native[q] = "resolved"
  /\ CannotEnter(home[q])
  /\ native' = [native EXCEPT ![q] = AfterFailure(q)]
  /\ UNCHANGED <<redis, doc, mapVars, listens, restored, taskVars, home, qr,
                 late, cancelled, stopped, boundVars, history>>

\* getAccountInfo answers, and the listener is started if the login is still
\* wanted; or it fails.
CompleteListens(p) ==
  LET q == op[p].q IN
  /\ op[p].at = "account"
  /\ UNCHANGED <<err, pend, active, qr>>
  /\ \/ /\ ReadyForListener(p, q)
        /\ listens' = [listens EXCEPT ![p] = @ \cup {q}]
        /\ Goto(p, [op[p] EXCEPT !.at = "saveQr"])
        /\ KeepLease
        /\ NotesBeside(p, active[p] # Nothing)
        /\ UNCHANGED <<stopped, native>> /\ NoFault
     \/ /\ ~ReadyForListener(p, q)
        /\ \/ StopLogin(p, q) /\ NoFault
           \/ HasApi(q) /\ Fault /\ UNCHANGED <<listens, stopped>>
        /\ LeaveQueue(p, TRUE)
        /\ UNCHANGED <<native, beside>>
     \/ /\ native' = [native EXCEPT ![q] = AfterFailure(q)]
        /\ LeaveQueue(p, FALSE)
        /\ UNCHANGED <<listens, stopped, beside>> /\ NoFault
  /\ UNCHANGED <<doc, restored, fence, closing, boot, home, late, cancelled,
                 losses, crashes, voided, slips>>

\* A compensation has failed; the rest of its errors are swallowed.
FailCompensation(p, q) ==
  /\ err' = [err EXCEPT ![p] = "compensation"]
  /\ IF pend[p] = q THEN CancelLogin(q, "error") ELSE UNCHANGED <<qr, cancelled>>
  /\ Goto(p, [Idle EXCEPT !.at = "saveError"])
  /\ KeepLease

\* The session is written; a login that was cancelled or expired meanwhile is
\* compensated for.
CompleteSaves(p) ==
  LET q == op[p].q
      Written == doc' = [status |-> "connected", code |-> "none", by |-> q]
  IN
  /\ op[p].at = "saveQr"
  /\ \/ /\ IsPendingReady(p, q)
        /\ Written /\ NoFault
        /\ qr' = [qr EXCEPT ![q] = "connected"]
        /\ err' = [err EXCEPT ![p] = "none"]
        /\ active' = [active EXCEPT ![p] = q]
        /\ UNCHANGED <<pend, listens, native, cancelled, stopped>>
        /\ LeaveQueue(p, TRUE)
     \/ /\ ~IsPendingReady(p, q)
        /\ Written /\ NoFault
        /\ StopLogin(p, q)
        /\ active' = [active EXCEPT ![p] = IF @ = q THEN Nothing ELSE @]
        /\ Goto(p, [op[p] EXCEPT !.at = "compensate"])
        /\ KeepLease
        /\ UNCHANGED <<err, pend, qr, native, cancelled>>
     \/ /\ ~IsPendingReady(p, q)
        /\ HasApi(q)
        /\ Written /\ Fault
        /\ FailCompensation(p, q)
        /\ UNCHANGED <<pend, active, listens, native, stopped>>
     \/ /\ Fault
        /\ native' = [native EXCEPT ![q] = AfterFailure(q)]
        /\ UNCHANGED <<doc, err, pend, active, listens, qr, cancelled, stopped>>
        /\ LeaveQueue(p, FALSE)
  /\ UNCHANGED <<restored, fence, closing, boot, home, late, losses, crashes,
                 history>>

\* compensateStaleQrWrite deletes the owner's session.
CompensationDeletes(p) ==
  /\ op[p].at = "compensate"
  /\ \/ /\ doc' = NoDoc /\ NoFault
        /\ UNCHANGED <<err, pend, active, qr, cancelled>>
        /\ LeaveQueue(p, TRUE)
     \/ /\ Fault
        /\ FailCompensation(p, op[p].q)
        /\ UNCHANGED <<doc, pend, active>>
  /\ UNCHANGED <<listens, restored, fence, closing, boot, home, late, native,
                 stopped, losses, crashes, history>>

\* recordQrLoginFailure, whose disconnect may fail silently.
FailureRecorded(p, q) ==
  /\ home[q] = p
  /\ native[q] = "failed"
  /\ CanEnter(p)
  /\ native' = [native EXCEPT ![q] = "done"]
  /\ \/ /\ IsPendingReady(p, q)
        /\ qr' = [qr EXCEPT ![q] = "error"]
        /\ \/ StopApi(p, q) /\ NoFault
           \/ Fault /\ UNCHANGED listens
     \/ /\ ~IsPendingReady(p, q)
        /\ NoFault
        /\ UNCHANGED <<qr, listens>>
  /\ UNCHANGED <<err, pend, active>>
  /\ LeaveAtOnce(p)
  /\ UNCHANGED <<doc, restored, fence, closing, boot, home, late, cancelled,
                 stopped, losses, crashes, history>>
-----------------------------------------------------------------------------
(* Outside of the queue.                                                    *)

\* The owner's key expires: of a process that died, or of one that lives and
\* has not renewed it in time.
KeyExpires ==
  /\ redis # Nothing
  /\ redis' = Nothing
  /\ IF held[redis] THEN losses < MaxLosses /\ losses' = losses + 1
                    ELSE UNCHANGED losses
  /\ UNCHANGED <<doc, mapVars, listens, restored, taskVars, loginVars, crashes,
                 faults, history>>

\* A renewal finds another token, or Redis does not answer in time; then
\* fenceLostLease up to its write.  A stop that fails ends it.
LeaseIsLost(p) ==
  LET q == pend[p]
      api == active[p]
  IN
  /\ held[p] /\ ~lost[p] /\ ~fence[p].on
  /\ IF redis = p THEN losses < MaxLosses /\ losses' = losses + 1
                  ELSE UNCHANGED losses
  /\ lost' = [lost EXCEPT ![p] = TRUE]
  /\ err' = [err EXCEPT ![p] = "lease"]
  /\ IF q = Nothing THEN UNCHANGED <<qr, cancelled>> ELSE CancelLogin(q, "error")
  /\ \/ /\ fence' = [fence EXCEPT ![p] = [on |-> TRUE, q |-> q, api |-> api]]
        /\ IF api # Nothing /\ api # q THEN StopApi(p, api) /\ UNCHANGED stopped
           ELSE IF q # Nothing THEN StopLogin(p, q)
           ELSE UNCHANGED <<listens, stopped>>
        /\ NoFault
     \/ /\ api # Nothing \/ (q # Nothing /\ HasApi(q))
        /\ Fault
        /\ UNCHANGED <<fence, listens, stopped>>
  /\ UNCHANGED <<redis, doc, held, pend, active, restored, op, closing, boot,
                 home, late, native, crashes, history>>

\* The rest of fenceLostLease.
FenceEnds(p) ==
  LET f == fence[p] IN
  /\ f.on
  /\ \/ MarkError("other") /\ NoFault
     \/ Fault /\ UNCHANGED doc
  /\ active' = [active EXCEPT ![p] = IF @ = f.api THEN Nothing ELSE @]
  /\ pend' = [pend EXCEPT ![p] = IF @ = f.q THEN Nothing ELSE @]
  /\ IF lost[p] THEN Release(p) ELSE KeepLease
  /\ fence' = [fence EXCEPT ![p] = NoFence]
  /\ UNCHANGED <<err, listens, restored, op, closing, boot, loginVars, losses,
                 crashes, history>>

\* A listener has ended for good; handleZaloPersonalListenerError if it is the
\* active one.
ListenerCloses(p) ==
  \E api \in listens[p] :
    /\ StopApi(p, api)
    /\ IF active[p] = api /\ closing[p] = Nothing
       THEN /\ err' = [err EXCEPT ![p] = "listener"]
            /\ closing' = [closing EXCEPT ![p] = api]
       ELSE active[p] # api /\ UNCHANGED <<err, closing>>
    /\ UNCHANGED <<redis, doc, held, lost, pend, active, restored, op, fence,
                   boot, loginVars, boundVars, history>>

\* The handler writes the error, stops the api, and gives back the lease that
\* the process holds by now.
ListenerClosed(p) ==
  LET api == closing[p] IN
  /\ api # Nothing
  /\ closing' = [closing EXCEPT ![p] = Nothing]
  /\ \/ MarkError("listener") /\ NoFault
     \/ Fault /\ UNCHANGED doc
  /\ StopApi(p, api)
  /\ active' = [active EXCEPT ![p] = IF @ = api THEN Nothing ELSE @]
  /\ IF held[p] THEN Release(p) ELSE KeepLease
  /\ UNCHANGED <<err, pend, restored, op, fence, boot, loginVars, losses,
                 crashes, voided, beside>>
  /\ slips' = slips \cup
       (IF held[p] /\ (Uses(p)' \/ op[p].at # "idle") THEN {"lease"} ELSE {})

\* A process ends and is started again.
Ends(p) ==
  /\ crashes < MaxCrashes
  /\ crashes' = crashes + 1
  /\ held' = [held EXCEPT ![p] = FALSE] /\ lost' = [lost EXCEPT ![p] = FALSE]
  /\ ClearMaps(p)
  /\ listens' = [listens EXCEPT ![p] = {}]
  /\ op' = [op EXCEPT ![p] = Idle]
  /\ fence' = [fence EXCEPT ![p] = NoFence]
  /\ closing' = [closing EXCEPT ![p] = Nothing]
  /\ boot' = [boot EXCEPT ![p] = "start"]
  /\ native' = [q \in Logins |-> IF home[q] = p THEN "done" ELSE native[q]]
  /\ UNCHANGED <<doc, restored, home, qr, late, cancelled, stopped, losses,
                 faults, voided, slips>>
  /\ beside' = beside \ {p}

Crashes(p) == Ends(p) /\ UNCHANGED redis

\* shutdownActiveZaloPersonalClients, once the queue is empty: it stops the
\* listeners before it gives the lease back.
ShutsDown(p) ==
  /\ op[p].at = "idle"
  /\ held[p]
  /\ Ends(p)
  /\ redis' \in {redis, IF redis = p THEN Nothing ELSE redis}

\* A failure that cannot be recorded for want of the lease is a rejection that
\* nobody handles, which ends the process.
FailureLocked(q) ==
  /\ native[q] = "failed"
  /\ CannotEnter(home[q])
  /\ Crashes(home[q])
-----------------------------------------------------------------------------
Operation(p) ==
  \/ QrRefused(p) \/ QrReplaces(p) \/ QrDisposed(p) \/ QrLooksUp(p) \/ QrStarts(p)
  \/ LogoutBegins(p) \/ LogoutStopFails(p) \/ LogoutStops(p) \/ LogoutWaited(p)
  \/ LogoutDeletes(p) \/ SaveError(p)
  \/ SendFinds(p) \/ SendRestores(p)
  \/ BootReads(p) \/ BootRestores(p) \/ BootSavesError(p)
  \/ RestoreLogsIn(p) \/ RestoreSaves(p) \/ RestoreEnds(p)
  \/ CompleteListens(p) \/ CompleteSaves(p) \/ CompensationDeletes(p)

Login(p, q) ==
  \/ NativeSettles(p, q) \/ CompleteBegins(p, q) \/ FailureRecorded(p, q)

Next ==
  \/ \E p \in Procs : \/ Operation(p) \/ LeaseIsLost(p) \/ FenceEnds(p)
                      \/ ListenerCloses(p) \/ ListenerClosed(p)
                      \/ Crashes(p) \/ ShutsDown(p)
  \/ \E p \in Procs, q \in Logins : Login(p, q)
  \/ \E q \in Logins : QrExpires(q) \/ CompleteLocked(q) \/ FailureLocked(q)
  \/ KeyExpires

Spec == Init /\ [][Next]_vars
-----------------------------------------------------------------------------
(* What must hold.                                                          *)

\* One process at a time looks after the owner: two of them have a listener
\* or a QR code to scan only after a lease was lost, or given away by the
\* handler of an older listener, or when a write or a stop has failed.
OwnerIsExclusive ==
  losses = 0 /\ slips = {} /\ faults = 0 =>
    \A p1, p2 \in Procs : Uses(p1) /\ Uses(p2) => p1 = p2

\* A QR login that was cancelled, by a lost lease, a logout or a replacement,
\* never has a running listener once its completion is over, as long as no write
\* and no stop has failed.
CancelledIsSilent ==
  \A p \in Procs, q \in Logins :
    q \in listens[p] /\ cancelled[q] /\ faults = 0 => op[p].q = q

\* A QR login from before a logout does not bring the session back.
LogoutVoidsLogins ==
  losses = 0 /\ slips = {} /\ faults = 0 => doc.by \notin voided

\* What a logout would stop: the client if there is one, or the QR login.
Reach(p) == IF active[p] # Nothing THEN active[p] ELSE pend[p]

\* The listener of a QR login is never out of reach: a logout would stop it,
\* except in a process where it was started beside a restored client.
ListenerIsReachable ==
  \A p \in Procs, q \in Logins :
    q \in listens[p] /\ p \notin beside => Reach(p) = q
=============================================================================
