-------------------------- MODULE ZaloLifecycleProofs --------------------------
(***************************************************************************)
(* The safety of ZaloLifecycle for any number of processes and QR logins.  *)
(***************************************************************************)
EXTENDS ZaloLifecycle, TLAPS

USE BoundsAssumption, NothingAssumption

(* A run that loses no lease, slips nowhere and has no fault: the           *)
(* properties are about those.                                              *)

Quiet == losses = 0 /\ slips = {} /\ faults = 0

(* What holds whatever happens: a login in use was begun, by a process.     *)

Used == {q \in Logins : qr[q] # "unused"}
Knows(o) ==
  /\ o.at \in {"account", "saveQr", "compensate"} => o.q \in Used
  /\ o.at = "logout" => o.q \in Used \cup {Nothing}
  /\ o.at = "restoreSave" => o.api \in 1..MaxRestores

OpInv ==
  /\ \A p \in Procs : Knows(op[p]) /\ pend[p] \in Used \cup {Nothing}
  /\ \A q \in Logins : IF q \in Used THEN home[q] \in Procs
          ELSE home[q] = Nothing /\ native[q] = "none"

(* In a quiet run, a process that works for the owner holds the lease.      *)

Waiting(p) == pend[p] # Nothing /\ qr[pend[p]] = "waiting_qr"
Free(p) == active[p] = Nothing

OwnLease(p) ==
  /\ held[p] => redis = p
  /\ ~lost[p] /\ ~fence[p].on
  /\ op[p].at # "idle" \/ Uses(p) => held[p]

\* A listener is the active client's, or of the operation under way.
OwnListens(p) ==
  \A api \in listens[p] :
    \/ active[p] = api
    \/ op[p].at = "restoreSave" /\ op[p].api = api
    \/ op[p].at = "saveQr" /\ op[p].q = api

Lonely == {"dispose", "lookup", "find", "login", "restoreSave", "account", "saveQr",
           "compensate", "logoutWait", "logoutDelete"}

OwnOp(p) ==
  /\ op[p].at # "saveError"
  /\ op[p].at \in Lonely => Free(p)
  /\ op[p].at = "logout" => op[p].api = active[p] /\ op[p].q = pend[p]
  /\ op[p].at \in {"dispose", "login", "restoreSave", "logoutWait"} => ~Waiting(p)
  /\ op[p].at = "logoutDelete" => pend[p] = Nothing
  /\ op[p].at \in {"account", "saveQr"} =>
       pend[p] = op[p].q /\ native[op[p].q] = "done" /\ ~stopped[op[p].q]

\* While a QR code waits, no session can be restored.
OwnWait(p) == Waiting(p) => Free(p) /\ (op[p].at = "compensate" \/ ~Restorable)

Own(p) == OwnLease(p) /\ OwnListens(p) /\ OwnOp(p) /\ OwnWait(p)
OwnInv == Quiet => \A p \in Procs : Own(p)

(* A login from before a logout is over.                                    *)

Over(q) ==
  /\ q \in Used /\ doc.by # q
  /\ \A p \in Procs :
       /\ pend[p] = q => ~Waiting(p)
       /\ op[p].at \in {"account", "saveQr"} => op[p].q # q
VoidInv == Quiet => \A q \in voided : Over(q)

(* Which listener is whose, whatever happens.                               *)

\* A QR login whose listener runs is of this process, and its api can be stopped.
ListensKnow(p) == \A q \in listens[p] \cap Logins : home[q] = p /\ HasApi(q)

\* The points of an operation at which its process has no client.
Bare == {"dispose", "lookup", "find", "login", "restoreSave", "logoutWait", "logoutDelete"}

\* The client of a QR login is that of the login in the map, and a logout knows
\* the client it found.
MapsKnow(p) ==
  /\ pend[p] \in Logins => home[pend[p]] = p
  /\ active[p] \in Logins => pend[p] = active[p]
  /\ op[p].at \in Bare => active[p] = Nothing
  /\ op[p].at = "lookup" => pend[p] = Nothing
  /\ op[p].at = "dispose" => pend[p] \in {op[p].q, Nothing}
  /\ op[p].at = "logout" => active[p] \in {Nothing, op[p].api}

\* What an operation knows of its QR login.
LoginKnows(p) ==
  /\ op[p].at = "logout" /\ op[p].q # Nothing => home[op[p].q] = p
  /\ op[p].at \in {"account", "saveQr"} =>
       /\ home[op[p].q] = p
       /\ native[op[p].q] \notin {"none", "running", "resolved"}
  /\ op[p].at = "account" /\ ~cancelled[op[p].q] => ~stopped[op[p].q]

\* What a fencing stops was cancelled with it.
FenceKnows(p) ==
  fence[p].on =>
    /\ fence[p].q # Nothing => cancelled[fence[p].q]
    /\ fence[p].api \in Logins => cancelled[fence[p].api]
    /\ fence[p].q # Nothing /\ active[p] = fence[p].q => fence[p].api = fence[p].q

\* The api of a login that was not cancelled is not stopped before it is handed
\* over to the service.
Whole(q) == native[q] \in {"none", "running", "resolved"} /\ ~cancelled[q] => ~stopped[q]

ReachInv ==
  /\ \A p \in Procs : ListensKnow(p) /\ MapsKnow(p) /\ LoginKnows(p) /\ FenceKnows(p)
  /\ \A q \in Logins : Whole(q)

(* In a process that never had two listeners, a QR login's is that of the   *)
(* login in the map.                                                        *)

Alone(p) ==
  /\ \A q \in listens[p] \cap Logins :
       /\ pend[p] = q /\ active[p] \in {Nothing, q}
       /\ op[p].at \notin {"dispose", "lookup", "logoutWait", "logoutDelete"}
       /\ op[p].at = "logout" => op[p].q = q /\ op[p].api \in {Nothing, q}
       /\ fence[p].on => fence[p].q # q
  /\ op[p].at = "saveQr" => active[p] = Nothing
AloneInv == \A p \in Procs \ beside : Alone(p)

(* Without a fault, it is the client's, or of the operation under way, which *)
(* notices a cancellation.                                                  *)

Saving(p, q) == op[p].at = "saveQr" /\ op[p].q = q
Silent(p) ==
  \A q \in listens[p] \cap Logins :
    /\ active[p] = q \/ Saving(p, q)
    /\ cancelled[q] => Saving(p, q)
    /\ fence[p].on => fence[p].api # q
SilentInv == faults = 0 => \A p \in Procs : Silent(p)

IInv == TypeOK /\ OpInv /\ ReachInv /\ AloneInv /\ SilentInv /\ OwnInv /\ VoidInv
-----------------------------------------------------------------------------
(* Types.                                                                   *)

Docs == [status : {"none", "connected", "error"}, code : {"none", "listener", "other"},
         by : Logins \cup {Nothing}]
Ops == [at : Points, q : Logins \cup {Nothing}, api : Apis \cup {Nothing}, left : 0..2,
        boot : BOOLEAN, ok : BOOLEAN]
Fences == [on : BOOLEAN, q : Logins \cup {Nothing}, api : Apis \cup {Nothing}]
States == {"unused", "waiting_qr", "connected", "expired", "error"}

LeaseTypes ==
  /\ redis \in Procs \cup {Nothing}
  /\ held \in [Procs -> BOOLEAN] /\ lost \in [Procs -> BOOLEAN]
MapTypes ==
  /\ err \in [Procs -> Errors]
  /\ pend \in [Procs -> Logins \cup {Nothing}]
  /\ active \in [Procs -> Apis \cup {Nothing}]
ApiTypes == listens \in [Procs -> SUBSET Apis] /\ restored \in [Procs -> 0..MaxRestores]
TaskTypes ==
  /\ op \in [Procs -> Ops]
  /\ fence \in [Procs -> Fences]
  /\ closing \in [Procs -> Apis \cup {Nothing}]
  /\ boot \in [Procs -> {"start", "queued", "save", "done"}]
CancelTypes == qr \in [Logins -> States] /\ cancelled \in [Logins -> BOOLEAN]
NativeTypes ==
  /\ home \in [Logins -> Procs \cup {Nothing}]
  /\ late \in [Logins -> BOOLEAN]
  /\ native \in [Logins -> {"none", "running", "resolved", "failed", "done"}]
  /\ stopped \in [Logins -> BOOLEAN]
CountTypes ==
  /\ doc \in Docs
  /\ voided \subseteq Logins
  /\ slips \subseteq {"lease", "restore"} /\ beside \subseteq Procs
  /\ losses \in 0..MaxLosses /\ crashes \in 0..MaxCrashes /\ faults \in 0..MaxFaults

Types == LeaseTypes /\ MapTypes /\ ApiTypes /\ TaskTypes /\ CancelTypes /\ NativeTypes /\ CountTypes

LEMMA TypesAre == TypeOK <=> Types
  BY DEF TypeOK, Types, LeaseTypes, MapTypes, ApiTypes, TaskTypes, CancelTypes, NativeTypes,
         CountTypes, Docs, Ops, Fences, States

LEMMA OpTypes ==
  ASSUME Types
  PROVE  /\ Idle \in Ops
         /\ \A at \in Points, q \in Logins \cup {Nothing}, api \in Apis \cup {Nothing} :
              /\ [Idle EXCEPT !.at = at] \in Ops
              /\ [Idle EXCEPT !.at = at, !.q = q] \in Ops
              /\ [Idle EXCEPT !.at = at, !.q = q, !.api = api] \in Ops
              /\ [Idle EXCEPT !.at = at, !.ok = FALSE] \in Ops
              /\ \A o \in Ops : /\ [o EXCEPT !.at = at] \in Ops
                                /\ [o EXCEPT !.at = at, !.ok = FALSE] \in Ops
                                /\ [o EXCEPT !.at = at, !.api = api] \in Ops
                                /\ o.left > 1 => [o EXCEPT !.at = at, !.left = @ - 1] \in Ops
         /\ Restoring(TRUE) \in Ops /\ Restoring(FALSE) \in Ops
<1>. USE DEF Ops, Idle, Restoring
<1>1. Idle \in Ops
  BY DEF Points
<1>2. \A o \in Ops, at \in Points, q \in Logins \cup {Nothing}, api \in Apis \cup {Nothing} :
        /\ [o EXCEPT !.at = at] \in Ops
        /\ [o EXCEPT !.at = at, !.q = q] \in Ops
        /\ [o EXCEPT !.at = at, !.q = q, !.api = api] \in Ops
        /\ [o EXCEPT !.at = at, !.ok = FALSE] \in Ops
        /\ [o EXCEPT !.at = at, !.api = api] \in Ops
  OBVIOUS
<1>3. ASSUME NEW o \in Ops, NEW at \in Points, o.left > 1
      PROVE  [o EXCEPT !.at = at, !.left = @ - 1] \in Ops
  <2>1. \A left \in 0..2 : [o EXCEPT !.at = at, !.left = left] \in Ops
    OBVIOUS
  <2>2. o.left - 1 \in 0..2
    BY <1>3
  <2>. QED BY <2>1, <2>2
<1>4. Restoring(TRUE) \in Ops /\ Restoring(FALSE) \in Ops
  <2>1. \A o \in Ops, at \in Points, left \in 0..2, b \in BOOLEAN :
          [o EXCEPT !.at = at, !.left = left, !.boot = b] \in Ops
    OBVIOUS
  <2>2. "login" \in Points /\ 2 \in 0..2
    BY DEF Points
  <2>. HIDE DEF Ops, Idle
  <2>3. ASSUME NEW b \in BOOLEAN PROVE Restoring(b) \in Ops
    BY <1>1, <2>1, <2>2
  <2>. HIDE DEF Restoring
  <2>. QED BY <2>3, Zenon
<1>. HIDE DEF Ops, Idle, Restoring
<1>. QED BY <1>1, <1>2, <1>3, <1>4

\* What the pieces of the operations do to the types.
LEMMA PieceTypes ==
  ASSUME Types, NEW p \in Procs
  PROVE  /\ KeepLease => LeaseTypes'
         /\ Release(p) => LeaseTypes'
         /\ TakeLease(p) => LeaseTypes'
         /\ \A o \in Ops : Goto(p, o) => op' \in [Procs -> Ops]
         /\ \A ok \in BOOLEAN : LeaveQueue(p, ok) => LeaseTypes' /\ op' \in [Procs -> Ops]
         /\ LeaveAtOnce(p) => LeaseTypes' /\ op' \in [Procs -> Ops]
         /\ ClearMaps(p) => MapTypes'
         /\ \A api : StopApi(p, api) => listens' \in [Procs -> SUBSET Apis]
         /\ \A q : StopLogin(p, q) =>
              listens' \in [Procs -> SUBSET Apis] /\ stopped' \in [Logins -> BOOLEAN]
<1>1. (KeepLease => LeaseTypes') /\ (Release(p) => LeaseTypes') /\ (TakeLease(p) => LeaseTypes')
  BY DEF Types, LeaseTypes, KeepLease, Release, TakeLease
<1>2. \A o \in Ops : Goto(p, o) => op' \in [Procs -> Ops]
  BY DEF Types, TaskTypes, Goto
<1>3. \A ok \in BOOLEAN : LeaveQueue(p, ok) => LeaseTypes' /\ op' \in [Procs -> Ops]
  BY <1>1, <1>2, OpTypes DEF LeaveQueue
<1>4. LeaveAtOnce(p) => LeaseTypes' /\ op' \in [Procs -> Ops]
  BY <1>1 DEF LeaveAtOnce, Types, TaskTypes, LeaseTypes
<1>5. ClearMaps(p) => MapTypes'
  BY DEF Types, MapTypes, ClearMaps, Errors
<1>6. \A api : StopApi(p, api) => listens' \in [Procs -> SUBSET Apis]
  BY DEF Types, ApiTypes, StopApi
<1>7. \A q : StopLogin(p, q) =>
        listens' \in [Procs -> SUBSET Apis] /\ stopped' \in [Logins -> BOOLEAN]
  BY <1>6 DEF Types, ApiTypes, NativeTypes, StopLogin
<1>. QED BY <1>1, <1>2, <1>3, <1>4, <1>5, <1>6, <1>7

LEMMA CountPieces ==
  ASSUME Types
  PROVE  /\ \A q : \A status \in States : CancelLogin(q, status) => CancelTypes'
         /\ \A code \in {"none", "listener", "other"} : MarkError(code) => doc' \in Docs
         /\ NoDoc \in Docs
         /\ Fault \/ NoFault => faults' \in 0..MaxFaults
<1>1. \A q : \A status \in States : CancelLogin(q, status) => CancelTypes'
  BY DEF Types, CancelTypes, CancelLogin
<1>2. \A code \in {"none", "listener", "other"} : MarkError(code) => doc' \in Docs
  BY DEF Types, CountTypes, Docs, MarkError
<1>3. NoDoc \in Docs
  BY DEF NoDoc, Docs
<1>4. Fault \/ NoFault => faults' \in 0..MaxFaults
  BY DEF Types, CountTypes, Fault, NoFault
<1>. QED BY <1>1, <1>2, <1>3, <1>4

LEMMA OpFields ==
  ASSUME Types, NEW p \in Procs
  PROVE  /\ op[p] \in Ops /\ op[p].q \in Logins \cup {Nothing}
         /\ op[p].api \in Apis \cup {Nothing} /\ op[p].ok \in BOOLEAN
  BY DEF Types, TaskTypes, Ops

LEMMA LossTypes ==
  ASSUME Types
  PROVE  /\ \A p \in Procs : LeaseIsLost(p) => losses' \in 0..MaxLosses
         /\ KeyExpires => losses' \in 0..MaxLosses
<1>1. losses \in Nat /\ MaxLosses \in Nat /\ losses <= MaxLosses
  BY DEF Types, CountTypes
<1>. QED BY <1>1 DEF LeaseIsLost, KeyExpires

LEMMA AfterFailureType == \A q : AfterFailure(q) \in {"failed", "done"}
  BY DEF AfterFailure

LEMMA NextApi ==
  ASSUME Types, NEW p \in Procs, restored[p] < MaxRestores
  PROVE  restored[p] + 1 \in 1..MaxRestores /\ restored[p] + 1 \in Apis
  BY DEF Types, ApiTypes, Apis

LEMMA AttemptTypes ==
  ASSUME Types, NEW p \in Procs, NextAttempt(p)
  PROVE  /\ LeaseTypes' /\ MapTypes' /\ op' \in [Procs -> Ops] /\ qr' = qr
         /\ boot' \in [Procs -> {"start", "queued", "save", "done"}]
<1>1. op[p] \in Ops /\ op[p].left > 1 => [op[p] EXCEPT !.at = "login", !.left = @ - 1] \in Ops
  BY OpTypes DEF Types, TaskTypes, Points
<1>2. LeaseTypes' /\ op' \in [Procs -> Ops]
  BY <1>1, PieceTypes DEF NextAttempt, AttemptsLeft, Types, TaskTypes
<1>. QED BY <1>2 DEF NextAttempt, Types, TaskTypes, MapTypes

LEMMA CompensationTypes ==
  ASSUME Types, NEW p \in Procs, NEW q \in Logins \cup {Nothing}, FailCompensation(p, q)
  PROVE  LeaseTypes' /\ CancelTypes' /\ op' \in [Procs -> Ops] /\ err' \in [Procs -> Errors]
<1>1. CancelTypes'
  BY CountPieces DEF FailCompensation, Types, CancelTypes, States
<1>. QED BY <1>1, PieceTypes, OpTypes DEF FailCompensation, Types, MapTypes, Errors, Points

LEMMA CrashTypes ==
  ASSUME Types, NEW p \in Procs \cup {Nothing}, Ends(p), redis' \in {redis, Nothing}
  PROVE  Types'
<1>. USE DEF Ends, Types
<1>1. LeaseTypes' /\ MapTypes'
  BY DEF LeaseTypes, MapTypes, ClearMaps, Errors
<1>2. ApiTypes'
  BY DEF ApiTypes
<1>3. TaskTypes'
  BY OpTypes DEF TaskTypes, NoFence, Fences
<1>4. CancelTypes' /\ NativeTypes'
  BY DEF CancelTypes, NativeTypes
<1>5. crashes' \in 0..MaxCrashes
  BY DEF CountTypes
<1>6. CountTypes'
  BY <1>5 DEF CountTypes, history
<1>. QED BY <1>1, <1>2, <1>3, <1>4, <1>6

\* Some variables that the pieces do not speak of.
LEMMA PlainTypes ==
  ASSUME Types, NEW p \in Procs
  PROVE  /\ RestoreSaves(p) => doc' \in Docs /\ faults' \in 0..MaxFaults
         /\ RestoreLogsIn(p) => ApiTypes'
         /\ QrStarts(p) => MapTypes'
         /\ LeaseIsLost(p) => fence' \in [Procs -> Fences]
<1>. USE DEF Types
<1>1. ASSUME RestoreSaves(p) PROVE doc' \in Docs /\ faults' \in 0..MaxFaults
  <2>1. doc' \in Docs
    BY <1>1 DEF RestoreSaves, CountTypes, Docs
  <2>2. faults \in Nat /\ faults <= MaxFaults
    BY DEF CountTypes
  <2>3. faults' = faults \/ (faults < MaxFaults /\ faults' = faults + 1)
        \/ (faults + 1 < MaxFaults /\ faults' = faults + 2)
    BY <1>1 DEF RestoreSaves, Fault, NoFault
  <2>. QED BY <2>1, <2>2, <2>3
<1>2. ASSUME RestoreLogsIn(p) PROVE ApiTypes'
  <2>1. CASE /\ restored[p] < MaxRestores
             /\ restored' = [restored EXCEPT ![p] = restored[p] + 1]
             /\ listens' = [listens EXCEPT ![p] = listens[p] \cup {restored[p] + 1}]
    <3>1. restored[p] + 1 \in 0..MaxRestores
      BY <2>1, NextApi
    <3>2. restored' \in [Procs -> 0..MaxRestores]
      BY <2>1, <3>1 DEF ApiTypes
    <3>3. listens[p] \cup {restored[p] + 1} \in SUBSET Apis
      BY <2>1, NextApi DEF ApiTypes
    <3>4. listens' \in [Procs -> SUBSET Apis]
      BY <2>1, <3>3 DEF ApiTypes
    <3>. QED BY <3>2, <3>4 DEF ApiTypes
  <2>2. CASE UNCHANGED <<listens, restored>>
    BY <2>2 DEF ApiTypes
  <2>. QED BY <1>2, <2>1, <2>2 DEF RestoreLogsIn
<1>3. ASSUME QrStarts(p) PROVE MapTypes'
  <2>1. UNCHANGED <<err, active>>
    BY <1>3 DEF QrStarts
  <2>2. UNCHANGED pend \/ \E q \in Logins : pend' = [pend EXCEPT ![p] = q]
    BY <1>3 DEF QrStarts
  <2>. QED BY <2>1, <2>2 DEF MapTypes
<1>4. ASSUME LeaseIsLost(p) PROVE fence' \in [Procs -> Fences]
  <2>1. pend[p] \in Logins \cup {Nothing} /\ active[p] \in Apis \cup {Nothing}
    BY DEF MapTypes
  <2>2. [on |-> TRUE, q |-> pend[p], api |-> active[p]] \in Fences
    BY <2>1 DEF Fences
  <2>3. UNCHANGED fence
          \/ fence' = [fence EXCEPT ![p] = [on |-> TRUE, q |-> pend[p], api |-> active[p]]]
    BY <1>4 DEF LeaseIsLost
  <2>. HIDE DEF Fences
  <2>. QED BY <2>2, <2>3 DEF TaskTypes
<1>. QED BY <1>1, <1>2, <1>3, <1>4

LEMMA TypesStep ==
  ASSUME Types, OpInv, [Next]_vars
  PROVE  Types'
<1>. USE OpTypes, PieceTypes, CountPieces
     DEF Types, Points, Errors, States, mapVars, taskVars, loginVars, boundVars, history
<1>1. ASSUME NEW p \in Procs, Operation(p) PROVE Types'
  <2>1. CASE QrRefused(p)
    BY <2>1 DEF QrRefused, LeaseTypes, MapTypes, ApiTypes, TaskTypes, CancelTypes, NativeTypes,
       CountTypes
  <2>2. CASE QrReplaces(p)
    BY <2>2 DEF QrReplaces, LeaseTypes, MapTypes, ApiTypes, TaskTypes, CancelTypes, NativeTypes,
       CountTypes
  <2>3. CASE QrDisposed(p)
    BY <2>3 DEF QrDisposed, LeaseTypes, MapTypes, ApiTypes, TaskTypes, CancelTypes, NativeTypes,
       CountTypes
  <2>4. CASE QrLooksUp(p)
    BY <2>4 DEF QrLooksUp, LeaseTypes, MapTypes, ApiTypes, TaskTypes, CancelTypes, NativeTypes,
       CountTypes
  <2>5. CASE QrStarts(p)
    <3>1. LeaseTypes'
      BY <2>5 DEF QrStarts, LeaseTypes
    <3>2. MapTypes'
      BY <2>5, PlainTypes DEF QrStarts, MapTypes
    <3>3. ApiTypes'
      BY <2>5 DEF QrStarts, ApiTypes
    <3>4. TaskTypes'
      BY <2>5 DEF QrStarts, TaskTypes
    <3>5. CancelTypes'
      BY <2>5 DEF QrStarts, CancelTypes
    <3>6. NativeTypes'
      BY <2>5 DEF QrStarts, NativeTypes
    <3>7. CountTypes'
      BY <2>5 DEF QrStarts, CountTypes
    <3>. QED BY <3>1, <3>2, <3>3, <3>4, <3>5, <3>6, <3>7
  <2>6. CASE LogoutBegins(p)
    BY <2>6 DEF LogoutBegins, LeaseTypes, MapTypes, ApiTypes, TaskTypes, CancelTypes, NativeTypes,
       CountTypes
  <2>7. CASE LogoutStopFails(p)
    BY <2>7 DEF LogoutStopFails, LeaseTypes, MapTypes, ApiTypes, TaskTypes, CancelTypes,
       NativeTypes, CountTypes
  <2>8. CASE LogoutStops(p)
    BY <2>8 DEF LogoutStops, LeaseTypes, MapTypes, ApiTypes, TaskTypes, CancelTypes, NativeTypes,
       CountTypes
  <2>9. CASE LogoutWaited(p)
    BY <2>9 DEF LogoutWaited, LeaseTypes, MapTypes, ApiTypes, TaskTypes, CancelTypes, NativeTypes,
       CountTypes
  <2>10. CASE LogoutDeletes(p)
    BY <2>10 DEF LogoutDeletes, LeaseTypes, MapTypes, ApiTypes, TaskTypes, CancelTypes,
       NativeTypes, CountTypes
  <2>11. CASE SaveError(p)
    <3>1. LeaseTypes'
      BY <2>11 DEF SaveError, LeaseTypes
    <3>2. MapTypes'
      BY <2>11 DEF SaveError, MapTypes
    <3>3. ApiTypes'
      BY <2>11 DEF SaveError, ApiTypes
    <3>4. TaskTypes'
      BY <2>11 DEF SaveError, TaskTypes
    <3>5. CancelTypes'
      BY <2>11 DEF SaveError, CancelTypes
    <3>6. NativeTypes'
      BY <2>11 DEF SaveError, NativeTypes
    <3>7. CountTypes'
      BY <2>11 DEF SaveError, CountTypes
    <3>. QED BY <3>1, <3>2, <3>3, <3>4, <3>5, <3>6, <3>7
  <2>12. CASE SendFinds(p)
    BY <2>12 DEF SendFinds, LeaseTypes, MapTypes, ApiTypes, TaskTypes, CancelTypes, NativeTypes,
       CountTypes
  <2>13. CASE SendRestores(p)
    BY <2>13 DEF SendRestores, LeaseTypes, MapTypes, ApiTypes, TaskTypes, CancelTypes,
       NativeTypes, CountTypes
  <2>14. CASE BootReads(p)
    BY <2>14 DEF BootReads, LeaseTypes, MapTypes, ApiTypes, TaskTypes, CancelTypes, NativeTypes,
       CountTypes
  <2>15. CASE BootRestores(p)
    BY <2>15 DEF BootRestores, LeaseTypes, MapTypes, ApiTypes, TaskTypes, CancelTypes,
       NativeTypes, CountTypes
  <2>16. CASE BootSavesError(p)
    BY <2>16 DEF BootSavesError, LeaseTypes, MapTypes, ApiTypes, TaskTypes, CancelTypes,
       NativeTypes, CountTypes
  <2>17. CASE RestoreLogsIn(p)
    <3>1. LeaseTypes'
      BY <2>17, AttemptTypes DEF RestoreLogsIn, LeaseTypes
    <3>2. MapTypes'
      BY <2>17, AttemptTypes DEF RestoreLogsIn, MapTypes
    <3>3. ApiTypes'
      BY <2>17, PlainTypes DEF RestoreLogsIn, ApiTypes
    <3>4. TaskTypes'
      BY <2>17, NextApi, AttemptTypes DEF RestoreLogsIn, TaskTypes
    <3>5. CancelTypes'
      BY <2>17, AttemptTypes DEF RestoreLogsIn, CancelTypes
    <3>6. NativeTypes'
      BY <2>17 DEF RestoreLogsIn, NativeTypes
    <3>7. CountTypes'
      BY <2>17 DEF RestoreLogsIn, CountTypes
    <3>. QED BY <3>1, <3>2, <3>3, <3>4, <3>5, <3>6, <3>7
  <2>18. CASE RestoreSaves(p)
    <3>1. LeaseTypes'
      BY <2>18, AttemptTypes DEF RestoreSaves, LeaseTypes
    <3>2. MapTypes'
      <4>1. op[p].api \in Apis
        BY <2>18 DEF RestoreSaves, OpInv, Knows, Apis
      <4>. QED BY <2>18, <4>1, AttemptTypes DEF RestoreSaves, MapTypes
    <3>3. ApiTypes'
      BY <2>18 DEF RestoreSaves, ApiTypes
    <3>4. TaskTypes'
      BY <2>18, AttemptTypes DEF RestoreSaves, TaskTypes
    <3>5. CancelTypes'
      BY <2>18, AttemptTypes DEF RestoreSaves, CancelTypes
    <3>6. NativeTypes'
      BY <2>18 DEF RestoreSaves, NativeTypes
    <3>7. CountTypes'
      BY <2>18, PlainTypes DEF RestoreSaves, CountTypes, NotesBeside
    <3>. QED BY <3>1, <3>2, <3>3, <3>4, <3>5, <3>6, <3>7
  <2>19. CASE RestoreEnds(p)
    BY <2>19 DEF RestoreEnds, LeaseTypes, MapTypes, ApiTypes, TaskTypes, CancelTypes, NativeTypes,
       CountTypes
  <2>20. CASE CompleteListens(p)
    <3>1. LeaseTypes'
      BY <2>20 DEF CompleteListens, LeaseTypes
    <3>2. MapTypes'
      BY <2>20 DEF CompleteListens, MapTypes
    <3>3. ApiTypes'
      <4>1. op[p].q \in Apis
        BY <2>20 DEF CompleteListens, OpInv, Knows, Used, Apis
      <4>2. CASE listens' = [listens EXCEPT ![p] = listens[p] \cup {op[p].q}]
        BY <2>20, <4>1, <4>2 DEF CompleteListens, ApiTypes
      <4>3. CASE StopLogin(p, op[p].q) \/ UNCHANGED listens
        BY <2>20, <4>3 DEF CompleteListens, ApiTypes
      <4>. QED BY <2>20, <4>2, <4>3 DEF CompleteListens
    <3>4. TaskTypes'
      BY <2>20 DEF CompleteListens, TaskTypes
    <3>5. CancelTypes'
      BY <2>20 DEF CompleteListens, CancelTypes
    <3>6. NativeTypes'
      BY <2>20, AfterFailureType DEF CompleteListens, NativeTypes
    <3>7. CountTypes'
      BY <2>20 DEF CompleteListens, CountTypes, NotesBeside
    <3>. QED BY <3>1, <3>2, <3>3, <3>4, <3>5, <3>6, <3>7
  <2>21. CASE CompleteSaves(p)
    <3>1. LeaseTypes'
      BY <2>21, CompensationTypes, OpFields DEF CompleteSaves, LeaseTypes
    <3>2. MapTypes'
      BY <2>21, CompensationTypes, OpFields DEF CompleteSaves, MapTypes, Apis
    <3>3. ApiTypes'
      BY <2>21 DEF CompleteSaves, ApiTypes
    <3>4. TaskTypes'
      BY <2>21, CompensationTypes, OpFields DEF CompleteSaves, TaskTypes
    <3>5. CancelTypes'
      BY <2>21, CompensationTypes, OpFields DEF CompleteSaves, CancelTypes
    <3>6. NativeTypes'
      BY <2>21, AfterFailureType DEF CompleteSaves, NativeTypes
    <3>7. CountTypes'
      <4>1. doc' \in Docs /\ faults' \in 0..MaxFaults
        <5>1. [status |-> "connected", code |-> "none", by |-> op[p].q] \in Docs
          BY OpFields DEF Docs
        <5>. QED BY <2>21, <5>1 DEF CompleteSaves, CountTypes
      <4>. QED BY <2>21, <4>1 DEF CompleteSaves, CountTypes
    <3>. QED BY <3>1, <3>2, <3>3, <3>4, <3>5, <3>6, <3>7
  <2>22. CASE CompensationDeletes(p)
    <3>1. LeaseTypes'
      BY <2>22, CompensationTypes, OpFields DEF CompensationDeletes, LeaseTypes
    <3>2. MapTypes'
      BY <2>22, CompensationTypes, OpFields DEF CompensationDeletes, MapTypes
    <3>3. ApiTypes'
      BY <2>22 DEF CompensationDeletes, ApiTypes
    <3>4. TaskTypes'
      BY <2>22, CompensationTypes, OpFields DEF CompensationDeletes, TaskTypes
    <3>5. CancelTypes'
      BY <2>22, CompensationTypes, OpFields DEF CompensationDeletes, CancelTypes
    <3>6. NativeTypes'
      BY <2>22 DEF CompensationDeletes, NativeTypes
    <3>7. CountTypes'
      BY <2>22 DEF CompensationDeletes, CountTypes
    <3>. QED BY <3>1, <3>2, <3>3, <3>4, <3>5, <3>6, <3>7
  <2>. QED BY <1>1, <2>1, <2>2, <2>3, <2>4, <2>5, <2>6, <2>7, <2>8, <2>9, <2>10, <2>11, <2>12,
              <2>13, <2>14, <2>15, <2>16, <2>17, <2>18, <2>19, <2>20, <2>21, <2>22 DEF Operation
<1>2. ASSUME NEW p \in Procs,
             LeaseIsLost(p) \/ FenceEnds(p) \/ ListenerCloses(p) \/ ListenerClosed(p)
                     \/ Crashes(p) \/ ShutsDown(p)
      PROVE  Types'
  <2>1. CASE LeaseIsLost(p)
    <3>1. LeaseTypes'
      BY <2>1 DEF LeaseIsLost, LeaseTypes
    <3>2. MapTypes'
      BY <2>1 DEF LeaseIsLost, MapTypes
    <3>3. ApiTypes'
      BY <2>1 DEF LeaseIsLost, ApiTypes
    <3>4. TaskTypes'
      BY <2>1, PlainTypes DEF LeaseIsLost, TaskTypes
    <3>5. CancelTypes'
      BY <2>1 DEF LeaseIsLost, CancelTypes
    <3>6. NativeTypes'
      BY <2>1 DEF LeaseIsLost, NativeTypes
    <3>7. CountTypes'
      BY <2>1, LossTypes DEF LeaseIsLost, CountTypes
    <3>. QED BY <3>1, <3>2, <3>3, <3>4, <3>5, <3>6, <3>7
  <2>2. CASE FenceEnds(p)
    <3>1. LeaseTypes'
      BY <2>2 DEF FenceEnds, LeaseTypes
    <3>2. MapTypes'
      BY <2>2 DEF FenceEnds, MapTypes
    <3>3. ApiTypes'
      BY <2>2 DEF FenceEnds, ApiTypes
    <3>4. TaskTypes'
      BY <2>2 DEF FenceEnds, TaskTypes, NoFence, Fences
    <3>5. CancelTypes'
      BY <2>2 DEF FenceEnds, CancelTypes
    <3>6. NativeTypes'
      BY <2>2 DEF FenceEnds, NativeTypes
    <3>7. CountTypes'
      BY <2>2 DEF FenceEnds, CountTypes
    <3>. QED BY <3>1, <3>2, <3>3, <3>4, <3>5, <3>6, <3>7
  <2>3. CASE ListenerCloses(p)
    <3>1. LeaseTypes'
      BY <2>3 DEF ListenerCloses, LeaseTypes
    <3>2. MapTypes'
      BY <2>3 DEF ListenerCloses, MapTypes
    <3>3. ApiTypes'
      BY <2>3 DEF ListenerCloses, ApiTypes
    <3>4. TaskTypes'
      <4>1. PICK api \in listens[p] :
              closing' = [closing EXCEPT ![p] = api] \/ UNCHANGED closing
        BY <2>3 DEF ListenerCloses
      <4>2. api \in Apis
        BY DEF ApiTypes
      <4>3. closing' \in [Procs -> Apis \cup {Nothing}]
        BY <4>1, <4>2 DEF TaskTypes
      <4>4. UNCHANGED <<op, fence, boot>>
        BY <2>3 DEF ListenerCloses
      <4>. QED BY <4>3, <4>4 DEF TaskTypes
    <3>5. CancelTypes'
      BY <2>3 DEF ListenerCloses, CancelTypes
    <3>6. NativeTypes'
      BY <2>3 DEF ListenerCloses, NativeTypes
    <3>7. CountTypes'
      BY <2>3 DEF ListenerCloses, CountTypes
    <3>. QED BY <3>1, <3>2, <3>3, <3>4, <3>5, <3>6, <3>7
  <2>4. CASE ListenerClosed(p)
    BY <2>4 DEF ListenerClosed, LeaseTypes, MapTypes, ApiTypes, TaskTypes, CancelTypes,
       NativeTypes, CountTypes
  <2>5. CASE Crashes(p)
    BY <2>5, CrashTypes DEF Crashes
  <2>6. CASE ShutsDown(p)
    BY <2>6, CrashTypes DEF ShutsDown
  <2>. QED BY <1>2, <2>1, <2>2, <2>3, <2>4, <2>5, <2>6
<1>3. ASSUME NEW p \in Procs, NEW q \in Logins, Login(p, q) PROVE Types'
  <2>1. CASE NativeSettles(p, q)
    <3>1. LeaseTypes'
      BY <2>1 DEF NativeSettles, LeaseTypes
    <3>2. MapTypes'
      BY <2>1 DEF NativeSettles, MapTypes
    <3>3. ApiTypes'
      BY <2>1 DEF NativeSettles, ApiTypes
    <3>4. TaskTypes'
      BY <2>1 DEF NativeSettles, TaskTypes
    <3>5. CancelTypes'
      BY <2>1 DEF NativeSettles, CancelTypes
    <3>6. NativeTypes'
      BY <2>1, AfterFailureType DEF NativeSettles, NativeTypes
    <3>7. CountTypes'
      BY <2>1 DEF NativeSettles, CountTypes
    <3>. QED BY <3>1, <3>2, <3>3, <3>4, <3>5, <3>6, <3>7
  <2>2. CASE CompleteBegins(p, q)
    BY <2>2 DEF CompleteBegins, LeaseTypes, MapTypes, ApiTypes, TaskTypes, CancelTypes,
       NativeTypes, CountTypes
  <2>3. CASE FailureRecorded(p, q)
    BY <2>3 DEF FailureRecorded, LeaseTypes, MapTypes, ApiTypes, TaskTypes, CancelTypes,
       NativeTypes, CountTypes
  <2>. QED BY <1>3, <2>1, <2>2, <2>3 DEF Login
<1>4. ASSUME NEW q \in Logins, QrExpires(q) \/ CompleteLocked(q) \/ FailureLocked(q)
      PROVE  Types'
  <2>1. CASE QrExpires(q)
    BY <2>1 DEF QrExpires, LeaseTypes, MapTypes, ApiTypes, TaskTypes, CancelTypes, NativeTypes,
       CountTypes
  <2>2. CASE CompleteLocked(q)
    <3>1. LeaseTypes'
      BY <2>2 DEF CompleteLocked, LeaseTypes
    <3>2. MapTypes'
      BY <2>2 DEF CompleteLocked, MapTypes
    <3>3. ApiTypes'
      BY <2>2 DEF CompleteLocked, ApiTypes
    <3>4. TaskTypes'
      BY <2>2 DEF CompleteLocked, TaskTypes
    <3>5. CancelTypes'
      BY <2>2 DEF CompleteLocked, CancelTypes
    <3>6. NativeTypes'
      BY <2>2, AfterFailureType DEF CompleteLocked, NativeTypes
    <3>7. CountTypes'
      BY <2>2 DEF CompleteLocked, CountTypes
    <3>. QED BY <3>1, <3>2, <3>3, <3>4, <3>5, <3>6, <3>7
  <2>3. CASE FailureLocked(q)
    <3>1. home[q] \in Procs \cup {Nothing}
      BY DEF NativeTypes
    <3>. QED BY <2>3, <3>1, CrashTypes DEF FailureLocked, Crashes
  <2>. QED BY <1>4, <2>1, <2>2, <2>3
<1>5. CASE KeyExpires
  <2>1. LeaseTypes'
    BY <1>5 DEF KeyExpires, LeaseTypes
  <2>2. MapTypes'
    BY <1>5 DEF KeyExpires, MapTypes
  <2>3. ApiTypes'
    BY <1>5 DEF KeyExpires, ApiTypes
  <2>4. TaskTypes'
    BY <1>5 DEF KeyExpires, TaskTypes
  <2>5. CancelTypes'
    BY <1>5 DEF KeyExpires, CancelTypes
  <2>6. NativeTypes'
    BY <1>5 DEF KeyExpires, NativeTypes
  <2>7. CountTypes'
    BY <1>5, LossTypes DEF KeyExpires, CountTypes
  <2>. QED BY <2>1, <2>2, <2>3, <2>4, <2>5, <2>6, <2>7
<1>6. CASE UNCHANGED vars
  BY <1>6 DEF vars, LeaseTypes, MapTypes, ApiTypes, TaskTypes, CancelTypes, NativeTypes, CountTypes
<1>. QED BY <1>1, <1>2, <1>3, <1>4, <1>5, <1>6 DEF Next
-----------------------------------------------------------------------------
(* What happens to the operations and to the logins.                        *)

\* Where an operation goes on.
Turn(p, at, q, api) ==
  /\ op'[p].at = at /\ op'[p].q = q /\ op'[p].api = api
  /\ \A r \in Procs \ {p} : op'[r] = op[r]

\* What a name for the next point means for what is known of it.
TurnsOf(p) ==
  /\ Goto(p, Idle)
       => Turn(p, "idle", Nothing, Nothing)
  /\ Goto(p, [Idle EXCEPT !.at = "lookup"])
       => Turn(p, "lookup", Nothing, Nothing)
  /\ Goto(p, [Idle EXCEPT !.at = "logoutDelete"])
       => Turn(p, "logoutDelete", Nothing, Nothing)
  /\ Goto(p, [Idle EXCEPT !.at = "logoutWait"])
       => Turn(p, "logoutWait", Nothing, Nothing)
  /\ Goto(p, [Idle EXCEPT !.at = "find"])
       => Turn(p, "find", Nothing, Nothing)
  /\ Goto(p, [Idle EXCEPT !.at = "avatars"])
       => Turn(p, "avatars", Nothing, Nothing)
  /\ Goto(p, [Idle EXCEPT !.at = "saveError"])
       => Turn(p, "saveError", Nothing, Nothing)
  /\ Goto(p, [Idle EXCEPT !.at = "saveError", !.ok = FALSE])
       => Turn(p, "saveError", Nothing, Nothing)
  /\ Goto(p, [Idle EXCEPT !.at = "dispose", !.q = pend[p]])
       => Turn(p, "dispose", pend[p], Nothing)
  /\ Goto(p, [Idle EXCEPT !.at = "logout", !.q = pend[p], !.api = active[p]])
       => Turn(p, "logout", pend[p], active[p])
  /\ Goto(p, Restoring(TRUE))
       => Turn(p, "login", Nothing, Nothing)
  /\ Goto(p, Restoring(FALSE))
       => Turn(p, "login", Nothing, Nothing)
  /\ Goto(p, [op[p] EXCEPT !.at = "saveQr"])
       => Turn(p, "saveQr", op[p].q, op[p].api)
  /\ Goto(p, [op[p] EXCEPT !.at = "compensate"])
       => Turn(p, "compensate", op[p].q, op[p].api)
  /\ Goto(p, [op[p] EXCEPT !.at = "saveError", !.ok = FALSE])
       => Turn(p, "saveError", op[p].q, op[p].api)
  /\ Goto(p, [op[p] EXCEPT !.at = "restoreSave", !.api = restored[p] + 1])
       => Turn(p, "restoreSave", op[p].q, restored[p] + 1)
  /\ Goto(p, [op[p] EXCEPT !.at = "login", !.left = @ - 1])
       => Turn(p, "login", op[p].q, op[p].api)
  /\ \A ok : LeaveQueue(p, ok) => Turn(p, "idle", Nothing, Nothing)
  /\ LeaveAtOnce(p) => op' = op
  /\ Ends(p) => Turn(p, "idle", Nothing, Nothing)
AccountTurn(p, q) == Goto(p, [Idle EXCEPT !.at = "account", !.q = q])
        => Turn(p, "account", q, Nothing)

LEMMA Turns ==
  ASSUME Types, NEW p \in Procs
  PROVE  TurnsOf(p) /\ \A q \in Logins : AccountTurn(p, q)
<1>. USE DEF Turn, Goto, Idle
<1>1. op \in [Procs -> Ops] /\ op[p] \in [at : Points, q : Logins \cup {Nothing},
        api : Apis \cup {Nothing}, left : 0..2, boot : BOOLEAN, ok : BOOLEAN]
  BY DEF Types, TaskTypes, Ops
<1>2. Goto(p, Idle) => Turn(p, "idle", Nothing, Nothing)
  BY <1>1
<1>3. Goto(p, [Idle EXCEPT !.at = "lookup"]) => Turn(p, "lookup", Nothing, Nothing)
  BY <1>1
<1>4. Goto(p, [Idle EXCEPT !.at = "logoutDelete"]) => Turn(p, "logoutDelete", Nothing, Nothing)
  BY <1>1
<1>5. Goto(p, [Idle EXCEPT !.at = "logoutWait"]) => Turn(p, "logoutWait", Nothing, Nothing)
  BY <1>1
<1>6. Goto(p, [Idle EXCEPT !.at = "find"]) => Turn(p, "find", Nothing, Nothing)
  BY <1>1
<1>7. Goto(p, [Idle EXCEPT !.at = "avatars"]) => Turn(p, "avatars", Nothing, Nothing)
  BY <1>1
<1>8. Goto(p, [Idle EXCEPT !.at = "saveError"]) => Turn(p, "saveError", Nothing, Nothing)
  BY <1>1
<1>9. Goto(p, [Idle EXCEPT !.at = "saveError", !.ok = FALSE])
        => Turn(p, "saveError", Nothing, Nothing)
  BY <1>1
<1>10. Goto(p, [Idle EXCEPT !.at = "dispose", !.q = pend[p]])
        => Turn(p, "dispose", pend[p], Nothing)
  BY <1>1
<1>11. Goto(p, [Idle EXCEPT !.at = "logout", !.q = pend[p], !.api = active[p]])
        => Turn(p, "logout", pend[p], active[p])
  BY <1>1
<1>12. Goto(p, Restoring(TRUE)) => Turn(p, "login", Nothing, Nothing)
  BY <1>1 DEF Restoring
<1>13. Goto(p, Restoring(FALSE)) => Turn(p, "login", Nothing, Nothing)
  BY <1>1 DEF Restoring
<1>14. Goto(p, [op[p] EXCEPT !.at = "saveQr"]) => Turn(p, "saveQr", op[p].q, op[p].api)
  BY <1>1
<1>15. Goto(p, [op[p] EXCEPT !.at = "compensate"]) => Turn(p, "compensate", op[p].q, op[p].api)
  BY <1>1
<1>16. Goto(p, [op[p] EXCEPT !.at = "saveError", !.ok = FALSE])
        => Turn(p, "saveError", op[p].q, op[p].api)
  BY <1>1
<1>17. Goto(p, [op[p] EXCEPT !.at = "restoreSave", !.api = restored[p] + 1])
        => Turn(p, "restoreSave", op[p].q, restored[p] + 1)
  BY <1>1
<1>18. Goto(p, [op[p] EXCEPT !.at = "login", !.left = @ - 1])
        => Turn(p, "login", op[p].q, op[p].api)
  BY <1>1
<1>19. \A ok : LeaveQueue(p, ok) => Turn(p, "idle", Nothing, Nothing)
  BY <1>2 DEF LeaveQueue
<1>20. LeaveAtOnce(p) => op' = op
  BY DEF LeaveAtOnce
<1>21. Ends(p) => Turn(p, "idle", Nothing, Nothing)
  BY <1>1 DEF Ends
<1>22. \A q \in Logins : AccountTurn(p, q)
  BY <1>1 DEF AccountTurn
<1>. HIDE DEF Turn, Goto, Idle
<1>. QED BY <1>2, <1>3, <1>4, <1>5, <1>6, <1>7, <1>8, <1>9, <1>10, <1>11, <1>12, <1>13, <1>14,
            <1>15, <1>16, <1>17, <1>18, <1>19, <1>20, <1>21, <1>22 DEF TurnsOf

\* A login once begun stays begun, and waits for a scan only from its beginning.
LEMMA QrStep ==
  ASSUME Types, [Next]_vars
  PROVE  \A q \in Logins :
           /\ qr'[q] = "unused" => qr[q] = "unused"
           /\ qr'[q] = "waiting_qr" => qr[q] \in {"waiting_qr", "unused"}
<1>. DEFINE QrGoal ==
       \A q \in Logins :
         /\ qr'[q] = "unused" => qr[q] = "unused"
         /\ qr'[q] = "waiting_qr" => qr[q] \in {"waiting_qr", "unused"}
<1>. USE DEF mapVars, taskVars, loginVars
<1>0. qr' = qr => QrGoal
  OBVIOUS
<1>7. \A q, status : status \notin {"unused", "waiting_qr"} /\ CancelLogin(q, status) => QrGoal
  BY DEF CancelLogin, Types, CancelTypes
<1>8. qr \in [Logins -> States]
  BY DEF Types, CancelTypes
<1>. HIDE DEF QrGoal
<1>1. ASSUME NEW p \in Procs, Operation(p) PROVE QrGoal
  <2>1. CASE QrRefused(p)
    BY <2>1, <1>0, <1>7 DEF QrRefused, StopLogin, HasApi
  <2>2. CASE QrReplaces(p)
    BY <2>2, <1>0, <1>7 DEF QrReplaces, StopLogin, HasApi
  <2>3. CASE QrDisposed(p)
    BY <2>3, <1>0, <1>7 DEF QrDisposed, StopLogin, HasApi
  <2>4. CASE QrLooksUp(p)
    BY <2>4, <1>0, <1>7 DEF QrLooksUp, StopLogin, HasApi
  <2>5. CASE QrStarts(p)
    BY <2>5, <1>0, <1>7, <1>8 DEF QrStarts, QrGoal, StopLogin, HasApi
  <2>6. CASE LogoutBegins(p)
    BY <2>6, <1>0, <1>7 DEF LogoutBegins, StopLogin, HasApi
  <2>7. CASE LogoutStopFails(p)
    BY <2>7, <1>0, <1>7 DEF LogoutStopFails, StopLogin, HasApi
  <2>8. CASE LogoutStops(p)
    BY <2>8, <1>0, <1>7 DEF LogoutStops, StopLogin, HasApi
  <2>9. CASE LogoutWaited(p)
    BY <2>9, <1>0, <1>7 DEF LogoutWaited, StopLogin, HasApi
  <2>10. CASE LogoutDeletes(p)
    BY <2>10, <1>0, <1>7 DEF LogoutDeletes, StopLogin, HasApi
  <2>11. CASE SaveError(p)
    BY <2>11, <1>0, <1>7 DEF SaveError, StopLogin, HasApi
  <2>12. CASE SendFinds(p)
    BY <2>12, <1>0, <1>7 DEF SendFinds, StopLogin, HasApi
  <2>13. CASE SendRestores(p)
    BY <2>13, <1>0, <1>7 DEF SendRestores, StopLogin, HasApi
  <2>14. CASE BootReads(p)
    BY <2>14, <1>0, <1>7 DEF BootReads, StopLogin, HasApi
  <2>15. CASE BootRestores(p)
    BY <2>15, <1>0, <1>7 DEF BootRestores, StopLogin, HasApi
  <2>16. CASE BootSavesError(p)
    BY <2>16, <1>0, <1>7 DEF BootSavesError, StopLogin, HasApi
  <2>17. CASE RestoreLogsIn(p)
    BY <2>17, <1>0, <1>7 DEF RestoreLogsIn, StopLogin, HasApi, NextAttempt
  <2>18. CASE RestoreSaves(p)
    BY <2>18, <1>0, <1>7 DEF RestoreSaves, StopLogin, HasApi, NextAttempt
  <2>19. CASE RestoreEnds(p)
    BY <2>19, <1>0, <1>7 DEF RestoreEnds, StopLogin, HasApi
  <2>20. CASE CompleteListens(p)
    BY <2>20, <1>0, <1>7 DEF CompleteListens, StopLogin, HasApi
  <2>21. CASE CompleteSaves(p)
    BY <2>21, <1>0, <1>7, <1>8 DEF CompleteSaves, StopLogin, HasApi, FailCompensation, QrGoal
  <2>22. CASE CompensationDeletes(p)
    BY <2>22, <1>0, <1>7 DEF CompensationDeletes, StopLogin, HasApi, FailCompensation
  <2>. QED BY <1>1, <2>1, <2>2, <2>3, <2>4, <2>5, <2>6, <2>7, <2>8, <2>9, <2>10, <2>11, <2>12,
              <2>13, <2>14, <2>15, <2>16, <2>17, <2>18, <2>19, <2>20, <2>21, <2>22 DEF Operation
<1>2. ASSUME NEW p \in Procs,
             LeaseIsLost(p) \/ FenceEnds(p) \/ ListenerCloses(p) \/ ListenerClosed(p)
                     \/ Crashes(p) \/ ShutsDown(p)
      PROVE  QrGoal
  <2>1. CASE LeaseIsLost(p)
    BY <2>1, <1>0, <1>7 DEF LeaseIsLost, StopLogin, HasApi
  <2>2. CASE FenceEnds(p)
    BY <2>2, <1>0, <1>7 DEF FenceEnds, StopLogin, HasApi
  <2>3. CASE ListenerCloses(p)
    BY <2>3, <1>0, <1>7 DEF ListenerCloses, StopLogin, HasApi
  <2>4. CASE ListenerClosed(p)
    BY <2>4, <1>0, <1>7 DEF ListenerClosed, StopLogin, HasApi
  <2>5. CASE Crashes(p)
    BY <2>5, <1>0, <1>7 DEF Crashes, StopLogin, HasApi, Ends
  <2>6. CASE ShutsDown(p)
    BY <2>6, <1>0, <1>7 DEF ShutsDown, StopLogin, HasApi, Ends
  <2>. QED BY <1>2, <2>1, <2>2, <2>3, <2>4, <2>5, <2>6
<1>3. ASSUME NEW p \in Procs, NEW q \in Logins, Login(p, q) PROVE QrGoal
  <2>1. CASE NativeSettles(p, q)
    BY <2>1, <1>0, <1>7 DEF NativeSettles, StopLogin, HasApi
  <2>2. CASE CompleteBegins(p, q)
    BY <2>2, <1>0, <1>7 DEF CompleteBegins, StopLogin, HasApi
  <2>3. CASE FailureRecorded(p, q)
    BY <2>3, <1>0, <1>7, <1>8 DEF FailureRecorded, StopLogin, HasApi, QrGoal
  <2>. QED BY <1>3, <2>1, <2>2, <2>3 DEF Login
<1>4. ASSUME NEW q \in Logins, QrExpires(q) \/ CompleteLocked(q) \/ FailureLocked(q)
      PROVE  QrGoal
  <2>1. CASE QrExpires(q)
    BY <2>1, <1>0, <1>7, <1>8 DEF QrExpires, StopLogin, HasApi, QrGoal
  <2>2. CASE CompleteLocked(q)
    BY <2>2, <1>0, <1>7 DEF CompleteLocked, StopLogin, HasApi
  <2>3. CASE FailureLocked(q)
    BY <2>3, <1>0, <1>7 DEF FailureLocked, StopLogin, HasApi, Crashes, Ends
  <2>. QED BY <1>4, <2>1, <2>2, <2>3
<1>5. ASSUME KeyExpires PROVE QrGoal
  BY <1>5, <1>0, <1>7 DEF KeyExpires, StopLogin, HasApi
<1>6. ASSUME UNCHANGED vars PROVE QrGoal
  BY <1>6, <1>0, <1>7 DEF vars, StopLogin, HasApi
<1>. QED BY <1>1, <1>2, <1>3, <1>4, <1>5, <1>6 DEF Next, QrGoal

\* What an operation knows stays true while it waits.
LEMMA KnowsStep ==
  ASSUME Types, OpInv, [Next]_vars
  PROVE  \A p \in Procs : Knows(op[p])'
<1>. DEFINE Still(o) ==
       /\ o.at \in {"account", "saveQr", "compensate"} => o.q \in Used'
       /\ o.at = "logout" => o.q \in Used' \cup {Nothing}
       /\ o.at = "restoreSave" => o.api \in 1..MaxRestores
     KnowsGoal == \A p \in Procs : Still(op'[p])
<1>. USE DEF mapVars, taskVars, loginVars
<1>13. Used \subseteq Used'
  BY QrStep DEF Used
<1>7. \A p \in Procs : Still(op[p])
  BY <1>13 DEF OpInv, Knows
<1>12. \A p \in Procs, q \in Logins : IsPendingReady(p, q) => q \in Used'
  BY <1>13 DEF IsPendingReady, Used
<1>0. \A p \in Procs : op[p] \in Ops /\ pend[p] \in Used' \cup {Nothing}
  BY <1>13 DEF Types, TaskTypes, OpInv
<1>15. \A q \in Logins : native[q] = "failed" => home[q] \in Procs
  BY DEF OpInv
<1>1. ASSUME NEW p \in Procs, Operation(p) PROVE KnowsGoal
  <2>0. TurnsOf(p)
    BY Turns
  <2>1. CASE QrRefused(p)
    BY <2>1, <1>0, <1>7, <2>0 DEF QrRefused, Turn, TurnsOf
  <2>2. CASE QrReplaces(p)
    BY <2>2, <1>0, <1>7, <2>0 DEF QrReplaces, Turn, TurnsOf
  <2>3. CASE QrDisposed(p)
    BY <2>3, <1>0, <1>7, <2>0 DEF QrDisposed, Turn, TurnsOf
  <2>4. CASE QrLooksUp(p)
    BY <2>4, <1>0, <1>7, <2>0 DEF QrLooksUp, Turn, TurnsOf
  <2>5. CASE QrStarts(p)
    BY <2>5, <1>0, <1>7, <2>0 DEF QrStarts, Turn, TurnsOf
  <2>6. CASE LogoutBegins(p)
    BY <2>6, <1>0, <1>7, <2>0 DEF LogoutBegins, Turn, TurnsOf
  <2>7. CASE LogoutStopFails(p)
    BY <2>7, <1>0, <1>7, <2>0 DEF LogoutStopFails, Turn, TurnsOf
  <2>8. CASE LogoutStops(p)
    BY <2>8, <1>0, <1>7, <2>0 DEF LogoutStops, Turn, TurnsOf
  <2>9. CASE LogoutWaited(p)
    BY <2>9, <1>0, <1>7, <2>0 DEF LogoutWaited, Turn, TurnsOf
  <2>10. CASE LogoutDeletes(p)
    BY <2>10, <1>0, <1>7, <2>0 DEF LogoutDeletes, Turn, TurnsOf
  <2>11. CASE SaveError(p)
    BY <2>11, <1>0, <1>7, <2>0 DEF SaveError, Turn, TurnsOf
  <2>12. CASE SendFinds(p)
    BY <2>12, <1>0, <1>7, <2>0 DEF SendFinds, Turn, TurnsOf
  <2>13. CASE SendRestores(p)
    BY <2>13, <1>0, <1>7, <2>0 DEF SendRestores, Turn, TurnsOf
  <2>14. CASE BootReads(p)
    BY <2>14, <1>0, <1>7, <2>0 DEF BootReads, Turn, TurnsOf
  <2>15. CASE BootRestores(p)
    BY <2>15, <1>0, <1>7, <2>0 DEF BootRestores, Turn, TurnsOf
  <2>16. CASE BootSavesError(p)
    BY <2>16, <1>0, <1>7, <2>0 DEF BootSavesError, Turn, TurnsOf
  <2>17. CASE RestoreLogsIn(p)
    BY <2>17, <1>0, <1>7, <2>0, NextApi DEF RestoreLogsIn, Turn, TurnsOf, NextAttempt
  <2>18. CASE RestoreSaves(p)
    BY <2>18, <1>0, <1>7, <2>0 DEF RestoreSaves, Turn, TurnsOf, NextAttempt
  <2>19. CASE RestoreEnds(p)
    BY <2>19, <1>0, <1>7, <2>0 DEF RestoreEnds, Turn, TurnsOf
  <2>20. CASE CompleteListens(p)
    BY <2>20, <1>0, <1>7, <2>0 DEF CompleteListens, Turn, TurnsOf
  <2>21. CASE CompleteSaves(p)
    BY <2>21, <1>0, <1>7, <2>0 DEF CompleteSaves, Turn, TurnsOf, FailCompensation
  <2>22. CASE CompensationDeletes(p)
    BY <2>22, <1>0, <1>7, <2>0 DEF CompensationDeletes, Turn, TurnsOf, FailCompensation
  <2>. QED BY <1>1, <2>1, <2>2, <2>3, <2>4, <2>5, <2>6, <2>7, <2>8, <2>9, <2>10, <2>11, <2>12,
              <2>13, <2>14, <2>15, <2>16, <2>17, <2>18, <2>19, <2>20, <2>21, <2>22 DEF Operation
<1>2. ASSUME NEW p \in Procs,
             LeaseIsLost(p) \/ FenceEnds(p) \/ ListenerCloses(p) \/ ListenerClosed(p)
                     \/ Crashes(p) \/ ShutsDown(p)
      PROVE  KnowsGoal
  <2>0. TurnsOf(p)
    BY Turns
  <2>1. CASE LeaseIsLost(p)
    BY <2>1, <1>0, <1>7, <2>0 DEF LeaseIsLost, Turn, TurnsOf
  <2>2. CASE FenceEnds(p)
    BY <2>2, <1>0, <1>7, <2>0 DEF FenceEnds, Turn, TurnsOf
  <2>3. CASE ListenerCloses(p)
    BY <2>3, <1>0, <1>7, <2>0 DEF ListenerCloses, Turn, TurnsOf
  <2>4. CASE ListenerClosed(p)
    BY <2>4, <1>0, <1>7, <2>0 DEF ListenerClosed, Turn, TurnsOf
  <2>5. CASE Crashes(p)
    BY <2>5, <1>0, <1>7, <2>0 DEF Crashes, Turn, TurnsOf
  <2>6. CASE ShutsDown(p)
    BY <2>6, <1>0, <1>7, <2>0 DEF ShutsDown, Turn, TurnsOf
  <2>. QED BY <1>2, <2>1, <2>2, <2>3, <2>4, <2>5, <2>6
<1>3. ASSUME NEW p \in Procs, NEW q \in Logins, Login(p, q) PROVE KnowsGoal
  <2>0. TurnsOf(p) /\ AccountTurn(p, q)
    BY Turns
  <2>1. CASE NativeSettles(p, q)
    BY <2>1, <1>0, <1>7, <2>0 DEF NativeSettles, Turn, TurnsOf
  <2>2. CASE CompleteBegins(p, q)
    BY <2>2, <1>0, <1>7, <2>0, <1>12 DEF CompleteBegins, Turn, TurnsOf, AccountTurn
  <2>3. CASE FailureRecorded(p, q)
    BY <2>3, <1>0, <1>7, <2>0 DEF FailureRecorded, Turn, TurnsOf
  <2>. QED BY <1>3, <2>1, <2>2, <2>3 DEF Login
<1>4. ASSUME NEW q \in Logins, QrExpires(q) \/ CompleteLocked(q) \/ FailureLocked(q)
      PROVE  KnowsGoal
  <2>1. CASE QrExpires(q)
    BY <2>1, <1>0, <1>7 DEF QrExpires, Turn, TurnsOf
  <2>2. CASE CompleteLocked(q)
    BY <2>2, <1>0, <1>7 DEF CompleteLocked, Turn, TurnsOf
  <2>3. CASE FailureLocked(q)
    BY <2>3, <1>0, <1>7, <1>15, Turns DEF FailureLocked, Turn, TurnsOf, Crashes
  <2>. QED BY <1>4, <2>1, <2>2, <2>3
<1>5. ASSUME KeyExpires PROVE KnowsGoal
  BY <1>5, <1>0, <1>7 DEF KeyExpires, Turn, TurnsOf
<1>6. ASSUME UNCHANGED vars PROVE KnowsGoal
  BY <1>6, <1>0, <1>7 DEF vars, Turn, TurnsOf
<1>14. KnowsGoal
  BY <1>1, <1>2, <1>3, <1>4, <1>5, <1>6 DEF Next
<1>. QED BY <1>14 DEF Knows, KnowsGoal

\* A process puts a login in its map as it begins it.
LEMMA PendStep ==
  ASSUME Types, OpInv, [Next]_vars
  PROVE  \A p \in Procs :
           /\ pend'[p] \in Used' \cup {Nothing}
           /\ pend'[p] \in {pend[p], Nothing} \/ qr[pend'[p]] = "unused"
<1>. DEFINE PendGoal ==
       \A p \in Procs : \/ pend'[p] \in {pend[p], Nothing}
                        \/ pend'[p] \in Used' /\ qr[pend'[p]] = "unused"
<1>. USE DEF mapVars, taskVars, loginVars
<1>13. Used \subseteq Used'
  BY QrStep DEF Used
<1>7. pend \in [Procs -> Logins \cup {Nothing}] /\ qr \in [Logins -> States]
  BY DEF Types, MapTypes, CancelTypes
<1>0. /\ pend' = pend => PendGoal
      /\ \A p \in Procs : ClearMaps(p) => PendGoal
  BY <1>7 DEF ClearMaps
<1>15. \A q \in Logins : native[q] = "failed" => home[q] \in Procs
  BY DEF OpInv
<1>. HIDE DEF PendGoal
<1>1. ASSUME NEW p \in Procs, Operation(p) PROVE PendGoal
  <2>1. CASE QrRefused(p)
    BY <2>1, <1>0 DEF QrRefused
  <2>2. CASE QrReplaces(p)
    BY <2>2, <1>0 DEF QrReplaces
  <2>3. CASE QrDisposed(p)
    BY <2>3, <1>0, <1>7 DEF QrDisposed, PendGoal
  <2>4. CASE QrLooksUp(p)
    BY <2>4, <1>0 DEF QrLooksUp
  <2>5. CASE QrStarts(p)
    BY <2>5, <1>0, <1>7 DEF QrStarts, PendGoal, Used
  <2>6. CASE LogoutBegins(p)
    BY <2>6, <1>0 DEF LogoutBegins
  <2>7. CASE LogoutStopFails(p)
    BY <2>7, <1>0 DEF LogoutStopFails
  <2>8. CASE LogoutStops(p)
    BY <2>8, <1>0 DEF LogoutStops
  <2>9. CASE LogoutWaited(p)
    BY <2>9, <1>0 DEF LogoutWaited
  <2>10. CASE LogoutDeletes(p)
    BY <2>10, <1>0 DEF LogoutDeletes
  <2>11. CASE SaveError(p)
    BY <2>11, <1>0 DEF SaveError
  <2>12. CASE SendFinds(p)
    BY <2>12, <1>0 DEF SendFinds
  <2>13. CASE SendRestores(p)
    BY <2>13, <1>0 DEF SendRestores
  <2>14. CASE BootReads(p)
    BY <2>14, <1>0 DEF BootReads
  <2>15. CASE BootRestores(p)
    BY <2>15, <1>0 DEF BootRestores
  <2>16. CASE BootSavesError(p)
    BY <2>16, <1>0 DEF BootSavesError
  <2>17. CASE RestoreLogsIn(p)
    BY <2>17, <1>0 DEF RestoreLogsIn, NextAttempt
  <2>18. CASE RestoreSaves(p)
    BY <2>18, <1>0 DEF RestoreSaves, NextAttempt
  <2>19. CASE RestoreEnds(p)
    BY <2>19, <1>0 DEF RestoreEnds
  <2>20. CASE CompleteListens(p)
    BY <2>20, <1>0 DEF CompleteListens
  <2>21. CASE CompleteSaves(p)
    BY <2>21, <1>0 DEF CompleteSaves, FailCompensation
  <2>22. CASE CompensationDeletes(p)
    BY <2>22, <1>0 DEF CompensationDeletes, FailCompensation
  <2>. QED BY <1>1, <2>1, <2>2, <2>3, <2>4, <2>5, <2>6, <2>7, <2>8, <2>9, <2>10, <2>11, <2>12,
              <2>13, <2>14, <2>15, <2>16, <2>17, <2>18, <2>19, <2>20, <2>21, <2>22 DEF Operation
<1>2. ASSUME NEW p \in Procs,
             LeaseIsLost(p) \/ FenceEnds(p) \/ ListenerCloses(p) \/ ListenerClosed(p)
                     \/ Crashes(p) \/ ShutsDown(p)
      PROVE  PendGoal
  <2>1. CASE LeaseIsLost(p)
    BY <2>1, <1>0 DEF LeaseIsLost
  <2>2. CASE FenceEnds(p)
    BY <2>2, <1>0, <1>7 DEF FenceEnds, PendGoal
  <2>3. CASE ListenerCloses(p)
    BY <2>3, <1>0 DEF ListenerCloses
  <2>4. CASE ListenerClosed(p)
    BY <2>4, <1>0 DEF ListenerClosed
  <2>5. CASE Crashes(p)
    BY <2>5, <1>0 DEF Crashes, Ends
  <2>6. CASE ShutsDown(p)
    BY <2>6, <1>0 DEF ShutsDown, Ends
  <2>. QED BY <1>2, <2>1, <2>2, <2>3, <2>4, <2>5, <2>6
<1>3. ASSUME NEW p \in Procs, NEW q \in Logins, Login(p, q) PROVE PendGoal
  <2>1. CASE NativeSettles(p, q)
    BY <2>1, <1>0 DEF NativeSettles
  <2>2. CASE CompleteBegins(p, q)
    BY <2>2, <1>0 DEF CompleteBegins
  <2>3. CASE FailureRecorded(p, q)
    BY <2>3, <1>0 DEF FailureRecorded
  <2>. QED BY <1>3, <2>1, <2>2, <2>3 DEF Login
<1>4. ASSUME NEW q \in Logins, QrExpires(q) \/ CompleteLocked(q) \/ FailureLocked(q)
      PROVE  PendGoal
  <2>1. CASE QrExpires(q)
    BY <2>1, <1>0 DEF QrExpires
  <2>2. CASE CompleteLocked(q)
    BY <2>2, <1>0 DEF CompleteLocked
  <2>3. CASE FailureLocked(q)
    BY <2>3, <1>0, <1>15 DEF FailureLocked, Crashes, Ends
  <2>. QED BY <1>4, <2>1, <2>2, <2>3
<1>5. ASSUME KeyExpires PROVE PendGoal
  BY <1>5, <1>0 DEF KeyExpires
<1>6. ASSUME UNCHANGED vars PROVE PendGoal
  BY <1>6, <1>0 DEF vars
<1>14. PendGoal
  BY <1>1, <1>2, <1>3, <1>4, <1>5, <1>6 DEF Next
<1>. QED BY <1>13, <1>14 DEF PendGoal, OpInv

\* A login is begun by a process, before anything comes of it.
LEMMA BornStep ==
  ASSUME Types, OpInv, [Next]_vars
  PROVE  \A q \in Logins : IF q \in Used' THEN home'[q] \in Procs
          ELSE home'[q] = Nothing /\ native'[q] = "none"
<1>. DEFINE BornGoal ==
       \A q \in Logins : /\ home'[q] # home[q] => q \in Used' /\ home'[q] \in Procs
                         /\ native'[q] # native[q] => q \in Used'
                         /\ qr'[q] # "unused" => qr[q] # "unused" \/ home'[q] \in Procs
<1>. USE DEF mapVars, taskVars, loginVars
<1>13. Used \subseteq Used'
  BY QrStep DEF Used
<1>7. /\ home \in [Logins -> Procs \cup {Nothing}]
      /\ native \in [Logins -> {"none", "running", "resolved", "failed", "done"}]
  BY DEF Types, NativeTypes
<1>0. /\ \A q \in Logins : native[q] # "none" => q \in Used'
      /\ \A q \in Logins : home[q] # Nothing => q \in Used'
  BY <1>13 DEF OpInv
<1>8. \A p \in Procs :
        op[p].at \in {"account", "saveQr", "compensate"} => op[p].q \in Used /\ op[p].q \in Used'
  BY <1>13 DEF OpInv, Knows
<1>9. qr \in [Logins -> States]
  BY DEF Types, CancelTypes
<1>10. /\ \A p \in Procs : pend[p] \in Used \cup {Nothing}
       /\ \A p \in Procs : op[p].at = "logout" => op[p].q \in Used \cup {Nothing}
  BY DEF OpInv, Knows
<1>11. /\ \A q, status : q \in Used /\ CancelLogin(q, status) =>
            \A r \in Logins : qr'[r] # "unused" => qr[r] # "unused"
       /\ \A q : q \in Used /\ qr' = [qr EXCEPT ![q] = "connected"] =>
            \A r \in Logins : qr'[r] # "unused" => qr[r] # "unused"
       /\ UNCHANGED qr => \A r \in Logins : qr'[r] # "unused" => qr[r] # "unused"
       /\ \A q \in Logins : qr'[q] # "unused" => q \in Used'
  BY <1>9 DEF CancelLogin, Used
<1>15. \A q \in Logins : native[q] = "failed" => home[q] \in Procs
  BY DEF OpInv
<1>1. ASSUME NEW p \in Procs, Operation(p) PROVE BornGoal
  <2>1. CASE QrRefused(p)
    BY <2>1, <1>0, <1>7, <1>9, <1>10, <1>11 DEF QrRefused, BornGoal
  <2>2. CASE QrReplaces(p)
    BY <2>2, <1>0, <1>7, <1>9, <1>10, <1>11 DEF QrReplaces, BornGoal, Outdated
  <2>3. CASE QrDisposed(p)
    BY <2>3, <1>0, <1>7, <1>9, <1>10, <1>11 DEF QrDisposed, BornGoal
  <2>4. CASE QrLooksUp(p)
    BY <2>4, <1>0, <1>7, <1>9, <1>10, <1>11 DEF QrLooksUp, BornGoal
  <2>5. CASE QrStarts(p)
    BY <2>5, <1>0, <1>7, <1>9, <1>10, <1>11 DEF QrStarts, BornGoal
  <2>6. CASE LogoutBegins(p)
    BY <2>6, <1>0, <1>7, <1>9, <1>10, <1>11 DEF LogoutBegins, BornGoal
  <2>7. CASE LogoutStopFails(p)
    BY <2>7, <1>0, <1>7, <1>9, <1>10, <1>11 DEF LogoutStopFails, BornGoal
  <2>8. CASE LogoutStops(p)
    BY <2>8, <1>0, <1>7, <1>9, <1>10, <1>11 DEF LogoutStops, BornGoal
  <2>9. CASE LogoutWaited(p)
    BY <2>9, <1>0, <1>7, <1>9, <1>10, <1>11 DEF LogoutWaited, BornGoal
  <2>10. CASE LogoutDeletes(p)
    BY <2>10, <1>0, <1>7, <1>9, <1>10, <1>11 DEF LogoutDeletes, BornGoal
  <2>11. CASE SaveError(p)
    BY <2>11, <1>0, <1>7, <1>9, <1>10, <1>11 DEF SaveError, BornGoal
  <2>12. CASE SendFinds(p)
    BY <2>12, <1>0, <1>7, <1>9, <1>10, <1>11 DEF SendFinds, BornGoal
  <2>13. CASE SendRestores(p)
    BY <2>13, <1>0, <1>7, <1>9, <1>10, <1>11 DEF SendRestores, BornGoal
  <2>14. CASE BootReads(p)
    BY <2>14, <1>0, <1>7, <1>9, <1>10, <1>11 DEF BootReads, BornGoal
  <2>15. CASE BootRestores(p)
    BY <2>15, <1>0, <1>7, <1>9, <1>10, <1>11 DEF BootRestores, BornGoal
  <2>16. CASE BootSavesError(p)
    BY <2>16, <1>0, <1>7, <1>9, <1>10, <1>11 DEF BootSavesError, BornGoal
  <2>17. CASE RestoreLogsIn(p)
    BY <2>17, <1>0, <1>7, <1>9, <1>10, <1>11 DEF RestoreLogsIn, BornGoal, NextAttempt
  <2>18. CASE RestoreSaves(p)
    BY <2>18, <1>0, <1>7, <1>9, <1>10, <1>11 DEF RestoreSaves, BornGoal, NextAttempt
  <2>19. CASE RestoreEnds(p)
    BY <2>19, <1>0, <1>7, <1>9, <1>10, <1>11 DEF RestoreEnds, BornGoal
  <2>20. CASE CompleteListens(p)
    BY <2>20, <1>0, <1>7, <1>9, <1>10, <1>11, <1>8 DEF CompleteListens, BornGoal
  <2>21. CASE CompleteSaves(p)
    BY <2>21, <1>0, <1>7, <1>9, <1>10, <1>11, <1>8 DEF CompleteSaves, BornGoal, FailCompensation
  <2>22. CASE CompensationDeletes(p)
    BY <2>22, <1>0, <1>7, <1>9, <1>10, <1>11, <1>8 DEF CompensationDeletes, BornGoal,
       FailCompensation
  <2>. QED BY <1>1, <2>1, <2>2, <2>3, <2>4, <2>5, <2>6, <2>7, <2>8, <2>9, <2>10, <2>11, <2>12,
              <2>13, <2>14, <2>15, <2>16, <2>17, <2>18, <2>19, <2>20, <2>21, <2>22 DEF Operation
<1>2. ASSUME NEW p \in Procs,
             LeaseIsLost(p) \/ FenceEnds(p) \/ ListenerCloses(p) \/ ListenerClosed(p)
                     \/ Crashes(p) \/ ShutsDown(p)
      PROVE  BornGoal
  <2>1. CASE LeaseIsLost(p)
    BY <2>1, <1>0, <1>7, <1>9, <1>10, <1>11 DEF LeaseIsLost, BornGoal
  <2>2. CASE FenceEnds(p)
    BY <2>2, <1>0, <1>7, <1>9, <1>10, <1>11 DEF FenceEnds, BornGoal
  <2>3. CASE ListenerCloses(p)
    BY <2>3, <1>0, <1>7, <1>9, <1>10, <1>11 DEF ListenerCloses, BornGoal
  <2>4. CASE ListenerClosed(p)
    BY <2>4, <1>0, <1>7, <1>9, <1>10, <1>11 DEF ListenerClosed, BornGoal
  <2>5. CASE Crashes(p)
    BY <2>5, <1>0, <1>7, <1>9, <1>10, <1>11 DEF Crashes, BornGoal, Ends
  <2>6. CASE ShutsDown(p)
    BY <2>6, <1>0, <1>7, <1>9, <1>10, <1>11 DEF ShutsDown, BornGoal, Ends
  <2>. QED BY <1>2, <2>1, <2>2, <2>3, <2>4, <2>5, <2>6
<1>3. ASSUME NEW p \in Procs, NEW q \in Logins, Login(p, q) PROVE BornGoal
  <2>1. CASE NativeSettles(p, q)
    BY <2>1, <1>0, <1>7, <1>9, <1>10, <1>11 DEF NativeSettles, BornGoal
  <2>2. CASE CompleteBegins(p, q)
    BY <2>2, <1>0, <1>7, <1>9, <1>10, <1>11 DEF CompleteBegins, BornGoal
  <2>3. CASE FailureRecorded(p, q)
    BY <2>3, <1>0, <1>7, <1>9, <1>10, <1>11 DEF FailureRecorded, BornGoal
  <2>. QED BY <1>3, <2>1, <2>2, <2>3 DEF Login
<1>4. ASSUME NEW q \in Logins, QrExpires(q) \/ CompleteLocked(q) \/ FailureLocked(q)
      PROVE  BornGoal
  <2>1. CASE QrExpires(q)
    BY <2>1, <1>0, <1>7, <1>9, <1>10, <1>11 DEF QrExpires, BornGoal
  <2>2. CASE CompleteLocked(q)
    BY <2>2, <1>0, <1>7, <1>9, <1>10, <1>11 DEF CompleteLocked, BornGoal
  <2>3. CASE FailureLocked(q)
    BY <2>3, <1>0, <1>7, <1>9, <1>10, <1>11, <1>15 DEF FailureLocked, BornGoal, Crashes, Ends
  <2>. QED BY <1>4, <2>1, <2>2, <2>3
<1>5. ASSUME KeyExpires PROVE BornGoal
  BY <1>5, <1>0, <1>7, <1>9, <1>10, <1>11 DEF KeyExpires, BornGoal
<1>6. ASSUME UNCHANGED vars PROVE BornGoal
  BY <1>6, <1>0, <1>7, <1>9, <1>10, <1>11 DEF vars, BornGoal
<1>14. BornGoal
  BY <1>1, <1>2, <1>3, <1>4, <1>5, <1>6 DEF Next
<1>. QED BY <1>13, <1>14 DEF BornGoal, OpInv, Used
-----------------------------------------------------------------------------
(* What is counted only grows: a quiet run has been quiet, without a fault. *)

LEMMA HistoryStep ==
  ASSUME Types, [Next]_vars
  PROVE  /\ losses' \in {losses, losses + 1} /\ slips \subseteq slips'
         /\ faults' \in {faults, faults + 1, faults + 2}
<1>. DEFINE HistoryGoal == /\ losses' \in {losses, losses + 1} /\ slips \subseteq slips'
                           /\ faults' \in {faults, faults + 1, faults + 2}
<1>. USE DEF mapVars, taskVars, loginVars, boundVars, history, Fault, NoFault
<1>0. losses \in Nat /\ faults \in Nat
  BY DEF Types, CountTypes
<1>1. ASSUME NEW p \in Procs, Operation(p) PROVE HistoryGoal
  <2>1. CASE QrRefused(p)
    BY <2>1, <1>0 DEF QrRefused
  <2>2. CASE QrReplaces(p)
    BY <2>2, <1>0 DEF QrReplaces
  <2>3. CASE QrDisposed(p)
    BY <2>3, <1>0 DEF QrDisposed
  <2>4. CASE QrLooksUp(p)
    BY <2>4, <1>0 DEF QrLooksUp
  <2>5. CASE QrStarts(p)
    BY <2>5, <1>0 DEF QrStarts
  <2>6. CASE LogoutBegins(p)
    BY <2>6, <1>0 DEF LogoutBegins
  <2>7. CASE LogoutStopFails(p)
    BY <2>7, <1>0 DEF LogoutStopFails
  <2>8. CASE LogoutStops(p)
    BY <2>8, <1>0 DEF LogoutStops
  <2>9. CASE LogoutWaited(p)
    BY <2>9, <1>0 DEF LogoutWaited
  <2>10. CASE LogoutDeletes(p)
    BY <2>10, <1>0 DEF LogoutDeletes
  <2>11. CASE SaveError(p)
    BY <2>11, <1>0 DEF SaveError
  <2>12. CASE SendFinds(p)
    BY <2>12, <1>0 DEF SendFinds
  <2>13. CASE SendRestores(p)
    BY <2>13, <1>0 DEF SendRestores
  <2>14. CASE BootReads(p)
    BY <2>14, <1>0 DEF BootReads
  <2>15. CASE BootRestores(p)
    BY <2>15, <1>0 DEF BootRestores
  <2>16. CASE BootSavesError(p)
    BY <2>16, <1>0 DEF BootSavesError
  <2>17. CASE RestoreLogsIn(p)
    BY <2>17, <1>0 DEF RestoreLogsIn
  <2>18. CASE RestoreSaves(p)
    BY <2>18, <1>0 DEF RestoreSaves
  <2>19. CASE RestoreEnds(p)
    BY <2>19, <1>0 DEF RestoreEnds
  <2>20. CASE CompleteListens(p)
    BY <2>20, <1>0 DEF CompleteListens
  <2>21. CASE CompleteSaves(p)
    BY <2>21, <1>0 DEF CompleteSaves
  <2>22. CASE CompensationDeletes(p)
    BY <2>22, <1>0 DEF CompensationDeletes
  <2>. QED BY <1>1, <2>1, <2>2, <2>3, <2>4, <2>5, <2>6, <2>7, <2>8, <2>9, <2>10, <2>11, <2>12,
              <2>13, <2>14, <2>15, <2>16, <2>17, <2>18, <2>19, <2>20, <2>21, <2>22 DEF Operation
<1>2. ASSUME NEW p \in Procs,
             LeaseIsLost(p) \/ FenceEnds(p) \/ ListenerCloses(p) \/ ListenerClosed(p)
                     \/ Crashes(p) \/ ShutsDown(p)
      PROVE  HistoryGoal
  <2>1. CASE LeaseIsLost(p)
    BY <2>1, <1>0 DEF LeaseIsLost
  <2>2. CASE FenceEnds(p)
    BY <2>2, <1>0 DEF FenceEnds
  <2>3. CASE ListenerCloses(p)
    BY <2>3, <1>0 DEF ListenerCloses
  <2>4. CASE ListenerClosed(p)
    BY <2>4, <1>0 DEF ListenerClosed
  <2>5. CASE Crashes(p)
    BY <2>5, <1>0 DEF Crashes, Ends
  <2>6. CASE ShutsDown(p)
    BY <2>6, <1>0 DEF ShutsDown, Ends
  <2>. QED BY <1>2, <2>1, <2>2, <2>3, <2>4, <2>5, <2>6
<1>3. ASSUME NEW p \in Procs, NEW q \in Logins, Login(p, q) PROVE HistoryGoal
  <2>1. CASE NativeSettles(p, q)
    BY <2>1, <1>0 DEF NativeSettles
  <2>2. CASE CompleteBegins(p, q)
    BY <2>2, <1>0 DEF CompleteBegins
  <2>3. CASE FailureRecorded(p, q)
    BY <2>3, <1>0 DEF FailureRecorded
  <2>. QED BY <1>3, <2>1, <2>2, <2>3 DEF Login
<1>4. ASSUME NEW q \in Logins, QrExpires(q) \/ CompleteLocked(q) \/ FailureLocked(q)
      PROVE  HistoryGoal
  <2>1. CASE QrExpires(q)
    BY <2>1, <1>0 DEF QrExpires
  <2>2. CASE CompleteLocked(q)
    BY <2>2, <1>0 DEF CompleteLocked
  <2>3. CASE FailureLocked(q)
    BY <2>3, <1>0 DEF FailureLocked, Crashes, Ends
  <2>. QED BY <1>4, <2>1, <2>2, <2>3
<1>5. ASSUME KeyExpires PROVE HistoryGoal
  BY <1>5, <1>0 DEF KeyExpires
<1>6. ASSUME UNCHANGED vars PROVE HistoryGoal
  BY <1>6, <1>0 DEF vars
<1>7. HistoryGoal
  BY <1>1, <1>2, <1>3, <1>4, <1>5, <1>6 DEF Next
<1>. QED BY <1>7

LEMMA QuietStep ==
  ASSUME Types, [Next]_vars, Quiet'
  PROVE  Quiet /\ UNCHANGED <<losses, slips, faults>> /\ ~Fault
<1>1. losses \in Nat /\ faults \in Nat
  BY DEF Types, CountTypes
<1>. QED BY <1>1, HistoryStep DEF Quiet, Fault

(* What one process does leaves the others where they are.                  *)

Same(r) == /\ held'[r] = held[r] /\ lost'[r] = lost[r] /\ fence'[r] = fence[r]
           /\ op'[r] = op[r] /\ listens'[r] = listens[r]
           /\ pend'[r] = pend[r] /\ active'[r] = active[r]
           /\ (r \in beside') = (r \in beside)

\* What runs in a process outside of its queue.
Aside(p) ==
  \/ LeaseIsLost(p) \/ FenceEnds(p) \/ ListenerCloses(p) \/ ListenerClosed(p)
  \/ Crashes(p) \/ ShutsDown(p)
OthersSame(p) == \A r \in Procs \ {p} : Same(r)

LEMMA OthersStay ==
  ASSUME Types, NEW p \in Procs
  PROVE  /\ Operation(p) \/ Aside(p) => OthersSame(p)
         /\ \A q \in Logins : Login(p, q) => OthersSame(p)
<1>. USE DEF mapVars, taskVars, loginVars, history, OthersSame, Same
<1>0. \A ok : LeaveQueue(p, ok) \/ LeaveAtOnce(p) =>
        \A r \in Procs \ {p} : held'[r] = held[r] /\ lost'[r] = lost[r]
  BY DEF Types, LeaseTypes, LeaveQueue, LeaveAtOnce, Release, TakeLease, KeepLease
<1>7. /\ held \in [Procs -> BOOLEAN] /\ lost \in [Procs -> BOOLEAN]
      /\ pend \in [Procs -> Logins \cup {Nothing}] /\ active \in [Procs -> Apis \cup {Nothing}]
      /\ listens \in [Procs -> SUBSET Apis] /\ fence \in [Procs -> Fences]
  BY DEF Types, LeaseTypes, MapTypes, ApiTypes, TaskTypes
<1>. USE DEF ClearMaps, StopApi, StopLogin, TakeLease, KeepLease, Release
<1>1. ASSUME Operation(p) PROVE OthersSame(p)
  <2>0. TurnsOf(p)
    BY Turns
  <2>1. CASE QrRefused(p)
    BY <2>1, <1>0, <1>7, <2>0 DEF QrRefused, Turn, TurnsOf
  <2>2. CASE QrReplaces(p)
    BY <2>2, <1>0, <1>7, <2>0 DEF QrReplaces, Turn, TurnsOf
  <2>3. CASE QrDisposed(p)
    BY <2>3, <1>0, <1>7, <2>0 DEF QrDisposed, Turn, TurnsOf
  <2>4. CASE QrLooksUp(p)
    BY <2>4, <1>0, <1>7, <2>0 DEF QrLooksUp, Turn, TurnsOf
  <2>5. CASE QrStarts(p)
    BY <2>5, <1>0, <1>7, <2>0 DEF QrStarts, Turn, TurnsOf
  <2>6. CASE LogoutBegins(p)
    BY <2>6, <1>0, <1>7, <2>0 DEF LogoutBegins, Turn, TurnsOf
  <2>7. CASE LogoutStopFails(p)
    BY <2>7, <1>0, <1>7, <2>0 DEF LogoutStopFails, Turn, TurnsOf
  <2>8. CASE LogoutStops(p)
    BY <2>8, <1>0, <1>7, <2>0 DEF LogoutStops, Turn, TurnsOf
  <2>9. CASE LogoutWaited(p)
    BY <2>9, <1>0, <1>7, <2>0 DEF LogoutWaited, Turn, TurnsOf
  <2>10. CASE LogoutDeletes(p)
    BY <2>10, <1>0, <1>7, <2>0 DEF LogoutDeletes, Turn, TurnsOf
  <2>11. CASE SaveError(p)
    BY <2>11, <1>0, <1>7, <2>0 DEF SaveError, Turn, TurnsOf
  <2>12. CASE SendFinds(p)
    BY <2>12, <1>0, <1>7, <2>0 DEF SendFinds, Turn, TurnsOf
  <2>13. CASE SendRestores(p)
    BY <2>13, <1>0, <1>7, <2>0 DEF SendRestores, Turn, TurnsOf
  <2>14. CASE BootReads(p)
    BY <2>14, <1>0, <1>7, <2>0 DEF BootReads, Turn, TurnsOf
  <2>15. CASE BootRestores(p)
    BY <2>15, <1>0, <1>7, <2>0 DEF BootRestores, Turn, TurnsOf
  <2>16. CASE BootSavesError(p)
    BY <2>16, <1>0, <1>7, <2>0 DEF BootSavesError, Turn, TurnsOf
  <2>17. CASE RestoreLogsIn(p)
    BY <2>17, <1>0, <1>7, <2>0 DEF RestoreLogsIn, Turn, TurnsOf, NextAttempt
  <2>18. CASE RestoreSaves(p)
    <3>1. \A r \in Procs \ {p} : (r \in beside') = (r \in beside)
      BY <2>18 DEF RestoreSaves, NotesBeside
    <3>. QED BY <2>18, <3>1, <1>0, <1>7, <2>0 DEF RestoreSaves, Turn, TurnsOf, NextAttempt
  <2>19. CASE RestoreEnds(p)
    BY <2>19, <1>0, <1>7, <2>0 DEF RestoreEnds, Turn, TurnsOf
  <2>20. CASE CompleteListens(p)
    <3>1. \A r \in Procs \ {p} : (r \in beside') = (r \in beside)
      <4>1. beside' \in {beside, beside \cup {p}}
        <5>. HIDE DEF StopLogin, KeepLease
        <5>. QED BY <2>20 DEF CompleteListens, NotesBeside
      <4>. QED BY <4>1
    <3>. QED BY <2>20, <3>1, <1>0, <1>7, <2>0 DEF CompleteListens, Turn, TurnsOf
  <2>21. CASE CompleteSaves(p)
    BY <2>21, <1>0, <1>7, <2>0 DEF CompleteSaves, Turn, TurnsOf, FailCompensation
  <2>22. CASE CompensationDeletes(p)
    BY <2>22, <1>0, <1>7, <2>0 DEF CompensationDeletes, Turn, TurnsOf, FailCompensation
  <2>. QED BY <1>1, <2>1, <2>2, <2>3, <2>4, <2>5, <2>6, <2>7, <2>8, <2>9, <2>10, <2>11, <2>12,
              <2>13, <2>14, <2>15, <2>16, <2>17, <2>18, <2>19, <2>20, <2>21, <2>22 DEF Operation
<1>2. ASSUME LeaseIsLost(p) \/ FenceEnds(p) \/ ListenerCloses(p) \/ ListenerClosed(p)
        \/ Crashes(p) \/ ShutsDown(p)
      PROVE  OthersSame(p)
  <2>0. TurnsOf(p)
    BY Turns
  <2>1. CASE LeaseIsLost(p)
    BY <2>1, <1>0, <1>7, <2>0 DEF LeaseIsLost, Turn, TurnsOf
  <2>2. CASE FenceEnds(p)
    BY <2>2, <1>0, <1>7, <2>0 DEF FenceEnds, Turn, TurnsOf
  <2>3. CASE ListenerCloses(p)
    BY <2>3, <1>0, <1>7, <2>0 DEF ListenerCloses, Turn, TurnsOf
  <2>4. CASE ListenerClosed(p)
    BY <2>4, <1>0, <1>7, <2>0 DEF ListenerClosed, Turn, TurnsOf
  <2>5. CASE Crashes(p)
    BY <2>5, <1>0, <1>7, <2>0 DEF Crashes, Turn, TurnsOf, Ends
  <2>6. CASE ShutsDown(p)
    BY <2>6, <1>0, <1>7, <2>0 DEF ShutsDown, Turn, TurnsOf, Ends
  <2>. QED BY <1>2, <2>1, <2>2, <2>3, <2>4, <2>5, <2>6
<1>3. ASSUME NEW q \in Logins, Login(p, q) PROVE OthersSame(p)
  <2>0. TurnsOf(p) /\ AccountTurn(p, q)
    BY Turns
  <2>1. CASE NativeSettles(p, q)
    BY <2>1, <1>0, <1>7, <2>0 DEF NativeSettles, Turn, TurnsOf
  <2>2. CASE CompleteBegins(p, q)
    BY <2>2, <1>0, <1>7, <2>0 DEF CompleteBegins, Turn, TurnsOf, AccountTurn
  <2>3. CASE FailureRecorded(p, q)
    BY <2>3, <1>0, <1>7, <2>0 DEF FailureRecorded, Turn, TurnsOf
  <2>. QED BY <1>3, <2>1, <2>2, <2>3 DEF Login
<1>. QED BY <1>1, <1>2, <1>3 DEF Aside

\* A login that waits for its scan has waited before, while the map is the same.
LEMMA WaitingStays ==
  ASSUME Types, OpInv, [Next]_vars, NEW r \in Procs, pend'[r] = pend[r], Waiting(r)'
  PROVE  Waiting(r)
<1>1. pend[r] \in Used \cup {Nothing}
  BY DEF OpInv
<1>. QED BY <1>1, QrStep DEF Waiting, Used

\* A process that neither works for the owner nor holds the lease is fine.
LEMMA SleeperStays ==
  ASSUME Types, OpInv, [Next]_vars, NEW r \in Procs, Same(r),
         Own(r), op[r].at = "idle", ~Uses(r), ~held[r]
  PROVE  Own(r)'
<1>1. ~Waiting(r)'
  BY WaitingStays DEF Uses, Waiting, Same
<1>2. ~Uses(r)'
  BY <1>1 DEF Uses, Waiting, Same
<1>3. op'[r].at = "idle" /\ listens'[r] = {} /\ ~held'[r] /\ ~lost'[r] /\ ~fence'[r].on
  BY DEF Uses, Same, Own, OwnLease
<1>4. OwnLease(r)'
  BY <1>2, <1>3 DEF OwnLease
<1>5. OwnListens(r)' /\ OwnOp(r)'
  BY <1>3 DEF OwnListens, OwnOp, Lonely
<1>. QED BY <1>1, <1>4, <1>5 DEF Own, OwnWait

\* What the login in hand and the stored session must not do to a process that
\* works for the owner.
Undisturbed(r) ==
  /\ redis' = redis
  /\ op[r].at \in {"account", "saveQr"} =>
       native'[op[r].q] = native[op[r].q] /\ stopped'[op[r].q] = stopped[op[r].q]
  /\ Restorable' => Restorable

LEMMA WorkerStays ==
  ASSUME Types, OpInv, [Next]_vars, NEW r \in Procs, Same(r), Own(r), Undisturbed(r)
  PROVE  Own(r)'
<1>1. Waiting(r)' => Waiting(r)
  BY WaitingStays DEF Same
<1>2. Uses(r)' => Uses(r)
  BY <1>1 DEF Uses, Waiting, Same
<1>. USE DEF Same, Own, Undisturbed
<1>3. OwnLease(r)'
  BY <1>2 DEF OwnLease
<1>4. OwnListens(r)'
  BY DEF OwnListens
<1>5. OwnOp(r)'
  BY <1>1 DEF OwnOp, Free
<1>6. OwnWait(r)'
  BY <1>1 DEF OwnWait, Free
<1>. QED BY <1>3, <1>4, <1>5, <1>6

\* While one process holds the lease, or nobody does, the others sleep.
LEMMA OthersSleep ==
  ASSUME Types, \A r \in Procs : Own(r), NEW p \in Procs, held[p] \/ redis = Nothing
  PROVE  \A r \in Procs \ {p} : op[r].at = "idle" /\ ~Uses(r) /\ ~held[r]
<1>. SUFFICES ASSUME NEW r \in Procs \ {p}
              PROVE  op[r].at = "idle" /\ ~Uses(r) /\ ~held[r]
  OBVIOUS
<1>1. ~held[r]
  BY DEF Own, OwnLease
<1>. QED BY <1>1 DEF Own, OwnLease

\* Whoever does not hold the lease nor finds it free moves only so.
Outsider(p) ==
  \/ UNCHANGED <<op, redis, native, stopped>> /\ (Restorable' => Restorable)
  \/ Crashes(p)
LEMMA Entering ==
  ASSUME Types, \A r \in Procs : Own(r), Quiet, Quiet', [Next]_vars, NEW p \in Procs
  PROVE  /\ Operation(p) => held[p] \/ redis = Nothing \/ Outsider(p)
         /\ Aside(p) => held[p] \/ redis = Nothing \/ Outsider(p)
<1>. DEFINE EnterGoal == held[p] \/ redis = Nothing \/ Outsider(p)
<1>0. op[p].at # "idle" => held[p]
  BY DEF Own, OwnLease
<1>7. \A code : MarkError(code) \/ UNCHANGED doc => (Restorable' => Restorable)
  BY DEF MarkError, Restorable, Types, CountTypes, Docs
<1>8. ~fence[p].on /\ (listens[p] # {} => held[p])
  BY DEF Own, OwnLease, Uses
<1>9. ~Fault
  BY QuietStep
<1>. USE DEF mapVars, taskVars, loginVars
<1>. HIDE DEF EnterGoal
<1>1. ASSUME Operation(p) PROVE EnterGoal
  <2>1. CASE QrRefused(p)
    BY <2>1, <1>0 DEF QrRefused, CanEnter, EnterGoal
  <2>2. CASE QrReplaces(p)
    BY <2>2, <1>0 DEF QrReplaces, CanEnter, EnterGoal
  <2>3. CASE QrDisposed(p)
    BY <2>3, <1>0 DEF QrDisposed, CanEnter, EnterGoal
  <2>4. CASE QrLooksUp(p)
    BY <2>4, <1>0 DEF QrLooksUp, CanEnter, EnterGoal
  <2>5. CASE QrStarts(p)
    BY <2>5, <1>0 DEF QrStarts, CanEnter, EnterGoal
  <2>6. CASE LogoutBegins(p)
    BY <2>6, <1>0 DEF LogoutBegins, CanEnter, EnterGoal
  <2>7. CASE LogoutStopFails(p)
    BY <2>7, <1>0 DEF LogoutStopFails, CanEnter, EnterGoal
  <2>8. CASE LogoutStops(p)
    BY <2>8, <1>0 DEF LogoutStops, CanEnter, EnterGoal
  <2>9. CASE LogoutWaited(p)
    BY <2>9, <1>0 DEF LogoutWaited, CanEnter, EnterGoal
  <2>10. CASE LogoutDeletes(p)
    BY <2>10, <1>0 DEF LogoutDeletes, CanEnter, EnterGoal
  <2>11. CASE SaveError(p)
    BY <2>11, <1>0 DEF SaveError, CanEnter, EnterGoal
  <2>12. CASE SendFinds(p)
    BY <2>12, <1>0 DEF SendFinds, CanEnter, EnterGoal
  <2>13. CASE SendRestores(p)
    BY <2>13, <1>0 DEF SendRestores, CanEnter, EnterGoal
  <2>14. CASE BootReads(p)
    BY <2>14, <1>0, <1>7, <1>9 DEF BootReads, CanEnter, EnterGoal, Outsider, KeepLease
  <2>15. CASE BootRestores(p)
    BY <2>15, <1>0, <1>7, <1>9 DEF BootRestores, CanEnter, EnterGoal, Outsider, KeepLease
  <2>16. CASE BootSavesError(p)
    BY <2>16, <1>0, <1>7, <1>9 DEF BootSavesError, CanEnter, EnterGoal, Outsider, KeepLease
  <2>17. CASE RestoreLogsIn(p)
    BY <2>17, <1>0 DEF RestoreLogsIn, CanEnter, EnterGoal
  <2>18. CASE RestoreSaves(p)
    BY <2>18, <1>0 DEF RestoreSaves, CanEnter, EnterGoal
  <2>19. CASE RestoreEnds(p)
    BY <2>19, <1>0 DEF RestoreEnds, CanEnter, EnterGoal
  <2>20. CASE CompleteListens(p)
    BY <2>20, <1>0 DEF CompleteListens, CanEnter, EnterGoal
  <2>21. CASE CompleteSaves(p)
    BY <2>21, <1>0 DEF CompleteSaves, CanEnter, EnterGoal
  <2>22. CASE CompensationDeletes(p)
    BY <2>22, <1>0 DEF CompensationDeletes, CanEnter, EnterGoal
  <2>. QED BY <1>1, <2>1, <2>2, <2>3, <2>4, <2>5, <2>6, <2>7, <2>8, <2>9, <2>10, <2>11, <2>12,
              <2>13, <2>14, <2>15, <2>16, <2>17, <2>18, <2>19, <2>20, <2>21, <2>22 DEF Operation
<1>2. ASSUME LeaseIsLost(p) \/ FenceEnds(p) \/ ListenerCloses(p) \/ ListenerClosed(p)
        \/ Crashes(p) \/ ShutsDown(p)
      PROVE  EnterGoal
  <2>1. CASE LeaseIsLost(p)
    BY <2>1, <1>0 DEF LeaseIsLost, CanEnter, EnterGoal
  <2>2. CASE FenceEnds(p)
    BY <2>2, <1>0, <1>8 DEF FenceEnds, CanEnter, EnterGoal
  <2>3. CASE ListenerCloses(p)
    BY <2>3, <1>0, <1>8 DEF ListenerCloses, CanEnter, EnterGoal
  <2>4. CASE ListenerClosed(p)
    BY <2>4, <1>0, <1>7, <1>9 DEF ListenerClosed, CanEnter, EnterGoal, Outsider, KeepLease
  <2>5. CASE Crashes(p)
    BY <2>5, <1>0 DEF Crashes, CanEnter, EnterGoal, Outsider
  <2>6. CASE ShutsDown(p)
    BY <2>6, <1>0 DEF ShutsDown, CanEnter, EnterGoal
  <2>. QED BY <1>2, <2>1, <2>2, <2>3, <2>4, <2>5, <2>6
<1>. QED BY <1>1, <1>2 DEF EnterGoal, Aside

\* No step of one process disturbs another.
LEMMA OthersOwn ==
  ASSUME Types, OpInv, \A r \in Procs : Own(r), Quiet, Quiet', [Next]_vars, NEW p \in Procs,
         Operation(p) \/ Aside(p) \/ \E q \in Logins : Login(p, q)
  PROVE  \A r \in Procs \ {p} : Own(r)'
<1>. SUFFICES ASSUME NEW r \in Procs \ {p} PROVE Own(r)'
  OBVIOUS
<1>0. OthersSame(p)
  BY OthersStay
<1>1. Same(r)
  BY <1>0 DEF OthersSame
<1>2. CASE held[p] \/ redis = Nothing
  BY <1>1, <1>2, OthersSleep, SleeperStays
<1>3. CASE Outsider(p)
  <2>1. op[r].at \in {"account", "saveQr"} => native[op[r].q] = "done" /\ op[r].q \in Logins
    BY DEF Own, OwnOp, OpInv, Knows, Used
  <2>2. Undisturbed(r)
    BY <1>3, <2>1 DEF Outsider, Undisturbed, Crashes, Ends, loginVars, Restorable
  <2>. QED BY <1>1, <2>2, WorkerStays
<1>4. ASSUME NEW q \in Logins, Login(p, q) PROVE Own(r)'
  <2>1. CASE CompleteBegins(p, q) \/ FailureRecorded(p, q)
    <3>1. held[p] \/ redis = Nothing
      BY <2>1 DEF CompleteBegins, FailureRecorded, CanEnter
    <3>. QED BY <3>1, <1>2
  <2>2. CASE NativeSettles(p, q)
    <3>1. op[r].at \in {"account", "saveQr"} => op[r].q # q
      BY <2>2 DEF NativeSettles, Own, OwnOp
    <3>2. /\ native \in [Logins -> {"none", "running", "resolved", "failed", "done"}]
          /\ stopped \in [Logins -> BOOLEAN]
      BY DEF Types, NativeTypes
    <3>3. op[r].at \in {"account", "saveQr"} => op[r].q \in Logins
      BY DEF OpInv, Knows, Used
    <3>4. Undisturbed(r)
      BY <2>2, <3>1, <3>2, <3>3 DEF NativeSettles, Undisturbed, Restorable, mapVars
    <3>. QED BY <1>1, <3>4, WorkerStays
  <2>. QED BY <1>4, <2>1, <2>2 DEF Login
<1>5. held[p] \/ redis = Nothing \/ Outsider(p) \/ \E q \in Logins : Login(p, q)
  BY Entering
<1>. QED BY <1>2, <1>3, <1>4, <1>5
-----------------------------------------------------------------------------
(* The process that moves.                                                  *)

\* At the end of an operation nothing is left that needs the lease, or the
\* lease is kept.
LEMMA Leaving ==
  ASSUME Types, NEW p \in Procs, Own(p), op[p].at # "idle", fence'[p] = fence[p],
         NEW ok, LeaveQueue(p, ok), \A api \in listens'[p] : active'[p] = api /\ api # Nothing
  PROVE  OwnLease(p)' /\ OwnListens(p)' /\ OwnOp(p)' /\ op'[p].at = "idle"
<1>1. op'[p].at = "idle"
  BY Turns DEF TurnsOf, Turn
<1>2. held[p] /\ redis = p /\ ~lost[p] /\ ~fence[p].on
  BY DEF Own, OwnLease
<1>3. /\ held \in [Procs -> BOOLEAN] /\ lost \in [Procs -> BOOLEAN]
  BY DEF Types, LeaseTypes
<1>4. ~Retains(p, ok)' => ~Uses(p)'
  BY DEF Retains, Uses
<1>5. IF ~Retains(p, ok)' /\ held[p] THEN Release(p) ELSE KeepLease
  BY DEF LeaveQueue
<1>6. OwnLease(p)'
  BY <1>1, <1>2, <1>3, <1>4, <1>5 DEF OwnLease, Release, KeepLease
<1>. QED BY <1>1, <1>6 DEF OwnListens, OwnOp, Lonely

LEMMA LeavingAtOnce ==
  ASSUME Types, NEW p \in Procs, Own(p), CanEnter(p), fence'[p] = fence[p], LeaveAtOnce(p),
         active'[p] = active[p], listens'[p] \subseteq listens[p]
  PROVE  OwnLease(p)' /\ OwnListens(p)' /\ OwnOp(p)' /\ op'[p].at = "idle"
<1>1. op[p].at = "idle" /\ op'[p].at = "idle"
  BY Turns DEF TurnsOf, Turn, CanEnter
<1>2. (held[p] => redis = p) /\ ~lost[p] /\ ~fence[p].on
  BY DEF Own, OwnLease
<1>3. /\ held \in [Procs -> BOOLEAN] /\ lost \in [Procs -> BOOLEAN]
  BY DEF Types, LeaseTypes
<1>4. \A api \in listens[p] : active[p] = api /\ api # Nothing
  BY <1>1 DEF Own, OwnListens, Types, ApiTypes, Apis
<1>5. ~Retains(p, TRUE)' => ~Uses(p)'
  BY <1>4 DEF Retains, Uses
<1>6. IF Retains(p, TRUE)' THEN TakeLease(p)
      ELSE IF held[p] THEN Release(p)
      ELSE UNCHANGED <<held, lost>> /\ redis' \in {redis, p}
  BY DEF LeaveAtOnce
<1>7. OwnLease(p)'
  BY <1>1, <1>2, <1>3, <1>5, <1>6 DEF OwnLease, Release, TakeLease
<1>8. OwnListens(p)'
  BY <1>4 DEF OwnListens
<1>. QED BY <1>1, <1>7, <1>8 DEF OwnOp, Lonely

\* What one process does leaves it in order.
LEMMA MoverOwn ==
  ASSUME Types, OpInv, \A r \in Procs : Own(r), \A q \in Logins : Whole(q),
         Quiet, Quiet', [Next]_vars, NEW p \in Procs
  PROVE  /\ Operation(p) \/ Aside(p) => Own(p)'
         /\ \A q \in Logins : Login(p, q) => Own(p)'
<1>. USE DEF mapVars, taskVars, loginVars, boundVars, history, ClearMaps, StopApi, TakeLease,
             KeepLease, CanEnter, Turn, TurnsOf
<1>0. /\ held \in [Procs -> BOOLEAN] /\ lost \in [Procs -> BOOLEAN]
      /\ pend \in [Procs -> Logins \cup {Nothing}] /\ active \in [Procs -> Apis \cup {Nothing}]
      /\ listens \in [Procs -> SUBSET Apis] /\ fence \in [Procs -> Fences]
  BY DEF Types, LeaseTypes, MapTypes, ApiTypes, TaskTypes
<1>1. OwnLease(p) /\ OwnListens(p) /\ OwnOp(p) /\ OwnWait(p)
  BY DEF Own
<1>2. ~Fault /\ slips' = {} /\ losses' = losses /\ slips = {} /\ losses = 0
      /\ faults' = faults /\ faults = 0
  BY QuietStep DEF Quiet
<1>3. \A ok : /\ fence'[p] = fence[p] /\ op[p].at # "idle" /\ LeaveQueue(p, ok)
              /\ (\A api \in listens'[p] : active'[p] = api /\ api # Nothing)
              => OwnLease(p)' /\ OwnListens(p)' /\ OwnOp(p)' /\ op'[p].at = "idle"
  BY <1>1, Leaving DEF Own
<1>4. /\ CanEnter(p) /\ fence'[p] = fence[p] /\ LeaveAtOnce(p)
      /\ active'[p] = active[p] /\ listens'[p] \subseteq listens[p]
      => OwnLease(p)' /\ OwnListens(p)' /\ OwnOp(p)' /\ op'[p].at = "idle"
  BY <1>1, LeavingAtOnce DEF Own
<1>5. pend'[p] = pend[p] => (Waiting(p)' => Waiting(p))
  BY WaitingStays
<1>6. \A code : MarkError(code) \/ UNCHANGED doc => (Restorable' => Restorable)
  BY DEF MarkError, Restorable, Types, CountTypes, Docs
<1>7. Nothing \notin Apis /\ Nothing \notin Logins
  BY DEF Apis
<1>8. /\ qr \in [Logins -> States] /\ stopped \in [Logins -> BOOLEAN]
      /\ native \in [Logins -> {"none", "running", "resolved", "failed", "done"}]
      /\ closing \in [Procs -> Apis \cup {Nothing}]
  BY DEF Types, CancelTypes, NativeTypes, TaskTypes
<1>9. /\ pend[p] \in Logins \cup {Nothing}
      /\ op[p].at \in {"account", "saveQr", "compensate"} => op[p].q \in Logins
  BY <1>0 DEF OpInv, Knows, Used
<1>10. \A api \in listens[p] :
         api # Nothing /\ (op[p].at \notin {"restoreSave", "saveQr"} => active[p] = api)
  BY <1>0, <1>1, <1>7 DEF OwnListens
<1>11. ASSUME Operation(p) PROVE Own(p)'
  <2>0. TurnsOf(p)
    BY Turns
  <2>1. CASE QrRefused(p)
    <3>1. OwnLease(p)'
      BY <2>1, <1>0, <1>1, <1>2, <1>3, <1>4, <1>5, <1>6, <1>7, <1>8, <1>9, <1>10, <2>0
         DEF QrRefused, OwnLease, Uses
    <3>2. OwnListens(p)'
      BY <2>1, <1>0, <1>1, <1>2, <1>3, <1>4, <1>5, <1>6, <1>7, <1>8, <1>9, <1>10, <2>0
         DEF QrRefused, OwnListens
    <3>3. OwnOp(p)'
      BY <2>1, <1>0, <1>1, <1>2, <1>3, <1>4, <1>5, <1>6, <1>7, <1>8, <1>9, <1>10, <2>0
         DEF QrRefused, OwnOp, Lonely, Free, Waiting
    <3>4. OwnWait(p)'
      BY <2>1, <1>0, <1>1, <1>2, <1>3, <1>4, <1>5, <1>6, <1>7, <1>8, <1>9, <1>10, <2>0
         DEF QrRefused, OwnWait, Free, Waiting
    <3>. QED BY <3>1, <3>2, <3>3, <3>4 DEF Own
  <2>2. CASE QrReplaces(p)
    <3>1. OwnLease(p)'
      BY <2>2, <1>0, <1>1, <1>2, <1>3, <1>4, <1>5, <1>6, <1>7, <1>8, <1>9, <1>10, <2>0
         DEF QrReplaces, OwnLease, Uses
    <3>2. OwnListens(p)'
      BY <2>2, <1>0, <1>1, <1>2, <1>3, <1>4, <1>5, <1>6, <1>7, <1>8, <1>9, <1>10, <2>0
         DEF QrReplaces, OwnListens, OwnOp, OwnWait, Lonely, Free, Waiting, StopLogin
    <3>3. OwnOp(p)'
      BY <2>2, <1>0, <1>1, <1>2, <1>3, <1>4, <1>5, <1>6, <1>7, <1>8, <1>9, <1>10, <2>0
         DEF QrReplaces, OwnListens, OwnOp, OwnWait, Lonely, Free, Waiting, CancelLogin, Outdated
    <3>4. OwnWait(p)'
      BY <2>2, <1>0, <1>1, <1>2, <1>3, <1>4, <1>5, <1>6, <1>7, <1>8, <1>9, <1>10, <2>0
         DEF QrReplaces, OwnWait, Free, Waiting
    <3>. QED BY <3>1, <3>2, <3>3, <3>4 DEF Own
  <2>3. CASE QrDisposed(p)
    <3>1. OwnLease(p)'
      BY <2>3, <1>0, <1>1, <1>2, <1>3, <1>4, <1>5, <1>6, <1>7, <1>8, <1>9, <1>10, <2>0
         DEF QrDisposed, OwnLease, Uses
    <3>2. OwnListens(p)'
      BY <2>3, <1>0, <1>1, <1>2, <1>3, <1>4, <1>5, <1>6, <1>7, <1>8, <1>9, <1>10, <2>0
         DEF QrDisposed, OwnListens
    <3>3. OwnOp(p)'
      BY <2>3, <1>0, <1>1, <1>2, <1>3, <1>4, <1>5, <1>6, <1>7, <1>8, <1>9, <1>10, <2>0
         DEF QrDisposed, OwnOp, Lonely, Free, Waiting
    <3>4. OwnWait(p)'
      BY <2>3, <1>0, <1>1, <1>2, <1>3, <1>4, <1>5, <1>6, <1>7, <1>8, <1>9, <1>10, <2>0
         DEF QrDisposed, OwnWait, Free, Waiting
    <3>. QED BY <3>1, <3>2, <3>3, <3>4 DEF Own
  <2>4. CASE QrLooksUp(p)
    <3>1. OwnLease(p)'
      BY <2>4, <1>0, <1>1, <1>2, <1>3, <1>4, <1>5, <1>6, <1>7, <1>8, <1>9, <1>10, <2>0
         DEF QrLooksUp, OwnLease, Uses
    <3>2. OwnListens(p)'
      BY <2>4, <1>0, <1>1, <1>2, <1>3, <1>4, <1>5, <1>6, <1>7, <1>8, <1>9, <1>10, <2>0
         DEF QrLooksUp, OwnListens
    <3>3. OwnOp(p)'
      BY <2>4, <1>0, <1>1, <1>2, <1>3, <1>4, <1>5, <1>6, <1>7, <1>8, <1>9, <1>10, <2>0
         DEF QrLooksUp, OwnOp, Lonely, Free, Waiting
    <3>4. OwnWait(p)'
      BY <2>4, <1>0, <1>1, <1>2, <1>3, <1>4, <1>5, <1>6, <1>7, <1>8, <1>9, <1>10, <2>0
         DEF QrLooksUp, OwnWait, Free, Waiting
    <3>. QED BY <3>1, <3>2, <3>3, <3>4 DEF Own
  <2>5. CASE QrStarts(p)
    <3>1. OwnLease(p)'
      BY <2>5, <1>0, <1>1, <1>2, <1>3, <1>4, <1>5, <1>6, <1>7, <1>8, <1>9, <1>10, <2>0
         DEF QrStarts, OwnLease, Uses
    <3>2. OwnListens(p)'
      BY <2>5, <1>0, <1>1, <1>2, <1>3, <1>4, <1>5, <1>6, <1>7, <1>8, <1>9, <1>10, <2>0
         DEF QrStarts, OwnListens
    <3>3. OwnOp(p)'
      BY <2>5, <1>0, <1>1, <1>2, <1>3, <1>4, <1>5, <1>6, <1>7, <1>8, <1>9, <1>10, <2>0
         DEF QrStarts, OwnOp, Lonely, Free, Waiting
    <3>4. OwnWait(p)'
      BY <2>5, <1>0, <1>1, <1>2, <1>3, <1>4, <1>5, <1>6, <1>7, <1>8, <1>9, <1>10, <2>0
         DEF QrStarts, OwnListens, OwnOp, OwnWait, Lonely, Free, Waiting, QrAllowed, Restorable
    <3>. QED BY <3>1, <3>2, <3>3, <3>4 DEF Own
  <2>6. CASE LogoutBegins(p)
    <3>1. OwnLease(p)'
      BY <2>6, <1>0, <1>1, <1>2, <1>3, <1>4, <1>5, <1>6, <1>7, <1>8, <1>9, <1>10, <2>0
         DEF LogoutBegins, OwnLease, Uses
    <3>2. OwnListens(p)'
      BY <2>6, <1>0, <1>1, <1>2, <1>3, <1>4, <1>5, <1>6, <1>7, <1>8, <1>9, <1>10, <2>0
         DEF LogoutBegins, OwnListens
    <3>3. OwnOp(p)'
      BY <2>6, <1>0, <1>1, <1>2, <1>3, <1>4, <1>5, <1>6, <1>7, <1>8, <1>9, <1>10, <2>0
         DEF LogoutBegins, OwnOp, Lonely, Free, Waiting
    <3>4. OwnWait(p)'
      BY <2>6, <1>0, <1>1, <1>2, <1>3, <1>4, <1>5, <1>6, <1>7, <1>8, <1>9, <1>10, <2>0
         DEF LogoutBegins, OwnWait, Free, Waiting
    <3>. QED BY <3>1, <3>2, <3>3, <3>4 DEF Own
  <2>7. CASE LogoutStopFails(p)
    <3>1. OwnLease(p)'
      BY <2>7, <1>0, <1>1, <1>2, <1>3, <1>4, <1>5, <1>6, <1>7, <1>8, <1>9, <1>10, <2>0
         DEF LogoutStopFails, OwnLease, Uses
    <3>2. OwnListens(p)'
      BY <2>7, <1>0, <1>1, <1>2, <1>3, <1>4, <1>5, <1>6, <1>7, <1>8, <1>9, <1>10, <2>0
         DEF LogoutStopFails, OwnListens
    <3>3. OwnOp(p)'
      BY <2>7, <1>0, <1>1, <1>2, <1>3, <1>4, <1>5, <1>6, <1>7, <1>8, <1>9, <1>10, <2>0
         DEF LogoutStopFails, OwnOp, Lonely, Free, Waiting
    <3>4. OwnWait(p)'
      BY <2>7, <1>0, <1>1, <1>2, <1>3, <1>4, <1>5, <1>6, <1>7, <1>8, <1>9, <1>10, <2>0
         DEF LogoutStopFails, OwnWait, Free, Waiting
    <3>. QED BY <3>1, <3>2, <3>3, <3>4 DEF Own
  <2>8. CASE LogoutStops(p)
    <3>1. OwnLease(p)'
      BY <2>8, <1>0, <1>1, <1>2, <1>3, <1>4, <1>5, <1>6, <1>7, <1>8, <1>9, <1>10, <2>0
         DEF LogoutStops, OwnLease, Uses
    <3>2. OwnListens(p)'
      BY <2>8, <1>0, <1>1, <1>2, <1>3, <1>4, <1>5, <1>6, <1>7, <1>8, <1>9, <1>10, <2>0
         DEF LogoutStops, OwnListens, OwnOp, OwnWait, Lonely, Free, Waiting, StopLogin
    <3>3. OwnOp(p)'
      <4>1. CASE ClearMaps(p) /\ Goto(p, [Idle EXCEPT !.at = "logoutDelete"])
        BY <1>0, <2>0, <4>1 DEF OwnOp, Lonely, Free
      <4>2. CASE /\ op[p].api = Nothing /\ op[p].q # Nothing /\ CancelLogin(op[p].q, "error")
                 /\ Goto(p, [Idle EXCEPT !.at = "logoutWait"]) /\ UNCHANGED <<pend, active>>
        <5>1. pend'[p] = op[p].q /\ active'[p] = Nothing
          BY <2>8, <1>1, <4>2 DEF LogoutStops, OwnOp
        <5>2. op[p].q \in Logins
          BY <2>8, <1>1, <1>9, <4>2 DEF LogoutStops, OwnOp
        <5>3. qr'[op[p].q] = "error"
          BY <1>8, <4>2, <5>2 DEF CancelLogin
        <5>4. op'[p].at = "logoutWait"
          BY <2>0, <4>2
        <5>. QED BY <5>1, <5>3, <5>4 DEF OwnOp, Lonely, Free, Waiting
      <4>. QED BY <2>8, <4>1, <4>2 DEF LogoutStops
    <3>4. OwnWait(p)'
      BY <2>8, <1>0, <1>1, <1>2, <1>3, <1>4, <1>5, <1>6, <1>7, <1>8, <1>9, <1>10, <2>0
         DEF LogoutStops, OwnWait, Free, Waiting
    <3>. QED BY <3>1, <3>2, <3>3, <3>4 DEF Own
  <2>9. CASE LogoutWaited(p)
    <3>1. OwnLease(p)'
      BY <2>9, <1>0, <1>1, <1>2, <1>3, <1>4, <1>5, <1>6, <1>7, <1>8, <1>9, <1>10, <2>0
         DEF LogoutWaited, OwnLease, Uses
    <3>2. OwnListens(p)'
      BY <2>9, <1>0, <1>1, <1>2, <1>3, <1>4, <1>5, <1>6, <1>7, <1>8, <1>9, <1>10, <2>0
         DEF LogoutWaited, OwnListens, OwnOp, OwnWait, Lonely, Free, Waiting
    <3>3. OwnOp(p)'
      BY <2>9, <1>0, <1>1, <1>2, <1>3, <1>4, <1>5, <1>6, <1>7, <1>8, <1>9, <1>10, <2>0
         DEF LogoutWaited, OwnOp, Lonely, Free, Waiting
    <3>4. OwnWait(p)'
      BY <2>9, <1>0, <1>1, <1>2, <1>3, <1>4, <1>5, <1>6, <1>7, <1>8, <1>9, <1>10, <2>0
         DEF LogoutWaited, OwnWait, Free, Waiting
    <3>. QED BY <3>1, <3>2, <3>3, <3>4 DEF Own
  <2>10. CASE LogoutDeletes(p)
    <3>1. OwnLease(p)'
      BY <2>10, <1>0, <1>1, <1>2, <1>3, <1>4, <1>5, <1>6, <1>7, <1>8, <1>9, <1>10, <2>0
         DEF LogoutDeletes, OwnLease, Uses
    <3>2. OwnListens(p)'
      BY <2>10, <1>0, <1>1, <1>2, <1>3, <1>4, <1>5, <1>6, <1>7, <1>8, <1>9, <1>10, <2>0
         DEF LogoutDeletes, OwnListens
    <3>3. OwnOp(p)'
      BY <2>10, <1>0, <1>1, <1>2, <1>3, <1>4, <1>5, <1>6, <1>7, <1>8, <1>9, <1>10, <2>0
         DEF LogoutDeletes, OwnOp, Lonely, Free, Waiting
    <3>4. OwnWait(p)'
      BY <2>10, <1>0, <1>1, <1>2, <1>3, <1>4, <1>5, <1>6, <1>7, <1>8, <1>9, <1>10, <2>0
         DEF LogoutDeletes, OwnListens, OwnOp, OwnWait, Lonely, Free, Waiting
    <3>. QED BY <3>1, <3>2, <3>3, <3>4 DEF Own
  <2>11. CASE SaveError(p)
    <3>1. FALSE
      BY <2>11, <1>1, <1>2 DEF SaveError, OwnLease, OwnOp
    <3>. QED BY <3>1
  <2>12. CASE SendFinds(p)
    <3>1. OwnLease(p)'
      BY <2>12, <1>0, <1>1, <1>2, <1>3, <1>4, <1>5, <1>6, <1>7, <1>8, <1>9, <1>10, <2>0
         DEF SendFinds, OwnLease, Uses
    <3>2. OwnListens(p)'
      BY <2>12, <1>0, <1>1, <1>2, <1>3, <1>4, <1>5, <1>6, <1>7, <1>8, <1>9, <1>10, <2>0
         DEF SendFinds, OwnListens
    <3>3. OwnOp(p)'
      BY <2>12, <1>0, <1>1, <1>2, <1>3, <1>4, <1>5, <1>6, <1>7, <1>8, <1>9, <1>10, <2>0
         DEF SendFinds, OwnOp, Lonely, Free, Waiting
    <3>4. OwnWait(p)'
      BY <2>12, <1>0, <1>1, <1>2, <1>3, <1>4, <1>5, <1>6, <1>7, <1>8, <1>9, <1>10, <2>0
         DEF SendFinds, OwnWait, Free, Waiting
    <3>. QED BY <3>1, <3>2, <3>3, <3>4 DEF Own
  <2>13. CASE SendRestores(p)
    <3>1. OwnLease(p)'
      BY <2>13, <1>0, <1>1, <1>2, <1>3, <1>4, <1>5, <1>6, <1>7, <1>8, <1>9, <1>10, <2>0
         DEF SendRestores, OwnLease, Uses
    <3>2. OwnListens(p)'
      BY <2>13, <1>0, <1>1, <1>2, <1>3, <1>4, <1>5, <1>6, <1>7, <1>8, <1>9, <1>10, <2>0
         DEF SendRestores, OwnListens
    <3>3. OwnOp(p)'
      BY <2>13, <1>0, <1>1, <1>2, <1>3, <1>4, <1>5, <1>6, <1>7, <1>8, <1>9, <1>10, <2>0
         DEF SendRestores, OwnListens, OwnOp, OwnWait, Lonely, Free, Waiting
    <3>4. OwnWait(p)'
      BY <2>13, <1>0, <1>1, <1>2, <1>3, <1>4, <1>5, <1>6, <1>7, <1>8, <1>9, <1>10, <2>0
         DEF SendRestores, OwnWait, Free, Waiting
    <3>. QED BY <3>1, <3>2, <3>3, <3>4 DEF Own
  <2>14. CASE BootReads(p)
    <3>1. OwnLease(p)'
      BY <2>14, <1>0, <1>1, <1>2, <1>3, <1>4, <1>5, <1>6, <1>7, <1>8, <1>9, <1>10, <2>0
         DEF BootReads, OwnLease, Uses
    <3>2. OwnListens(p)'
      BY <2>14, <1>0, <1>1, <1>2, <1>3, <1>4, <1>5, <1>6, <1>7, <1>8, <1>9, <1>10, <2>0
         DEF BootReads, OwnListens
    <3>3. OwnOp(p)'
      BY <2>14, <1>0, <1>1, <1>2, <1>3, <1>4, <1>5, <1>6, <1>7, <1>8, <1>9, <1>10, <2>0
         DEF BootReads, OwnOp, Lonely, Free, Waiting
    <3>4. OwnWait(p)'
      BY <2>14, <1>0, <1>1, <1>2, <1>3, <1>4, <1>5, <1>6, <1>7, <1>8, <1>9, <1>10, <2>0
         DEF BootReads, OwnWait, Free, Waiting
    <3>. QED BY <3>1, <3>2, <3>3, <3>4 DEF Own
  <2>15. CASE BootRestores(p)
    <3>1. OwnLease(p)'
      BY <2>15, <1>0, <1>1, <1>2, <1>3, <1>4, <1>5, <1>6, <1>7, <1>8, <1>9, <1>10, <2>0
         DEF BootRestores, OwnLease, Uses
    <3>2. OwnListens(p)'
      BY <2>15, <1>0, <1>1, <1>2, <1>3, <1>4, <1>5, <1>6, <1>7, <1>8, <1>9, <1>10, <2>0
         DEF BootRestores, OwnListens
    <3>3. OwnOp(p)'
      BY <2>15, <1>0, <1>1, <1>2, <1>3, <1>4, <1>5, <1>6, <1>7, <1>8, <1>9, <1>10, <2>0
         DEF BootRestores, OwnListens, OwnOp, OwnWait, Lonely, Free, Waiting, OwnLease
    <3>4. OwnWait(p)'
      BY <2>15, <1>0, <1>1, <1>2, <1>3, <1>4, <1>5, <1>6, <1>7, <1>8, <1>9, <1>10, <2>0
         DEF BootRestores, OwnWait, Free, Waiting
    <3>. QED BY <3>1, <3>2, <3>3, <3>4 DEF Own
  <2>16. CASE BootSavesError(p)
    <3>1. OwnLease(p)'
      BY <2>16, <1>0, <1>1, <1>2, <1>3, <1>4, <1>5, <1>6, <1>7, <1>8, <1>9, <1>10, <2>0
         DEF BootSavesError, MarkError, OwnLease, Uses
    <3>2. OwnListens(p)'
      BY <2>16, <1>0, <1>1, <1>2, <1>3, <1>4, <1>5, <1>6, <1>7, <1>8, <1>9, <1>10, <2>0
         DEF BootSavesError, MarkError, OwnListens
    <3>3. OwnOp(p)'
      BY <2>16, <1>0, <1>1, <1>2, <1>3, <1>4, <1>5, <1>6, <1>7, <1>8, <1>9, <1>10, <2>0
         DEF BootSavesError, MarkError, OwnOp, Lonely, Free, Waiting
    <3>4. OwnWait(p)'
      BY <2>16, <1>0, <1>1, <1>2, <1>3, <1>4, <1>5, <1>6, <1>7, <1>8, <1>9, <1>10, <2>0
         DEF BootSavesError, MarkError, OwnWait, Free, Waiting
    <3>. QED BY <3>1, <3>2, <3>3, <3>4 DEF Own
  <2>17. CASE RestoreLogsIn(p)
    <3>1. OwnLease(p)'
      BY <2>17, <1>0, <1>1, <1>2, <1>3, <1>4, <1>5, <1>6, <1>7, <1>8, <1>9, <1>10, <2>0
         DEF RestoreLogsIn, NextAttempt, OwnLease, Uses
    <3>2. OwnListens(p)'
      <4>1. listens[p] = {}
        BY <2>17, <1>1, <1>10 DEF RestoreLogsIn, OwnOp, Lonely, Free
      <4>2. CASE /\ listens' = [listens EXCEPT ![p] = listens[p] \cup {restored[p] + 1}]
                 /\ Goto(p, [op[p] EXCEPT !.at = "restoreSave", !.api = restored[p] + 1])
        BY <1>0, <2>0, <4>1, <4>2 DEF OwnListens
      <4>3. CASE UNCHANGED listens
        BY <4>1, <4>3 DEF OwnListens
      <4>. QED BY <2>17, <4>2, <4>3 DEF RestoreLogsIn
    <3>3. OwnOp(p)'
      BY <2>17, <1>0, <1>1, <1>2, <1>3, <1>4, <1>5, <1>6, <1>7, <1>8, <1>9, <1>10, <2>0
         DEF RestoreLogsIn, NextAttempt, OwnOp, Lonely, Free, Waiting
    <3>4. OwnWait(p)'
      BY <2>17, <1>0, <1>1, <1>2, <1>3, <1>4, <1>5, <1>6, <1>7, <1>8, <1>9, <1>10, <2>0
         DEF RestoreLogsIn, NextAttempt, OwnWait, Free, Waiting
    <3>. QED BY <3>1, <3>2, <3>3, <3>4 DEF Own
  <2>18. CASE RestoreSaves(p)
    <3>1. OwnLease(p)'
      BY <2>18, <1>0, <1>1, <1>2, <1>3, <1>4, <1>5, <1>6, <1>7, <1>8, <1>9, <1>10, <2>0
         DEF RestoreSaves, NextAttempt, OwnLease, Uses
    <3>2. OwnListens(p)'
      <4>1. /\ op[p].at = "restoreSave"
            /\ active' = [active EXCEPT ![p] = op[p].api] /\ UNCHANGED <<listens, pend, qr>>
            /\ Goto(p, [Idle EXCEPT !.at = "avatars"])
        BY <2>18, <1>2 DEF RestoreSaves
      <4>2. \A api \in listens[p] : api = op[p].api
        BY <4>1, <1>1, <1>10 DEF OwnListens, OwnOp, Lonely, Free
      <4>. QED BY <1>0, <4>1, <4>2 DEF OwnListens
    <3>3. OwnOp(p)'
      <4>1. /\ op[p].at = "restoreSave"
            /\ active' = [active EXCEPT ![p] = op[p].api] /\ UNCHANGED <<listens, pend, qr>>
            /\ Goto(p, [Idle EXCEPT !.at = "avatars"])
        BY <2>18, <1>2 DEF RestoreSaves
      <4>2. op'[p].at = "avatars"
        BY <2>0, <4>1
      <4>. QED BY <4>2 DEF OwnOp, Lonely
    <3>4. OwnWait(p)'
      <4>1. /\ op[p].at = "restoreSave"
            /\ active' = [active EXCEPT ![p] = op[p].api] /\ UNCHANGED <<listens, pend, qr>>
            /\ Goto(p, [Idle EXCEPT !.at = "avatars"])
        BY <2>18, <1>2 DEF RestoreSaves
      <4>2. ~Waiting(p)
        BY <4>1, <1>1 DEF OwnOp
      <4>. QED BY <4>1, <4>2 DEF OwnWait, Waiting
    <3>. QED BY <3>1, <3>2, <3>3, <3>4 DEF Own
  <2>19. CASE RestoreEnds(p)
    <3>1. OwnLease(p)'
      BY <2>19, <1>0, <1>1, <1>2, <1>3, <1>4, <1>5, <1>6, <1>7, <1>8, <1>9, <1>10, <2>0
         DEF RestoreEnds, OwnLease, Uses
    <3>2. OwnListens(p)'
      BY <2>19, <1>0, <1>1, <1>2, <1>3, <1>4, <1>5, <1>6, <1>7, <1>8, <1>9, <1>10, <2>0
         DEF RestoreEnds, OwnListens
    <3>3. OwnOp(p)'
      BY <2>19, <1>0, <1>1, <1>2, <1>3, <1>4, <1>5, <1>6, <1>7, <1>8, <1>9, <1>10, <2>0
         DEF RestoreEnds, OwnOp, Lonely, Free, Waiting
    <3>4. OwnWait(p)'
      BY <2>19, <1>0, <1>1, <1>2, <1>3, <1>4, <1>5, <1>6, <1>7, <1>8, <1>9, <1>10, <2>0
         DEF RestoreEnds, OwnWait, Free, Waiting
    <3>. QED BY <3>1, <3>2, <3>3, <3>4 DEF Own
  <2>20. CASE CompleteListens(p)
    <3>1. OwnLease(p)'
      <4>1. listens[p] = {}
        BY <2>20, <1>1, <1>10 DEF CompleteListens, OwnOp, Lonely, Free
      <4>2. CASE Goto(p, [op[p] EXCEPT !.at = "saveQr"]) /\ KeepLease
        BY <2>20, <1>1, <2>0, <4>2 DEF CompleteListens, OwnLease
      <4>3. CASE \E ok \in BOOLEAN : LeaveQueue(p, ok)
              /\ (StopLogin(p, op[p].q) \/ UNCHANGED listens)
        <5>1. listens'[p] = {}
          BY <1>0, <4>1, <4>3 DEF StopLogin
        <5>. QED BY <2>20, <1>3, <4>3, <5>1 DEF CompleteListens
      <4>. QED BY <2>20, <1>2, <4>2, <4>3 DEF CompleteListens
    <3>2. OwnListens(p)'
      <4>1. listens[p] = {}
        BY <2>20, <1>1, <1>10 DEF CompleteListens, OwnOp, Lonely, Free
      <4>2. CASE /\ Goto(p, [op[p] EXCEPT !.at = "saveQr"])
                 /\ listens' = [listens EXCEPT ![p] = listens[p] \cup {op[p].q}]
        BY <1>0, <2>0, <4>1, <4>2 DEF OwnListens
      <4>3. CASE StopLogin(p, op[p].q) \/ UNCHANGED listens
        BY <1>0, <4>1, <4>3 DEF OwnListens, StopLogin
      <4>. QED BY <2>20, <1>2, <4>2, <4>3 DEF CompleteListens
    <3>3. OwnOp(p)'
      BY <2>20, <1>0, <1>1, <1>2, <1>3, <1>4, <1>5, <1>6, <1>7, <1>8, <1>9, <1>10, <2>0
         DEF CompleteListens, ReadyForListener, IsPendingReady, StopLogin, HasApi, OwnOp, Lonely,
         Free, Waiting
    <3>4. OwnWait(p)'
      BY <2>20, <1>0, <1>1, <1>2, <1>3, <1>4, <1>5, <1>6, <1>7, <1>8, <1>9, <1>10, <2>0
         DEF CompleteListens, ReadyForListener, IsPendingReady, StopLogin, HasApi, OwnWait, Free,
         Waiting
    <3>. QED BY <3>1, <3>2, <3>3, <3>4 DEF Own
  <2>21. CASE CompleteSaves(p)
    <3>1. OwnLease(p)'
      BY <2>21, <1>0, <1>1, <1>2, <1>3, <1>4, <1>5, <1>6, <1>7, <1>8, <1>9, <1>10, <2>0
         DEF CompleteSaves, FailCompensation, OwnLease, Uses, OwnListens, OwnOp, Lonely, Free,
         StopLogin, HasApi
    <3>2. OwnListens(p)'
      <4>1. HasApi(op[p].q)
        BY <2>21, <1>1 DEF CompleteSaves, OwnOp, HasApi
      <4>2. \A api \in listens[p] : api = op[p].q
        BY <2>21, <1>1, <1>10 DEF CompleteSaves, OwnListens, OwnOp, Lonely, Free
      <4>3. CASE active' = [active EXCEPT ![p] = op[p].q] /\ UNCHANGED listens
        BY <1>0, <4>2, <4>3 DEF OwnListens
      <4>4. CASE StopLogin(p, op[p].q)
        BY <1>0, <4>1, <4>2, <4>4 DEF OwnListens, StopLogin
      <4>. QED BY <2>21, <1>2, <4>3, <4>4 DEF CompleteSaves
    <3>3. OwnOp(p)'
      BY <2>21, <1>0, <1>1, <1>2, <1>3, <1>4, <1>5, <1>6, <1>7, <1>8, <1>9, <1>10, <2>0
         DEF CompleteSaves, FailCompensation, OwnOp, Lonely, Free, Waiting
    <3>4. OwnWait(p)'
      BY <2>21, <1>0, <1>1, <1>2, <1>3, <1>4, <1>5, <1>6, <1>7, <1>8, <1>9, <1>10, <2>0
         DEF CompleteSaves, FailCompensation, OwnOp, OwnWait, Lonely, Free, Waiting,
         IsPendingReady
    <3>. QED BY <3>1, <3>2, <3>3, <3>4 DEF Own
  <2>22. CASE CompensationDeletes(p)
    <3>1. OwnLease(p)'
      BY <2>22, <1>0, <1>1, <1>2, <1>3, <1>4, <1>5, <1>6, <1>7, <1>8, <1>9, <1>10, <2>0
         DEF CompensationDeletes, FailCompensation, OwnLease, Uses
    <3>2. OwnListens(p)'
      BY <2>22, <1>0, <1>1, <1>2, <1>3, <1>4, <1>5, <1>6, <1>7, <1>8, <1>9, <1>10, <2>0
         DEF CompensationDeletes, FailCompensation, OwnListens
    <3>3. OwnOp(p)'
      BY <2>22, <1>0, <1>1, <1>2, <1>3, <1>4, <1>5, <1>6, <1>7, <1>8, <1>9, <1>10, <2>0
         DEF CompensationDeletes, FailCompensation, OwnOp, Lonely, Free, Waiting
    <3>4. OwnWait(p)'
      <4>1. doc' = NoDoc /\ active' = active
        BY <2>22, <1>2 DEF CompensationDeletes
      <4>2. ~Restorable'
        BY <4>1 DEF NoDoc, Restorable
      <4>3. Free(p)'
        BY <2>22, <1>1, <4>1 DEF CompensationDeletes, OwnOp, Lonely, Free
      <4>. QED BY <4>2, <4>3 DEF OwnWait
    <3>. QED BY <3>1, <3>2, <3>3, <3>4 DEF Own
  <2>. QED BY <1>11, <2>1, <2>2, <2>3, <2>4, <2>5, <2>6, <2>7, <2>8, <2>9, <2>10, <2>11, <2>12,
              <2>13, <2>14, <2>15, <2>16, <2>17, <2>18, <2>19, <2>20, <2>21, <2>22 DEF Operation
<1>12. ASSUME LeaseIsLost(p) \/ FenceEnds(p) \/ ListenerCloses(p) \/ ListenerClosed(p)
        \/ Crashes(p) \/ ShutsDown(p)
      PROVE  Own(p)'
  <2>0. TurnsOf(p)
    BY Turns
  <2>1. CASE LeaseIsLost(p)
    <3>1. FALSE
      BY <2>1, <1>1, <1>2 DEF LeaseIsLost, OwnLease, OwnOp
    <3>. QED BY <3>1
  <2>2. CASE FenceEnds(p)
    <3>1. FALSE
      BY <2>2, <1>1, <1>2 DEF FenceEnds, OwnLease, OwnOp
    <3>. QED BY <3>1
  <2>3. CASE ListenerCloses(p)
    <3>1. OwnLease(p)'
      BY <2>3, <1>0, <1>1, <1>2, <1>3, <1>4, <1>5, <1>6, <1>7, <1>8, <1>9, <1>10, <2>0
         DEF ListenerCloses, OwnLease, Uses
    <3>2. OwnListens(p)'
      BY <2>3, <1>0, <1>1, <1>2, <1>3, <1>4, <1>5, <1>6, <1>7, <1>8, <1>9, <1>10, <2>0
         DEF ListenerCloses, OwnListens
    <3>3. OwnOp(p)'
      BY <2>3, <1>0, <1>1, <1>2, <1>3, <1>4, <1>5, <1>6, <1>7, <1>8, <1>9, <1>10, <2>0
         DEF ListenerCloses, OwnOp, Lonely, Free, Waiting
    <3>4. OwnWait(p)'
      BY <2>3, <1>0, <1>1, <1>2, <1>3, <1>4, <1>5, <1>6, <1>7, <1>8, <1>9, <1>10, <2>0
         DEF ListenerCloses, OwnWait, Free, Waiting
    <3>. QED BY <3>1, <3>2, <3>3, <3>4 DEF Own
  <2>4. CASE ListenerClosed(p)
    <3>1. OwnLease(p)'
      BY <2>4, <1>0, <1>1, <1>2, <1>3, <1>4, <1>5, <1>6, <1>7, <1>8, <1>9, <1>10, <2>0
         DEF ListenerClosed, MarkError, Release, KeepLease, OwnLease, Uses
    <3>2. OwnListens(p)'
      BY <2>4, <1>0, <1>1, <1>2, <1>3, <1>4, <1>5, <1>6, <1>7, <1>8, <1>9, <1>10, <2>0
         DEF ListenerClosed, MarkError, Release, KeepLease, OwnListens
    <3>3. OwnOp(p)'
      BY <2>4, <1>0, <1>1, <1>2, <1>3, <1>4, <1>5, <1>6, <1>7, <1>8, <1>9, <1>10, <2>0
         DEF ListenerClosed, MarkError, Release, KeepLease, OwnLease, OwnOp, OwnWait, Lonely,
         Free, Waiting
    <3>4. OwnWait(p)'
      BY <2>4, <1>0, <1>1, <1>2, <1>3, <1>4, <1>5, <1>6, <1>7, <1>8, <1>9, <1>10, <2>0
         DEF ListenerClosed, MarkError, Release, KeepLease, OwnWait, Free, Waiting
    <3>. QED BY <3>1, <3>2, <3>3, <3>4 DEF Own
  <2>5. CASE Crashes(p)
    <3>1. OwnLease(p)'
      BY <2>5, <1>0, <1>1, <1>2, <1>3, <1>4, <1>5, <1>6, <1>7, <1>8, <1>9, <1>10, <2>0
         DEF Crashes, Ends, NoFence, OwnLease, Uses
    <3>2. OwnListens(p)'
      BY <2>5, <1>0, <1>1, <1>2, <1>3, <1>4, <1>5, <1>6, <1>7, <1>8, <1>9, <1>10, <2>0
         DEF Crashes, Ends, NoFence, OwnListens
    <3>3. OwnOp(p)'
      BY <2>5, <1>0, <1>1, <1>2, <1>3, <1>4, <1>5, <1>6, <1>7, <1>8, <1>9, <1>10, <2>0
         DEF Crashes, Ends, NoFence, OwnOp, Lonely, Free, Waiting
    <3>4. OwnWait(p)'
      BY <2>5, <1>0, <1>1, <1>2, <1>3, <1>4, <1>5, <1>6, <1>7, <1>8, <1>9, <1>10, <2>0
         DEF Crashes, Ends, NoFence, OwnWait, Free, Waiting
    <3>. QED BY <3>1, <3>2, <3>3, <3>4 DEF Own
  <2>6. CASE ShutsDown(p)
    <3>1. OwnLease(p)'
      BY <2>6, <1>0, <1>1, <1>2, <1>3, <1>4, <1>5, <1>6, <1>7, <1>8, <1>9, <1>10, <2>0
         DEF ShutsDown, Ends, NoFence, OwnLease, Uses
    <3>2. OwnListens(p)'
      BY <2>6, <1>0, <1>1, <1>2, <1>3, <1>4, <1>5, <1>6, <1>7, <1>8, <1>9, <1>10, <2>0
         DEF ShutsDown, Ends, NoFence, OwnListens
    <3>3. OwnOp(p)'
      BY <2>6, <1>0, <1>1, <1>2, <1>3, <1>4, <1>5, <1>6, <1>7, <1>8, <1>9, <1>10, <2>0
         DEF ShutsDown, Ends, NoFence, OwnOp, Lonely, Free, Waiting
    <3>4. OwnWait(p)'
      BY <2>6, <1>0, <1>1, <1>2, <1>3, <1>4, <1>5, <1>6, <1>7, <1>8, <1>9, <1>10, <2>0
         DEF ShutsDown, Ends, NoFence, OwnWait, Free, Waiting
    <3>. QED BY <3>1, <3>2, <3>3, <3>4 DEF Own
  <2>. QED BY <1>12, <2>1, <2>2, <2>3, <2>4, <2>5, <2>6
<1>13. ASSUME NEW q \in Logins, Login(p, q) PROVE Own(p)'
  <2>0. TurnsOf(p) /\ AccountTurn(p, q)
    BY Turns
  <2>1. CASE NativeSettles(p, q)
    <3>1. OwnLease(p)'
      BY <2>1, <1>0, <1>1, <1>2, <1>3, <1>4, <1>5, <1>6, <1>7, <1>8, <1>9, <1>10, <2>0
         DEF NativeSettles, OwnLease, Uses
    <3>2. OwnListens(p)'
      BY <2>1, <1>0, <1>1, <1>2, <1>3, <1>4, <1>5, <1>6, <1>7, <1>8, <1>9, <1>10, <2>0
         DEF NativeSettles, OwnListens
    <3>3. OwnOp(p)'
      BY <2>1, <1>0, <1>1, <1>2, <1>3, <1>4, <1>5, <1>6, <1>7, <1>8, <1>9, <1>10, <2>0
         DEF NativeSettles, OwnOp, Lonely, Free, Waiting
    <3>4. OwnWait(p)'
      BY <2>1, <1>0, <1>1, <1>2, <1>3, <1>4, <1>5, <1>6, <1>7, <1>8, <1>9, <1>10, <2>0
         DEF NativeSettles, OwnWait, Free, Waiting
    <3>. QED BY <3>1, <3>2, <3>3, <3>4 DEF Own
  <2>2. CASE CompleteBegins(p, q)
    <3>1. OwnLease(p)'
      BY <2>2, <1>0, <1>1, <1>2, <1>3, <1>4, <1>5, <1>6, <1>7, <1>8, <1>9, <1>10, <2>0
         DEF CompleteBegins, AccountTurn, HasApi, StopLogin, IsPendingReady, OwnLease, Uses
    <3>2. OwnListens(p)'
      BY <2>2, <1>0, <1>1, <1>2, <1>3, <1>4, <1>5, <1>6, <1>7, <1>8, <1>9, <1>10, <2>0
         DEF CompleteBegins, AccountTurn, HasApi, StopLogin, IsPendingReady, OwnListens
    <3>3. OwnOp(p)'
      BY <2>2, <1>0, <1>1, <1>2, <1>3, <1>4, <1>5, <1>6, <1>7, <1>8, <1>9, <1>10, <2>0
         DEF CompleteBegins, AccountTurn, HasApi, StopLogin, IsPendingReady, OwnOp, OwnWait,
         Lonely, Free, Waiting, Whole
    <3>4. OwnWait(p)'
      BY <2>2, <1>0, <1>1, <1>2, <1>3, <1>4, <1>5, <1>6, <1>7, <1>8, <1>9, <1>10, <2>0
         DEF CompleteBegins, AccountTurn, HasApi, StopLogin, IsPendingReady, OwnWait, Free,
         Waiting
    <3>. QED BY <3>1, <3>2, <3>3, <3>4 DEF Own
  <2>3. CASE FailureRecorded(p, q)
    <3>1. OwnLease(p)'
      BY <2>3, <1>0, <1>1, <1>2, <1>3, <1>4, <1>5, <1>6, <1>7, <1>8, <1>9, <1>10, <2>0
         DEF FailureRecorded, OwnLease, Uses
    <3>2. OwnListens(p)'
      BY <2>3, <1>0, <1>1, <1>2, <1>3, <1>4, <1>5, <1>6, <1>7, <1>8, <1>9, <1>10, <2>0
         DEF FailureRecorded, OwnListens
    <3>3. OwnOp(p)'
      BY <2>3, <1>0, <1>1, <1>2, <1>3, <1>4, <1>5, <1>6, <1>7, <1>8, <1>9, <1>10, <2>0
         DEF FailureRecorded, OwnOp, Lonely, Free, Waiting
    <3>4. OwnWait(p)'
      BY <2>3, <1>0, <1>1, <1>2, <1>3, <1>4, <1>5, <1>6, <1>7, <1>8, <1>9, <1>10, <2>0
         DEF FailureRecorded, OwnWait, Free, Waiting
    <3>. QED BY <3>1, <3>2, <3>3, <3>4 DEF Own
  <2>. QED BY <1>13, <2>1, <2>2, <2>3 DEF Login
<1>. QED BY <1>11, <1>12, <1>13 DEF Aside

\* A step of no process in particular leaves all of them in order.
LEMMA NobodyOwn ==
  ASSUME Types, OpInv, \A r \in Procs : Own(r), Quiet, Quiet', [Next]_vars
  PROVE  /\ KeyExpires => \A r \in Procs : Own(r)'
         /\ UNCHANGED vars => \A r \in Procs : Own(r)'
         /\ \A q \in Logins : QrExpires(q) \/ CompleteLocked(q) => \A r \in Procs : Own(r)'
<1>. USE DEF mapVars, taskVars, loginVars
<1>1. ASSUME KeyExpires, NEW r \in Procs PROVE Own(r)'
  <2>1. ~held[r]
    <3>1. losses' = losses /\ losses = 0
      BY QuietStep DEF Quiet
    <3>. QED BY <1>1, <3>1 DEF KeyExpires, Own, OwnLease
  <2>2. op[r].at = "idle" /\ ~Uses(r)
    BY <2>1 DEF Own, OwnLease
  <2>3. Same(r)
    BY <1>1 DEF KeyExpires, Same, history
  <2>. QED BY <2>1, <2>2, <2>3, SleeperStays
<1>2. ASSUME UNCHANGED vars, NEW r \in Procs PROVE Own(r)'
  <2>1. Same(r) /\ Undisturbed(r)
    BY <1>2 DEF vars, history, Same, Undisturbed, Restorable
  <2>. QED BY <2>1, WorkerStays
<1>3. ASSUME NEW q \in Logins, QrExpires(q) \/ CompleteLocked(q), NEW r \in Procs PROVE Own(r)'
  <2>1. Same(r)
    BY <1>3 DEF QrExpires, CompleteLocked, Same, history
  <2>2. op[r].at \in {"account", "saveQr"} => op[r].q \in Logins /\ native[op[r].q] = "done"
    BY DEF OpInv, Knows, Used, Own, OwnOp
  <2>3. native \in [Logins -> {"none", "running", "resolved", "failed", "done"}]
    BY DEF Types, NativeTypes
  <2>4. Undisturbed(r)
    BY <1>3, <2>2, <2>3 DEF QrExpires, CompleteLocked, Undisturbed, Restorable
  <2>. QED BY <2>1, <2>4, WorkerStays
<1>. QED BY <1>1, <1>2, <1>3

\* One process at a time works for the owner: the lease decides.
LEMMA OwnStep ==
  ASSUME Types, OpInv, OwnInv, \A q \in Logins : Whole(q), [Next]_vars
  PROVE  OwnInv'
<1>. SUFFICES ASSUME Quiet' PROVE \A r \in Procs : Own(r)'
  BY DEF OwnInv
<1>1. Quiet /\ (\A r \in Procs : Own(r)) /\ \A q \in Logins : Whole(q)
  BY QuietStep DEF OwnInv
<1>2. ASSUME NEW p \in Procs, Operation(p) \/ Aside(p) \/ \E q \in Logins : Login(p, q)
      PROVE  \A r \in Procs : Own(r)'
  <2>1. Own(p)'
    BY <1>1, <1>2, MoverOwn
  <2>2. \A r \in Procs \ {p} : Own(r)'
    BY <1>1, <1>2, OthersOwn
  <2>. QED BY <2>1, <2>2
<1>3. ASSUME NEW q \in Logins, FailureLocked(q) PROVE \A r \in Procs : Own(r)'
  <2>1. home[q] \in Procs
    BY <1>3 DEF FailureLocked, OpInv
  <2>2. Aside(home[q])
    BY <1>3 DEF FailureLocked, Aside
  <2>. QED BY <1>2, <2>1, <2>2
<1>4. \A r \in Procs : Own(r)'
  BY <1>1, <1>2, <1>3, NobodyOwn DEF Next, Aside
<1>. QED BY <1>4
-----------------------------------------------------------------------------
(* Logouts.                                                                 *)

\* A change of the status of the session keeps the login that it is from.
LEMMA DocKeepsLogin ==
  ASSUME doc \in Docs, NEW code, MarkError(code)
  PROVE  doc'.by = doc.by
  BY DEF MarkError, Docs

\* Nobody takes up a login from before a logout, or saves it.
LEMMA VoidStep ==
  ASSUME Types, OpInv, OwnInv, VoidInv, [Next]_vars
  PROVE  VoidInv'
<1>. SUFFICES ASSUME Quiet', NEW q0 \in voided' PROVE Over(q0)'
  BY DEF VoidInv
<1>. DEFINE VoidGoal ==
       \/ /\ voided' = voided
          /\ \A q \in voided :
               /\ doc'.by # q
               /\ \A r \in Procs : op'[r].at \in {"account", "saveQr"} => op'[r].q # q
       \/ /\ voided' = Used /\ doc'.by = Nothing
          /\ UNCHANGED <<pend, qr>> /\ \A r \in Procs : ~Waiting(r)
          /\ \A r \in Procs : op'[r].at \in {"account", "saveQr"} => op'[r].q \notin Used
<1>. USE DEF mapVars, taskVars, loginVars, boundVars, history, Turn, TurnsOf
<1>7. /\ \A p \in Procs : op[p].at \in {"account", "saveQr"} => op[p].q \notin voided
      /\ doc.by \notin voided /\ Nothing \notin voided /\ voided \subseteq Logins
  BY QuietStep DEF VoidInv, Over, Types, CountTypes
<1>8. /\ \A code : MarkError(code) \/ UNCHANGED doc => doc'.by = doc.by
      /\ doc' = NoDoc => doc'.by = Nothing
      /\ \A q : doc' = [status |-> "connected", code |-> "none", by |-> q] => doc'.by = q
  <2>1. doc \in Docs
    BY DEF Types, CountTypes
  <2>2. ASSUME NEW code, MarkError(code) PROVE doc'.by = doc.by
    BY <2>1, <2>2, DocKeepsLogin
  <2>3. doc' = NoDoc => doc'.by = Nothing
    BY DEF NoDoc
  <2>. QED BY <2>2, <2>3
<1>9. ~Fault /\ faults' = faults /\ faults = 0
  BY QuietStep DEF Quiet
<1>12. Quiet /\ \A r \in Procs : Own(r)
  BY QuietStep DEF OwnInv
<1>10. \A p \in Procs : op[p].at # "idle" =>
         \A r \in Procs \ {p} : op[r].at = "idle" /\ ~Uses(r)
  BY <1>12, OthersSleep DEF Own, OwnLease
<1>11. \A p \in Procs, q \in Logins : IsPendingReady(p, q) => q \notin voided
  BY <1>12 DEF IsPendingReady, VoidInv, Over, Waiting
<1>. HIDE DEF VoidGoal
<1>1. ASSUME NEW p \in Procs, Operation(p) PROVE VoidGoal
  <2>0. TurnsOf(p)
    BY Turns
  <2>1. CASE QrRefused(p)
    BY <2>1, <1>7, <1>8, <1>9, <2>0 DEF QrRefused, VoidGoal
  <2>2. CASE QrReplaces(p)
    BY <2>2, <1>7, <1>8, <1>9, <2>0 DEF QrReplaces, VoidGoal
  <2>3. CASE QrDisposed(p)
    BY <2>3, <1>7, <1>8, <1>9, <2>0 DEF QrDisposed, VoidGoal
  <2>4. CASE QrLooksUp(p)
    BY <2>4, <1>7, <1>8, <1>9, <2>0 DEF QrLooksUp, VoidGoal
  <2>5. CASE QrStarts(p)
    BY <2>5, <1>7, <1>8, <1>9, <2>0 DEF QrStarts, VoidGoal
  <2>6. CASE LogoutBegins(p)
    BY <2>6, <1>7, <1>8, <1>9, <2>0 DEF LogoutBegins, VoidGoal
  <2>7. CASE LogoutStopFails(p)
    BY <2>7, <1>7, <1>8, <1>9, <2>0 DEF LogoutStopFails, VoidGoal
  <2>8. CASE LogoutStops(p)
    BY <2>8, <1>7, <1>8, <1>9, <2>0 DEF LogoutStops, VoidGoal
  <2>9. CASE LogoutWaited(p)
    BY <2>9, <1>7, <1>8, <1>9, <2>0 DEF LogoutWaited, VoidGoal
  <2>10. CASE LogoutDeletes(p)
    <3>1. /\ doc' = NoDoc /\ voided' = {r \in Logins : qr[r] # "unused"}
          /\ \E ok : LeaveQueue(p, ok)
      BY <2>10, <1>9 DEF LogoutDeletes
    <3>2. doc'.by = Nothing
      BY <3>1 DEF NoDoc
    <3>3. \A r \in Procs : op'[r].at \in {"account", "saveQr"} => op'[r].q \notin Used
      <4>1. \A r \in Procs \ {p} : op[r].at = "idle"
        BY <2>10, <1>10 DEF LogoutDeletes
      <4>. QED BY <2>0, <3>1, <4>1
    <3>4. UNCHANGED <<pend, qr>> /\ \A r \in Procs : ~Waiting(r)
      BY <2>10, <1>9, <1>10, <1>12 DEF LogoutDeletes, Own, OwnOp, Waiting, Uses
    <3>. QED BY <3>1, <3>2, <3>3, <3>4 DEF VoidGoal, Used
  <2>11. CASE SaveError(p)
    BY <2>11, <1>7, <1>8, <1>9, <2>0 DEF SaveError, VoidGoal
  <2>12. CASE SendFinds(p)
    BY <2>12, <1>7, <1>8, <1>9, <2>0 DEF SendFinds, VoidGoal
  <2>13. CASE SendRestores(p)
    BY <2>13, <1>7, <1>8, <1>9, <2>0 DEF SendRestores, VoidGoal
  <2>14. CASE BootReads(p)
    BY <2>14, <1>7, <1>8, <1>9, <2>0 DEF BootReads, VoidGoal
  <2>15. CASE BootRestores(p)
    BY <2>15, <1>7, <1>8, <1>9, <2>0 DEF BootRestores, VoidGoal
  <2>16. CASE BootSavesError(p)
    BY <2>16, <1>7, <1>8, <1>9, <2>0 DEF BootSavesError, VoidGoal
  <2>17. CASE RestoreLogsIn(p)
    BY <2>17, <1>7, <1>8, <1>9, <2>0 DEF RestoreLogsIn, VoidGoal, NextAttempt
  <2>18. CASE RestoreSaves(p)
    <3>1. doc \in Docs
      BY DEF Types, CountTypes
    <3>2. doc' = IF doc.status = "none" THEN doc
                 ELSE [doc EXCEPT !.status = "connected", !.code = "none"]
      BY <2>18, <1>9 DEF RestoreSaves
    <3>3. doc'.by = doc.by
      BY <3>1, <3>2 DEF Docs
    <3>4. voided' = voided /\ Goto(p, [Idle EXCEPT !.at = "avatars"])
      BY <2>18, <1>9 DEF RestoreSaves
    <3>. QED BY <1>7, <2>0, <3>3, <3>4 DEF VoidGoal
  <2>19. CASE RestoreEnds(p)
    BY <2>19, <1>7, <1>8, <1>9, <2>0 DEF RestoreEnds, VoidGoal
  <2>20. CASE CompleteListens(p)
    BY <2>20, <1>7, <1>8, <1>9, <2>0 DEF CompleteListens, VoidGoal
  <2>21. CASE CompleteSaves(p)
    BY <2>21, <1>7, <1>8, <1>9, <2>0 DEF CompleteSaves, VoidGoal, FailCompensation
  <2>22. CASE CompensationDeletes(p)
    BY <2>22, <1>7, <1>8, <1>9, <2>0 DEF CompensationDeletes, VoidGoal, FailCompensation
  <2>. QED BY <1>1, <2>1, <2>2, <2>3, <2>4, <2>5, <2>6, <2>7, <2>8, <2>9, <2>10, <2>11, <2>12,
              <2>13, <2>14, <2>15, <2>16, <2>17, <2>18, <2>19, <2>20, <2>21, <2>22 DEF Operation
<1>2. ASSUME NEW p \in Procs,
             LeaseIsLost(p) \/ FenceEnds(p) \/ ListenerCloses(p) \/ ListenerClosed(p)
                     \/ Crashes(p) \/ ShutsDown(p)
      PROVE  VoidGoal
  <2>0. TurnsOf(p)
    BY Turns
  <2>1. CASE LeaseIsLost(p)
    BY <2>1, <1>7, <1>8, <1>9, <2>0 DEF LeaseIsLost, VoidGoal
  <2>2. CASE FenceEnds(p)
    BY <2>2, <1>7, <1>8, <1>9, <2>0 DEF FenceEnds, VoidGoal
  <2>3. CASE ListenerCloses(p)
    BY <2>3, <1>7, <1>8, <1>9, <2>0 DEF ListenerCloses, VoidGoal
  <2>4. CASE ListenerClosed(p)
    BY <2>4, <1>7, <1>8, <1>9, <2>0 DEF ListenerClosed, VoidGoal
  <2>5. CASE Crashes(p)
    BY <2>5, <1>7, <1>8, <1>9, <2>0 DEF Crashes, VoidGoal, Ends
  <2>6. CASE ShutsDown(p)
    BY <2>6, <1>7, <1>8, <1>9, <2>0 DEF ShutsDown, VoidGoal, Ends
  <2>. QED BY <1>2, <2>1, <2>2, <2>3, <2>4, <2>5, <2>6
<1>3. ASSUME NEW p \in Procs, NEW q \in Logins, Login(p, q) PROVE VoidGoal
  <2>0. TurnsOf(p) /\ AccountTurn(p, q)
    BY Turns
  <2>1. CASE NativeSettles(p, q)
    BY <2>1, <1>7, <1>8, <1>9, <2>0 DEF NativeSettles, VoidGoal
  <2>2. CASE CompleteBegins(p, q)
    BY <2>2, <1>7, <1>8, <1>9, <2>0, <1>11 DEF CompleteBegins, VoidGoal, AccountTurn
  <2>3. CASE FailureRecorded(p, q)
    BY <2>3, <1>7, <1>8, <1>9, <2>0 DEF FailureRecorded, VoidGoal
  <2>. QED BY <1>3, <2>1, <2>2, <2>3 DEF Login
<1>4. ASSUME NEW q \in Logins, QrExpires(q) \/ CompleteLocked(q) \/ FailureLocked(q)
      PROVE  VoidGoal
  <2>1. CASE QrExpires(q)
    BY <2>1, <1>7, <1>8, <1>9 DEF QrExpires, VoidGoal
  <2>2. CASE CompleteLocked(q)
    BY <2>2, <1>7, <1>8, <1>9 DEF CompleteLocked, VoidGoal
  <2>3. CASE FailureLocked(q)
    <3>1. home[q] \in Procs
      BY <2>3 DEF FailureLocked, OpInv
    <3>2. TurnsOf(home[q])
      BY <3>1, Turns
    <3>. QED BY <2>3, <1>7, <1>8, <3>1, <3>2 DEF FailureLocked, Crashes, Ends, VoidGoal
  <2>. QED BY <1>4, <2>1, <2>2, <2>3
<1>5. ASSUME KeyExpires PROVE VoidGoal
  BY <1>5, <1>7, <1>8, <1>9 DEF KeyExpires, VoidGoal
<1>6. ASSUME UNCHANGED vars PROVE VoidGoal
  BY <1>6, <1>7, <1>8, <1>9 DEF vars, VoidGoal
<1>13. VoidGoal
  BY <1>1, <1>2, <1>3, <1>4, <1>5, <1>6 DEF Next
<1>14. q0 \in Used
  BY <1>12, <1>13 DEF VoidGoal, VoidInv, Over
<1>15. q0 \in Used' /\ q0 \in Logins
  BY <1>14, QrStep DEF Used
<1>16. ASSUME NEW r \in Procs, pend'[r] = q0 PROVE ~Waiting(r)'
  <2>1. pend'[r] = pend[r]
    BY <1>7, <1>14, <1>15, <1>16, PendStep, NothingAssumption DEF Used
  <2>2. ~Waiting(r)
    BY <1>12, <1>13, <1>16, <2>1 DEF VoidGoal, VoidInv, Over
  <2>. QED BY <2>1, <2>2, WaitingStays
<1>17. doc'.by # q0
  BY <1>13, <1>15 DEF VoidGoal
<1>18. \A r \in Procs : op'[r].at \in {"account", "saveQr"} => op'[r].q # q0
  BY <1>13, <1>14 DEF VoidGoal
<1>. QED BY <1>15, <1>16, <1>17, <1>18 DEF Over
-----------------------------------------------------------------------------
(* Whom a logout reaches.                                                   *)

LEMMA StopLoginDrops ==
  ASSUME Types, NEW p \in Procs, NEW q, StopLogin(p, q)
  PROVE  /\ \A r \in listens'[p] : r \in listens[p]
         /\ \A r \in listens'[p] \cap Logins : stopped'[r] => stopped[r]
<1>1. listens \in [Procs -> SUBSET Apis] /\ stopped \in [Logins -> BOOLEAN]
  BY DEF Types, ApiTypes, NativeTypes
<1>2. CASE UNCHANGED <<listens, stopped>>
  BY <1>2
<1>3. CASE /\ listens' = [listens EXCEPT ![p] = @ \ {q}]
           /\ stopped' = [stopped EXCEPT ![q] = TRUE]
  BY <1>1, <1>3
<1>. QED BY <1>2, <1>3 DEF StopLogin, StopApi

LEMMA NoLoginIsRestored == \A n \in 1..MaxRestores : n \notin Logins
  BY ApisAssumption

\* What one process does to the logins of the others, and to its own.
LoginStays(p, q) ==
  /\ cancelled[q] => cancelled'[q]
  /\ home'[q] \in {home[q], p} /\ (home[q] \in Procs => home'[q] = home[q])
  /\ home[q] # Nothing /\ home[q] # p =>
       cancelled'[q] = cancelled[q] /\ native'[q] = native[q] /\ stopped'[q] = stopped[q]
LoginsStay(p) == \A q \in Logins : LoginStays(p, q)

LEMMA LoginsOfOthers ==
  ASSUME Types, OpInv, NEW p \in Procs, MapsKnow(p), LoginKnows(p)
  PROVE  /\ Operation(p) \/ Aside(p) => LoginsStay(p)
         /\ \A q \in Logins : Login(p, q) => LoginsStay(p)
<1>. USE DEF mapVars, taskVars, loginVars, StopLogin, LoginsStay, LoginStays
<1>0. /\ native \in [Logins -> {"none", "running", "resolved", "failed", "done"}]
      /\ stopped \in [Logins -> BOOLEAN] /\ cancelled \in [Logins -> BOOLEAN]
      /\ home \in [Logins -> Procs \cup {Nothing}] /\ Nothing \notin Procs
  BY DEF Types, NativeTypes, CancelTypes
<1>1. /\ pend[p] \in Logins \cup {Nothing} /\ (pend[p] \in Logins => home[pend[p]] = p)
      /\ op[p].q \in Logins \cup {Nothing}
      /\ op[p].at = "logout" /\ op[p].q # Nothing => home[op[p].q] = p
      /\ op[p].at \in {"account", "saveQr"} => home[op[p].q] = p
      /\ \A q \in Logins : qr[q] = "unused" => home[q] = Nothing
  BY OpFields DEF MapsKnow, LoginKnows, OpInv, Types, MapTypes, Used
<1>11. ASSUME Operation(p) PROVE LoginsStay(p)
  <2>0. TurnsOf(p)
    BY Turns
  <2>1. CASE QrRefused(p)
    BY <2>1, <2>0, <1>0, <1>1 DEF QrRefused, Turn, TurnsOf
  <2>2. CASE QrReplaces(p)
    BY <2>2, <2>0, <1>0, <1>1 DEF QrReplaces, Turn, TurnsOf, CancelLogin, Outdated
  <2>3. CASE QrDisposed(p)
    BY <2>3, <2>0, <1>0, <1>1 DEF QrDisposed, Turn, TurnsOf
  <2>4. CASE QrLooksUp(p)
    BY <2>4, <2>0, <1>0, <1>1 DEF QrLooksUp, Turn, TurnsOf
  <2>5. CASE QrStarts(p)
    BY <2>5, <2>0, <1>0, <1>1 DEF QrStarts, Turn, TurnsOf
  <2>6. CASE LogoutBegins(p)
    BY <2>6, <2>0, <1>0, <1>1 DEF LogoutBegins, Turn, TurnsOf
  <2>7. CASE LogoutStopFails(p)
    BY <2>7, <2>0, <1>0, <1>1 DEF LogoutStopFails, Turn, TurnsOf, CancelLogin
  <2>8. CASE LogoutStops(p)
    BY <2>8, <2>0, <1>0, <1>1 DEF LogoutStops, Turn, TurnsOf, CancelLogin
  <2>9. CASE LogoutWaited(p)
    BY <2>9, <2>0, <1>0, <1>1 DEF LogoutWaited, Turn, TurnsOf
  <2>10. CASE LogoutDeletes(p)
    BY <2>10, <2>0, <1>0, <1>1 DEF LogoutDeletes, Turn, TurnsOf
  <2>11. CASE SaveError(p)
    BY <2>11, <2>0, <1>0, <1>1 DEF SaveError, Turn, TurnsOf
  <2>12. CASE SendFinds(p)
    BY <2>12, <2>0, <1>0, <1>1 DEF SendFinds, Turn, TurnsOf
  <2>13. CASE SendRestores(p)
    BY <2>13, <2>0, <1>0, <1>1 DEF SendRestores, Turn, TurnsOf
  <2>14. CASE BootReads(p)
    BY <2>14, <2>0, <1>0, <1>1 DEF BootReads, Turn, TurnsOf
  <2>15. CASE BootRestores(p)
    BY <2>15, <2>0, <1>0, <1>1 DEF BootRestores, Turn, TurnsOf
  <2>16. CASE BootSavesError(p)
    BY <2>16, <2>0, <1>0, <1>1 DEF BootSavesError, Turn, TurnsOf
  <2>17. CASE RestoreLogsIn(p)
    BY <2>17, <2>0, <1>0, <1>1 DEF RestoreLogsIn, Turn, TurnsOf, NextAttempt
  <2>18. CASE RestoreSaves(p)
    BY <2>18, <2>0, <1>0, <1>1 DEF RestoreSaves, Turn, TurnsOf, NextAttempt
  <2>19. CASE RestoreEnds(p)
    BY <2>19, <2>0, <1>0, <1>1 DEF RestoreEnds, Turn, TurnsOf
  <2>20. CASE CompleteListens(p)
    BY <2>20, <2>0, <1>0, <1>1 DEF CompleteListens, Turn, TurnsOf
  <2>21. CASE CompleteSaves(p)
    BY <2>21, <2>0, <1>0, <1>1 DEF CompleteSaves, Turn, TurnsOf, FailCompensation,
       CancelLogin
  <2>22. CASE CompensationDeletes(p)
    BY <2>22, <2>0, <1>0, <1>1 DEF CompensationDeletes, Turn, TurnsOf, FailCompensation,
       CancelLogin
  <2>. QED BY <1>11, <2>1, <2>2, <2>3, <2>4, <2>5, <2>6, <2>7, <2>8, <2>9, <2>10, <2>11,
              <2>12, <2>13, <2>14, <2>15, <2>16, <2>17, <2>18, <2>19, <2>20, <2>21, <2>22
              DEF Operation
<1>12. ASSUME Aside(p) PROVE LoginsStay(p)
  <2>0. TurnsOf(p)
    BY Turns
  <2>1. CASE LeaseIsLost(p)
    BY <2>1, <2>0, <1>0, <1>1 DEF LeaseIsLost, Turn, TurnsOf, CancelLogin
  <2>2. CASE FenceEnds(p)
    BY <2>2, <2>0, <1>0, <1>1 DEF FenceEnds, Turn, TurnsOf
  <2>3. CASE ListenerCloses(p)
    BY <2>3, <2>0, <1>0, <1>1 DEF ListenerCloses, Turn, TurnsOf
  <2>4. CASE ListenerClosed(p)
    BY <2>4, <2>0, <1>0, <1>1 DEF ListenerClosed, Turn, TurnsOf
  <2>5. CASE Crashes(p)
    BY <2>5, <2>0, <1>0, <1>1 DEF Crashes, Turn, TurnsOf, Ends
  <2>6. CASE ShutsDown(p)
    BY <2>6, <2>0, <1>0, <1>1 DEF ShutsDown, Turn, TurnsOf, Ends
  <2>. QED BY <1>12, <2>1, <2>2, <2>3, <2>4, <2>5, <2>6 DEF Aside
<1>13. ASSUME NEW q \in Logins, Login(p, q) PROVE LoginsStay(p)
  <2>0. TurnsOf(p) /\ AccountTurn(p, q)
    BY Turns
  <2>1. CASE NativeSettles(p, q)
    BY <2>1, <2>0, <1>0, <1>1 DEF NativeSettles, Turn, TurnsOf
  <2>2. CASE CompleteBegins(p, q)
    BY <2>2, <2>0, <1>0, <1>1 DEF CompleteBegins, Turn, TurnsOf, AccountTurn
  <2>3. CASE FailureRecorded(p, q)
    BY <2>3, <2>0, <1>0, <1>1 DEF FailureRecorded, Turn, TurnsOf
  <2>. QED BY <1>13, <2>1, <2>2, <2>3 DEF Login
<1>. QED BY <1>11, <1>12, <1>13

LEMMA MapsStep ==
  ASSUME Types, OpInv, NEW p \in Procs, MapsKnow(p), LoginKnows(p), FenceKnows(p)
  PROVE  /\ Operation(p) \/ Aside(p) => MapsKnow(p)'
         /\ \A q \in Logins : Login(p, q) => MapsKnow(p)'
<1>. USE DEF mapVars, taskVars, loginVars
<1>0. /\ native \in [Logins -> {"none", "running", "resolved", "failed", "done"}]
      /\ stopped \in [Logins -> BOOLEAN] /\ cancelled \in [Logins -> BOOLEAN]
      /\ home \in [Logins -> Procs \cup {Nothing}] /\ Nothing \notin Procs \cup Logins
      /\ pend \in [Procs -> Logins \cup {Nothing}] /\ active \in [Procs -> Apis \cup {Nothing}]
      /\ listens \in [Procs -> SUBSET Apis] /\ fence \in [Procs -> Fences]
      /\ op[p].q \in Logins \cup {Nothing} /\ Logins \subseteq Apis
  BY OpFields DEF Types, NativeTypes, CancelTypes, MapTypes, ApiTypes, TaskTypes, Apis
<1>1. /\ MapsKnow(p) /\ (pend[p] # Nothing => qr[pend[p]] # "unused")
      /\ op[p].at = "restoreSave" => op[p].api \notin Logins
      /\ op[p].at \in {"account", "saveQr"} => op[p].q \in Logins
      /\ \A q \in Logins : qr[q] = "unused" => home[q] = Nothing
  BY NoLoginIsRestored DEF OpInv, Used, Knows
<1>. USE DEF ClearMaps
<1>11. ASSUME Operation(p) PROVE MapsKnow(p)'
  <2>0. TurnsOf(p)
    BY Turns
  <2>1. CASE QrRefused(p)
    BY <2>1, <2>0, <1>0, <1>1 DEF QrRefused, Turn, TurnsOf, MapsKnow, Bare
  <2>2. CASE QrReplaces(p)
    BY <2>2, <2>0, <1>0, <1>1 DEF QrReplaces, Turn, TurnsOf, MapsKnow, Bare, Outdated
  <2>3. CASE QrDisposed(p)
    BY <2>3, <2>0, <1>0, <1>1 DEF QrDisposed, Turn, TurnsOf, MapsKnow, Bare
  <2>4. CASE QrLooksUp(p)
    BY <2>4, <2>0, <1>0, <1>1 DEF QrLooksUp, Turn, TurnsOf, MapsKnow, Bare
  <2>5. CASE QrStarts(p)
    <3>1. op'[p].at = "idle" /\ active'[p] = Nothing
      BY <2>5, <2>0, <1>0, <1>1 DEF QrStarts, Turn, TurnsOf, MapsKnow, Bare
    <3>2. UNCHANGED <<home, pend>>
          \/ \E q \in Logins : /\ home' = [home EXCEPT ![q] = p]
                               /\ pend' = [pend EXCEPT ![p] = q]
      BY <2>5 DEF QrStarts
    <3>3. pend'[p] \in Logins => home'[pend'[p]] = p
      BY <1>0, <1>1, <3>2 DEF MapsKnow
    <3>. QED BY <1>0, <3>1, <3>3 DEF MapsKnow, Bare
  <2>6. CASE LogoutBegins(p)
    BY <2>6, <2>0, <1>0, <1>1 DEF LogoutBegins, Turn, TurnsOf, MapsKnow, Bare
  <2>7. CASE LogoutStopFails(p)
    BY <2>7, <2>0, <1>0, <1>1 DEF LogoutStopFails, Turn, TurnsOf, MapsKnow, Bare
  <2>8. CASE LogoutStops(p)
    BY <2>8, <2>0, <1>0, <1>1 DEF LogoutStops, Turn, TurnsOf, MapsKnow, Bare
  <2>9. CASE LogoutWaited(p)
    BY <2>9, <2>0, <1>0, <1>1 DEF LogoutWaited, Turn, TurnsOf, MapsKnow, Bare
  <2>10. CASE LogoutDeletes(p)
    BY <2>10, <2>0, <1>0, <1>1 DEF LogoutDeletes, Turn, TurnsOf, MapsKnow, Bare
  <2>11. CASE SaveError(p)
    BY <2>11, <2>0, <1>0, <1>1 DEF SaveError, Turn, TurnsOf, MapsKnow, Bare
  <2>12. CASE SendFinds(p)
    BY <2>12, <2>0, <1>0, <1>1 DEF SendFinds, Turn, TurnsOf, MapsKnow, Bare
  <2>13. CASE SendRestores(p)
    BY <2>13, <2>0, <1>0, <1>1 DEF SendRestores, Turn, TurnsOf, MapsKnow, Bare
  <2>14. CASE BootReads(p)
    BY <2>14, <2>0, <1>0, <1>1 DEF BootReads, Turn, TurnsOf, MapsKnow, Bare
  <2>15. CASE BootRestores(p)
    BY <2>15, <2>0, <1>0, <1>1 DEF BootRestores, Turn, TurnsOf, MapsKnow, Bare
  <2>16. CASE BootSavesError(p)
    BY <2>16, <2>0, <1>0, <1>1 DEF BootSavesError, Turn, TurnsOf, MapsKnow, Bare
  <2>17. CASE RestoreLogsIn(p)
    BY <2>17, <2>0, <1>0, <1>1 DEF RestoreLogsIn, Turn, TurnsOf, NextAttempt, MapsKnow, Bare
  <2>18. CASE RestoreSaves(p)
    BY <2>18, <2>0, <1>0, <1>1 DEF RestoreSaves, Turn, TurnsOf, NextAttempt, MapsKnow, Bare
  <2>19. CASE RestoreEnds(p)
    BY <2>19, <2>0, <1>0, <1>1 DEF RestoreEnds, Turn, TurnsOf, MapsKnow, Bare
  <2>20. CASE CompleteListens(p)
    BY <2>20, <2>0, <1>0, <1>1 DEF CompleteListens, Turn, TurnsOf, MapsKnow, Bare
  <2>21. CASE CompleteSaves(p)
    BY <2>21, <2>0, <1>0, <1>1 DEF CompleteSaves, Turn, TurnsOf, FailCompensation, MapsKnow,
       Bare, IsPendingReady
  <2>22. CASE CompensationDeletes(p)
    BY <2>22, <2>0, <1>0, <1>1 DEF CompensationDeletes, Turn, TurnsOf, FailCompensation,
       MapsKnow, Bare
  <2>. QED BY <1>11, <2>1, <2>2, <2>3, <2>4, <2>5, <2>6, <2>7, <2>8, <2>9, <2>10, <2>11,
              <2>12, <2>13, <2>14, <2>15, <2>16, <2>17, <2>18, <2>19, <2>20, <2>21, <2>22
              DEF Operation
<1>12. ASSUME Aside(p) PROVE MapsKnow(p)'
  <2>0. TurnsOf(p)
    BY Turns
  <2>1. CASE LeaseIsLost(p)
    BY <2>1, <2>0, <1>0, <1>1 DEF LeaseIsLost, Turn, TurnsOf, MapsKnow, Bare
  <2>2. CASE FenceEnds(p)
    BY <2>2, <2>0, <1>0, <1>1 DEF FenceEnds, Turn, TurnsOf, MapsKnow, Bare, FenceKnows,
       NoFence
  <2>3. CASE ListenerCloses(p)
    BY <2>3, <2>0, <1>0, <1>1 DEF ListenerCloses, Turn, TurnsOf, MapsKnow, Bare
  <2>4. CASE ListenerClosed(p)
    BY <2>4, <2>0, <1>0, <1>1 DEF ListenerClosed, Turn, TurnsOf, MapsKnow, Bare
  <2>5. CASE Crashes(p)
    BY <2>5, <2>0, <1>0, <1>1 DEF Crashes, Turn, TurnsOf, Ends, MapsKnow, Bare
  <2>6. CASE ShutsDown(p)
    BY <2>6, <2>0, <1>0, <1>1 DEF ShutsDown, Turn, TurnsOf, Ends, MapsKnow, Bare
  <2>. QED BY <1>12, <2>1, <2>2, <2>3, <2>4, <2>5, <2>6 DEF Aside
<1>13. ASSUME NEW q \in Logins, Login(p, q) PROVE MapsKnow(p)'
  <2>0. TurnsOf(p) /\ AccountTurn(p, q)
    BY Turns
  <2>1. CASE NativeSettles(p, q)
    BY <2>1, <2>0, <1>0, <1>1 DEF NativeSettles, Turn, TurnsOf, MapsKnow, Bare
  <2>2. CASE CompleteBegins(p, q)
    BY <2>2, <2>0, <1>0, <1>1 DEF CompleteBegins, Turn, TurnsOf, AccountTurn, MapsKnow, Bare
  <2>3. CASE FailureRecorded(p, q)
    BY <2>3, <2>0, <1>0, <1>1 DEF FailureRecorded, Turn, TurnsOf, MapsKnow, Bare
  <2>. QED BY <1>13, <2>1, <2>2, <2>3 DEF Login
<1>. QED BY <1>11, <1>12, <1>13

LEMMA LoginKnowsStep ==
  ASSUME Types, OpInv, NEW p \in Procs, MapsKnow(p), LoginKnows(p),
         \A q \in Logins : Whole(q)
  PROVE  /\ Operation(p) \/ Aside(p) => LoginKnows(p)'
         /\ \A q \in Logins : Login(p, q) => LoginKnows(p)'
<1>. USE DEF mapVars, taskVars, loginVars
<1>0. /\ native \in [Logins -> {"none", "running", "resolved", "failed", "done"}]
      /\ stopped \in [Logins -> BOOLEAN] /\ cancelled \in [Logins -> BOOLEAN]
      /\ home \in [Logins -> Procs \cup {Nothing}] /\ Nothing \notin Procs \cup Logins
      /\ pend \in [Procs -> Logins \cup {Nothing}] /\ active \in [Procs -> Apis \cup {Nothing}]
      /\ listens \in [Procs -> SUBSET Apis] /\ fence \in [Procs -> Fences]
      /\ op[p].q \in Logins \cup {Nothing} /\ Logins \subseteq Apis
  BY OpFields DEF Types, NativeTypes, CancelTypes, MapTypes, ApiTypes, TaskTypes, Apis
<1>1. /\ LoginKnows(p) /\ (pend[p] # Nothing => qr[pend[p]] # "unused" /\ home[pend[p]] = p)
      /\ op[p].at \in {"account", "saveQr"} => op[p].q \in Logins /\ qr[op[p].q] # "unused"
      /\ op[p].at = "logout" /\ op[p].q # Nothing => op[p].q \in Logins /\ qr[op[p].q] # "unused"
      /\ \A q \in Logins : qr[q] = "unused" => home[q] = Nothing
  BY DEF OpInv, Used, Knows, MapsKnow
<1>2. \A q : AfterFailure(q) \in {"failed", "done"}
  BY AfterFailureType
<1>. USE DEF StopLogin
<1>11. ASSUME Operation(p) PROVE LoginKnows(p)'
  <2>0. TurnsOf(p)
    BY Turns
  <2>1. CASE QrRefused(p)
    BY <2>1, <2>0, <1>0, <1>1 DEF QrRefused, Turn, TurnsOf, LoginKnows
  <2>2. CASE QrReplaces(p)
    BY <2>2, <2>0, <1>0, <1>1 DEF QrReplaces, Turn, TurnsOf, LoginKnows, CancelLogin
  <2>3. CASE QrDisposed(p)
    BY <2>3, <2>0, <1>0, <1>1 DEF QrDisposed, Turn, TurnsOf, LoginKnows
  <2>4. CASE QrLooksUp(p)
    BY <2>4, <2>0, <1>0, <1>1 DEF QrLooksUp, Turn, TurnsOf, LoginKnows
  <2>5. CASE QrStarts(p)
    BY <2>5, <2>0, <1>0, <1>1 DEF QrStarts, Turn, TurnsOf, LoginKnows
  <2>6. CASE LogoutBegins(p)
    BY <2>6, <2>0, <1>0, <1>1 DEF LogoutBegins, Turn, TurnsOf, LoginKnows
  <2>7. CASE LogoutStopFails(p)
    BY <2>7, <2>0, <1>0, <1>1 DEF LogoutStopFails, Turn, TurnsOf, LoginKnows, CancelLogin
  <2>8. CASE LogoutStops(p)
    BY <2>8, <2>0, <1>0, <1>1 DEF LogoutStops, Turn, TurnsOf, LoginKnows, CancelLogin
  <2>9. CASE LogoutWaited(p)
    BY <2>9, <2>0, <1>0, <1>1 DEF LogoutWaited, Turn, TurnsOf, LoginKnows
  <2>10. CASE LogoutDeletes(p)
    BY <2>10, <2>0, <1>0, <1>1 DEF LogoutDeletes, Turn, TurnsOf, LoginKnows
  <2>11. CASE SaveError(p)
    BY <2>11, <2>0, <1>0, <1>1 DEF SaveError, Turn, TurnsOf, LoginKnows
  <2>12. CASE SendFinds(p)
    BY <2>12, <2>0, <1>0, <1>1 DEF SendFinds, Turn, TurnsOf, LoginKnows
  <2>13. CASE SendRestores(p)
    BY <2>13, <2>0, <1>0, <1>1 DEF SendRestores, Turn, TurnsOf, LoginKnows
  <2>14. CASE BootReads(p)
    BY <2>14, <2>0, <1>0, <1>1 DEF BootReads, Turn, TurnsOf, LoginKnows
  <2>15. CASE BootRestores(p)
    BY <2>15, <2>0, <1>0, <1>1 DEF BootRestores, Turn, TurnsOf, LoginKnows
  <2>16. CASE BootSavesError(p)
    BY <2>16, <2>0, <1>0, <1>1 DEF BootSavesError, Turn, TurnsOf, LoginKnows
  <2>17. CASE RestoreLogsIn(p)
    BY <2>17, <2>0, <1>0, <1>1 DEF RestoreLogsIn, Turn, TurnsOf, NextAttempt, LoginKnows
  <2>18. CASE RestoreSaves(p)
    BY <2>18, <2>0, <1>0, <1>1 DEF RestoreSaves, Turn, TurnsOf, NextAttempt, LoginKnows
  <2>19. CASE RestoreEnds(p)
    BY <2>19, <2>0, <1>0, <1>1 DEF RestoreEnds, Turn, TurnsOf, LoginKnows
  <2>20. CASE CompleteListens(p)
    BY <2>20, <2>0, <1>0, <1>1, <1>2 DEF CompleteListens, Turn, TurnsOf, LoginKnows
  <2>21. CASE CompleteSaves(p)
    BY <2>21, <2>0, <1>0, <1>1, <1>2 DEF CompleteSaves, Turn, TurnsOf, FailCompensation,
       LoginKnows
  <2>22. CASE CompensationDeletes(p)
    BY <2>22, <2>0, <1>0, <1>1 DEF CompensationDeletes, Turn, TurnsOf, FailCompensation,
       LoginKnows
  <2>. QED BY <1>11, <2>1, <2>2, <2>3, <2>4, <2>5, <2>6, <2>7, <2>8, <2>9, <2>10, <2>11,
              <2>12, <2>13, <2>14, <2>15, <2>16, <2>17, <2>18, <2>19, <2>20, <2>21, <2>22
              DEF Operation
<1>12. ASSUME Aside(p) PROVE LoginKnows(p)'
  <2>0. TurnsOf(p)
    BY Turns
  <2>1. CASE LeaseIsLost(p)
    BY <2>1, <2>0, <1>0, <1>1 DEF LeaseIsLost, Turn, TurnsOf, LoginKnows, CancelLogin
  <2>2. CASE FenceEnds(p)
    BY <2>2, <2>0, <1>0, <1>1 DEF FenceEnds, Turn, TurnsOf, LoginKnows
  <2>3. CASE ListenerCloses(p)
    BY <2>3, <2>0, <1>0, <1>1 DEF ListenerCloses, Turn, TurnsOf, LoginKnows
  <2>4. CASE ListenerClosed(p)
    BY <2>4, <2>0, <1>0, <1>1 DEF ListenerClosed, Turn, TurnsOf, LoginKnows
  <2>5. CASE Crashes(p)
    BY <2>5, <2>0, <1>0, <1>1 DEF Crashes, Turn, TurnsOf, Ends, LoginKnows
  <2>6. CASE ShutsDown(p)
    BY <2>6, <2>0, <1>0, <1>1 DEF ShutsDown, Turn, TurnsOf, Ends, LoginKnows
  <2>. QED BY <1>12, <2>1, <2>2, <2>3, <2>4, <2>5, <2>6 DEF Aside
<1>13. ASSUME NEW q \in Logins, Login(p, q) PROVE LoginKnows(p)'
  <2>0. TurnsOf(p) /\ AccountTurn(p, q)
    BY Turns
  <2>1. CASE NativeSettles(p, q)
    BY <2>1, <2>0, <1>0, <1>1, <1>2 DEF NativeSettles, Turn, TurnsOf, LoginKnows
  <2>2. CASE CompleteBegins(p, q)
    BY <2>2, <2>0, <1>0, <1>1 DEF CompleteBegins, Turn, TurnsOf, AccountTurn, LoginKnows,
       Whole, IsPendingReady
  <2>3. CASE FailureRecorded(p, q)
    BY <2>3, <2>0, <1>0, <1>1 DEF FailureRecorded, Turn, TurnsOf, LoginKnows
  <2>. QED BY <1>13, <2>1, <2>2, <2>3 DEF Login
<1>. QED BY <1>11, <1>12, <1>13

LEMMA FenceStep ==
  ASSUME Types, OpInv, NEW p \in Procs, MapsKnow(p), FenceKnows(p)
  PROVE  /\ Operation(p) \/ Aside(p) => FenceKnows(p)'
         /\ \A q \in Logins : Login(p, q) => FenceKnows(p)'
<1>. USE DEF mapVars, taskVars, loginVars
<1>0. /\ native \in [Logins -> {"none", "running", "resolved", "failed", "done"}]
      /\ stopped \in [Logins -> BOOLEAN] /\ cancelled \in [Logins -> BOOLEAN]
      /\ home \in [Logins -> Procs \cup {Nothing}] /\ Nothing \notin Procs \cup Logins
      /\ pend \in [Procs -> Logins \cup {Nothing}] /\ active \in [Procs -> Apis \cup {Nothing}]
      /\ listens \in [Procs -> SUBSET Apis] /\ fence \in [Procs -> Fences]
      /\ op[p].q \in Logins \cup {Nothing} /\ Logins \subseteq Apis
  BY OpFields DEF Types, NativeTypes, CancelTypes, MapTypes, ApiTypes, TaskTypes, Apis
<1>1. /\ FenceKnows(p) /\ MapsKnow(p)
      /\ op[p].at = "restoreSave" => op[p].api \notin Logins /\ op[p].api # Nothing
      /\ fence[p].q \in Logins \cup {Nothing} /\ fence[p].api \in Apis \cup {Nothing}
  BY NoLoginIsRestored, <1>0 DEF OpInv, Used, Knows, Fences
<1>. USE DEF ClearMaps
<1>11. ASSUME Operation(p) PROVE FenceKnows(p)'
  <2>0. TurnsOf(p)
    BY Turns
  <2>1. CASE QrRefused(p)
    BY <2>1, <2>0, <1>0, <1>1 DEF QrRefused, Turn, TurnsOf, FenceKnows
  <2>2. CASE QrReplaces(p)
    BY <2>2, <2>0, <1>0, <1>1 DEF QrReplaces, Turn, TurnsOf, FenceKnows, CancelLogin
  <2>3. CASE QrDisposed(p)
    BY <2>3, <2>0, <1>0, <1>1 DEF QrDisposed, Turn, TurnsOf, FenceKnows
  <2>4. CASE QrLooksUp(p)
    BY <2>4, <2>0, <1>0, <1>1 DEF QrLooksUp, Turn, TurnsOf, FenceKnows
  <2>5. CASE QrStarts(p)
    BY <2>5, <2>0, <1>0, <1>1 DEF QrStarts, Turn, TurnsOf, FenceKnows
  <2>6. CASE LogoutBegins(p)
    BY <2>6, <2>0, <1>0, <1>1 DEF LogoutBegins, Turn, TurnsOf, FenceKnows
  <2>7. CASE LogoutStopFails(p)
    BY <2>7, <2>0, <1>0, <1>1 DEF LogoutStopFails, Turn, TurnsOf, FenceKnows, CancelLogin
  <2>8. CASE LogoutStops(p)
    BY <2>8, <2>0, <1>0, <1>1 DEF LogoutStops, Turn, TurnsOf, FenceKnows, CancelLogin
  <2>9. CASE LogoutWaited(p)
    BY <2>9, <2>0, <1>0, <1>1 DEF LogoutWaited, Turn, TurnsOf, FenceKnows
  <2>10. CASE LogoutDeletes(p)
    BY <2>10, <2>0, <1>0, <1>1 DEF LogoutDeletes, Turn, TurnsOf, FenceKnows
  <2>11. CASE SaveError(p)
    BY <2>11, <2>0, <1>0, <1>1 DEF SaveError, Turn, TurnsOf, FenceKnows
  <2>12. CASE SendFinds(p)
    BY <2>12, <2>0, <1>0, <1>1 DEF SendFinds, Turn, TurnsOf, FenceKnows
  <2>13. CASE SendRestores(p)
    BY <2>13, <2>0, <1>0, <1>1 DEF SendRestores, Turn, TurnsOf, FenceKnows
  <2>14. CASE BootReads(p)
    BY <2>14, <2>0, <1>0, <1>1 DEF BootReads, Turn, TurnsOf, FenceKnows
  <2>15. CASE BootRestores(p)
    BY <2>15, <2>0, <1>0, <1>1 DEF BootRestores, Turn, TurnsOf, FenceKnows
  <2>16. CASE BootSavesError(p)
    BY <2>16, <2>0, <1>0, <1>1 DEF BootSavesError, Turn, TurnsOf, FenceKnows
  <2>17. CASE RestoreLogsIn(p)
    BY <2>17, <2>0, <1>0, <1>1 DEF RestoreLogsIn, Turn, TurnsOf, NextAttempt, FenceKnows
  <2>18. CASE RestoreSaves(p)
    BY <2>18, <2>0, <1>0, <1>1 DEF RestoreSaves, Turn, TurnsOf, NextAttempt, FenceKnows
  <2>19. CASE RestoreEnds(p)
    BY <2>19, <2>0, <1>0, <1>1 DEF RestoreEnds, Turn, TurnsOf, FenceKnows
  <2>20. CASE CompleteListens(p)
    BY <2>20, <2>0, <1>0, <1>1 DEF CompleteListens, Turn, TurnsOf, FenceKnows
  <2>21. CASE CompleteSaves(p)
    BY <2>21, <2>0, <1>0, <1>1 DEF CompleteSaves, Turn, TurnsOf, FailCompensation,
       FenceKnows, IsPendingReady, CancelLogin
  <2>22. CASE CompensationDeletes(p)
    BY <2>22, <2>0, <1>0, <1>1 DEF CompensationDeletes, Turn, TurnsOf, FailCompensation,
       FenceKnows, CancelLogin
  <2>. QED BY <1>11, <2>1, <2>2, <2>3, <2>4, <2>5, <2>6, <2>7, <2>8, <2>9, <2>10, <2>11,
              <2>12, <2>13, <2>14, <2>15, <2>16, <2>17, <2>18, <2>19, <2>20, <2>21, <2>22
              DEF Operation
<1>12. ASSUME Aside(p) PROVE FenceKnows(p)'
  <2>0. TurnsOf(p)
    BY Turns
  <2>1. CASE LeaseIsLost(p)
    BY <2>1, <2>0, <1>0, <1>1 DEF LeaseIsLost, Turn, TurnsOf, FenceKnows, CancelLogin,
       MapsKnow
  <2>2. CASE FenceEnds(p)
    BY <2>2, <2>0, <1>0, <1>1 DEF FenceEnds, Turn, TurnsOf, FenceKnows, NoFence
  <2>3. CASE ListenerCloses(p)
    BY <2>3, <2>0, <1>0, <1>1 DEF ListenerCloses, Turn, TurnsOf, FenceKnows
  <2>4. CASE ListenerClosed(p)
    BY <2>4, <2>0, <1>0, <1>1 DEF ListenerClosed, Turn, TurnsOf, FenceKnows
  <2>5. CASE Crashes(p)
    BY <2>5, <2>0, <1>0, <1>1 DEF Crashes, Turn, TurnsOf, Ends, FenceKnows, NoFence
  <2>6. CASE ShutsDown(p)
    BY <2>6, <2>0, <1>0, <1>1 DEF ShutsDown, Turn, TurnsOf, Ends, FenceKnows, NoFence
  <2>. QED BY <1>12, <2>1, <2>2, <2>3, <2>4, <2>5, <2>6 DEF Aside
<1>13. ASSUME NEW q \in Logins, Login(p, q) PROVE FenceKnows(p)'
  <2>0. TurnsOf(p) /\ AccountTurn(p, q)
    BY Turns
  <2>1. CASE NativeSettles(p, q)
    BY <2>1, <2>0, <1>0, <1>1 DEF NativeSettles, Turn, TurnsOf, FenceKnows
  <2>2. CASE CompleteBegins(p, q)
    BY <2>2, <2>0, <1>0, <1>1 DEF CompleteBegins, Turn, TurnsOf, AccountTurn, FenceKnows
  <2>3. CASE FailureRecorded(p, q)
    BY <2>3, <2>0, <1>0, <1>1 DEF FailureRecorded, Turn, TurnsOf, FenceKnows
  <2>. QED BY <1>13, <2>1, <2>2, <2>3 DEF Login
<1>. QED BY <1>11, <1>12, <1>13

LEMMA ListensStep ==
  ASSUME Types, OpInv, NEW p \in Procs, ListensKnow(p), MapsKnow(p), LoginKnows(p)
  PROVE  /\ Operation(p) \/ Aside(p) => ListensKnow(p)'
         /\ \A q \in Logins : Login(p, q) => ListensKnow(p)'
<1>. USE DEF mapVars, taskVars, loginVars
<1>0. /\ native \in [Logins -> {"none", "running", "resolved", "failed", "done"}]
      /\ stopped \in [Logins -> BOOLEAN] /\ cancelled \in [Logins -> BOOLEAN]
      /\ home \in [Logins -> Procs \cup {Nothing}] /\ Nothing \notin Procs \cup Logins
      /\ pend \in [Procs -> Logins \cup {Nothing}] /\ active \in [Procs -> Apis \cup {Nothing}]
      /\ listens \in [Procs -> SUBSET Apis] /\ fence \in [Procs -> Fences]
      /\ op[p].q \in Logins \cup {Nothing} /\ Logins \subseteq Apis
  BY OpFields DEF Types, NativeTypes, CancelTypes, MapTypes, ApiTypes, TaskTypes, Apis
<1>1. /\ ListensKnow(p)
      /\ op[p].at = "account" => op[p].q \in Logins
      /\ \A q \in Logins : qr[q] = "unused" => home[q] = Nothing
      /\ \A q \in Logins : home[q] = Nothing => native[q] = "none"
  BY DEF OpInv, Used, Knows
<1>2. \A q : AfterFailure(q) \in {"failed", "done"}
  BY AfterFailureType
<1>. USE DEF StopLogin, StopApi, HasApi
<1>11. ASSUME Operation(p) PROVE ListensKnow(p)'
  <2>0. TurnsOf(p)
    BY Turns
  <2>1. CASE QrRefused(p)
    BY <2>1, <2>0, <1>0, <1>1 DEF QrRefused, Turn, TurnsOf, ListensKnow
  <2>2. CASE QrReplaces(p)
    BY <2>2, <2>0, <1>0, <1>1 DEF QrReplaces, Turn, TurnsOf, ListensKnow
  <2>3. CASE QrDisposed(p)
    BY <2>3, <2>0, <1>0, <1>1 DEF QrDisposed, Turn, TurnsOf, ListensKnow
  <2>4. CASE QrLooksUp(p)
    BY <2>4, <2>0, <1>0, <1>1 DEF QrLooksUp, Turn, TurnsOf, ListensKnow
  <2>5. CASE QrStarts(p)
    BY <2>5, <2>0, <1>0, <1>1 DEF QrStarts, Turn, TurnsOf, ListensKnow
  <2>6. CASE LogoutBegins(p)
    BY <2>6, <2>0, <1>0, <1>1 DEF LogoutBegins, Turn, TurnsOf, ListensKnow
  <2>7. CASE LogoutStopFails(p)
    BY <2>7, <2>0, <1>0, <1>1 DEF LogoutStopFails, Turn, TurnsOf, ListensKnow
  <2>8. CASE LogoutStops(p)
    BY <2>8, <2>0, <1>0, <1>1 DEF LogoutStops, Turn, TurnsOf, ListensKnow
  <2>9. CASE LogoutWaited(p)
    BY <2>9, <2>0, <1>0, <1>1 DEF LogoutWaited, Turn, TurnsOf, ListensKnow
  <2>10. CASE LogoutDeletes(p)
    BY <2>10, <2>0, <1>0, <1>1 DEF LogoutDeletes, Turn, TurnsOf, ListensKnow
  <2>11. CASE SaveError(p)
    BY <2>11, <2>0, <1>0, <1>1 DEF SaveError, Turn, TurnsOf, ListensKnow
  <2>12. CASE SendFinds(p)
    BY <2>12, <2>0, <1>0, <1>1 DEF SendFinds, Turn, TurnsOf, ListensKnow
  <2>13. CASE SendRestores(p)
    BY <2>13, <2>0, <1>0, <1>1 DEF SendRestores, Turn, TurnsOf, ListensKnow
  <2>14. CASE BootReads(p)
    BY <2>14, <2>0, <1>0, <1>1 DEF BootReads, Turn, TurnsOf, ListensKnow
  <2>15. CASE BootRestores(p)
    BY <2>15, <2>0, <1>0, <1>1 DEF BootRestores, Turn, TurnsOf, ListensKnow
  <2>16. CASE BootSavesError(p)
    BY <2>16, <2>0, <1>0, <1>1 DEF BootSavesError, Turn, TurnsOf, ListensKnow
  <2>17. CASE RestoreLogsIn(p)
    <3>1. \A q \in listens'[p] \cap Logins : q \in listens[p]
      BY <2>17, <1>0, NextApi, NoLoginIsRestored DEF RestoreLogsIn
    <3>. QED BY <2>17, <3>1, <1>0, <1>1 DEF RestoreLogsIn, ListensKnow
  <2>18. CASE RestoreSaves(p)
    <3>1. \A r \in listens'[p] : r \in listens[p]
      BY <2>18, <1>0 DEF RestoreSaves
    <3>2. UNCHANGED <<home, native, stopped>>
      BY <2>18 DEF RestoreSaves
    <3>. QED BY <1>1, <3>1, <3>2 DEF ListensKnow
  <2>19. CASE RestoreEnds(p)
    BY <2>19, <2>0, <1>0, <1>1 DEF RestoreEnds, Turn, TurnsOf, ListensKnow
  <2>20. CASE CompleteListens(p)
    <3>0. UNCHANGED home
      BY <2>20 DEF CompleteListens

    <3>1. native' = native \/ native' = [native EXCEPT ![op[p].q] = AfterFailure(op[p].q)]
      BY <2>20 DEF CompleteListens
    <3>2. \A r \in Logins : native'[r] \in {"none", "running", "resolved"} => native'[r] = native[r]
      BY <1>0, <1>2, <3>1

    <3>3. \A r \in listens'[p] \cap Logins :
            \/ r \in listens[p] /\ (stopped'[r] => stopped[r])
            \/ r = op[p].q /\ ReadyForListener(p, r) /\ UNCHANGED <<stopped, native>>
      <4>1. CASE UNCHANGED <<listens, stopped>>
        BY <4>1
      <4>2. CASE StopLogin(p, op[p].q)
        BY <4>2, StopLoginDrops
      <4>3. CASE /\ listens' = [listens EXCEPT ![p] = @ \cup {op[p].q}]
                 /\ ReadyForListener(p, op[p].q) /\ UNCHANGED <<stopped, native>>
        BY <4>3, <1>0
      <4>. HIDE DEF StopLogin
      <4>. QED BY <2>20, <4>1, <4>2, <4>3 DEF CompleteListens
    <3>4. \A r \in Logins : r = op[p].q /\ ReadyForListener(p, r) =>
            home[r] = p /\ native[r] \notin {"none", "running"} /\ ~stopped[r]
      BY <2>20 DEF CompleteListens, LoginKnows, ReadyForListener, IsPendingReady
    <3>. QED BY <1>0, <1>1, <3>0, <3>2, <3>3, <3>4 DEF ListensKnow
  <2>21. CASE CompleteSaves(p)
    <3>0. UNCHANGED home
      BY <2>21 DEF CompleteSaves

    <3>1. native' = native \/ native' = [native EXCEPT ![op[p].q] = AfterFailure(op[p].q)]
      BY <2>21 DEF CompleteSaves
    <3>2. \A r \in Logins : native'[r] \in {"none", "running", "resolved"} => native'[r] = native[r]
      BY <1>0, <1>2, <3>1

    <3>3. \A r \in listens'[p] \cap Logins : r \in listens[p] /\ (stopped'[r] => stopped[r])
      <4>1. UNCHANGED <<listens, stopped>> \/ StopLogin(p, op[p].q)
        <5>. HIDE DEF StopLogin
        <5>. QED BY <2>21 DEF CompleteSaves
      <4>. QED BY <4>1, StopLoginDrops
    <3>. QED BY <1>0, <1>1, <3>0, <3>2, <3>3 DEF ListensKnow
  <2>22. CASE CompensationDeletes(p)
    BY <2>22, <2>0, <1>0, <1>1 DEF CompensationDeletes, Turn, TurnsOf, FailCompensation,
       ListensKnow
  <2>. QED BY <1>11, <2>1, <2>2, <2>3, <2>4, <2>5, <2>6, <2>7, <2>8, <2>9, <2>10, <2>11,
              <2>12, <2>13, <2>14, <2>15, <2>16, <2>17, <2>18, <2>19, <2>20, <2>21, <2>22
              DEF Operation
<1>12. ASSUME Aside(p) PROVE ListensKnow(p)'
  <2>0. TurnsOf(p)
    BY Turns
  <2>1. CASE LeaseIsLost(p)
    BY <2>1, <2>0, <1>0, <1>1 DEF LeaseIsLost, Turn, TurnsOf, ListensKnow
  <2>2. CASE FenceEnds(p)
    BY <2>2, <2>0, <1>0, <1>1 DEF FenceEnds, Turn, TurnsOf, ListensKnow
  <2>3. CASE ListenerCloses(p)
    BY <2>3, <2>0, <1>0, <1>1 DEF ListenerCloses, Turn, TurnsOf, ListensKnow
  <2>4. CASE ListenerClosed(p)
    BY <2>4, <2>0, <1>0, <1>1 DEF ListenerClosed, Turn, TurnsOf, ListensKnow
  <2>5. CASE Crashes(p)
    BY <2>5, <2>0, <1>0, <1>1 DEF Crashes, Turn, TurnsOf, Ends, ListensKnow
  <2>6. CASE ShutsDown(p)
    BY <2>6, <2>0, <1>0, <1>1 DEF ShutsDown, Turn, TurnsOf, Ends, ListensKnow
  <2>. QED BY <1>12, <2>1, <2>2, <2>3, <2>4, <2>5, <2>6 DEF Aside
<1>13. ASSUME NEW q \in Logins, Login(p, q) PROVE ListensKnow(p)'
  <2>0. TurnsOf(p) /\ AccountTurn(p, q)
    BY Turns
  <2>1. CASE NativeSettles(p, q)
    BY <2>1, <2>0, <1>0, <1>1, <1>2 DEF NativeSettles, Turn, TurnsOf, ListensKnow
  <2>2. CASE CompleteBegins(p, q)
    BY <2>2, <2>0, <1>0, <1>1 DEF CompleteBegins, Turn, TurnsOf, AccountTurn, ListensKnow
  <2>3. CASE FailureRecorded(p, q)
    BY <2>3, <2>0, <1>0, <1>1 DEF FailureRecorded, Turn, TurnsOf, ListensKnow
  <2>. QED BY <1>13, <2>1, <2>2, <2>3 DEF Login
<1>. QED BY <1>11, <1>12, <1>13

LEMMA WholeMoves ==
  ASSUME Types, OpInv, NEW p \in Procs, LoginKnows(p), \A q \in Logins : Whole(q)
  PROVE  /\ Operation(p) \/ Aside(p) => \A r \in Logins : Whole(r)'
         /\ \A q \in Logins : Login(p, q) => \A r \in Logins : Whole(r)'
<1>. DEFINE WholeGoal == \A r \in Logins : Whole(r)'
<1>. USE DEF mapVars, taskVars, loginVars
<1>0. /\ native \in [Logins -> {"none", "running", "resolved", "failed", "done"}]
      /\ stopped \in [Logins -> BOOLEAN] /\ cancelled \in [Logins -> BOOLEAN]
      /\ home \in [Logins -> Procs \cup {Nothing}] /\ Nothing \notin Procs \cup Logins
      /\ pend \in [Procs -> Logins \cup {Nothing}] /\ active \in [Procs -> Apis \cup {Nothing}]
      /\ listens \in [Procs -> SUBSET Apis] /\ fence \in [Procs -> Fences]
      /\ op[p].q \in Logins \cup {Nothing} /\ Logins \subseteq Apis
  BY OpFields DEF Types, NativeTypes, CancelTypes, MapTypes, ApiTypes, TaskTypes, Apis
<1>1. /\ \A q \in Logins : Whole(q)
      /\ op[p].at \in {"account", "saveQr"} =>
           op[p].q \in Logins /\ native[op[p].q] \notin {"none", "running", "resolved"}
      /\ \A q \in Logins : qr[q] = "unused" => native[q] = "none"
  BY DEF OpInv, Used, Knows, LoginKnows
<1>2. \A q : AfterFailure(q) \in {"failed", "done"}
  BY AfterFailureType
<1>. USE DEF StopLogin, HasApi, Whole
<1>11. ASSUME Operation(p) PROVE WholeGoal
  <2>0. TurnsOf(p)
    BY Turns
  <2>1. CASE QrRefused(p)
    BY <2>1, <2>0, <1>0, <1>1 DEF QrRefused, Turn, TurnsOf, WholeGoal
  <2>2. CASE QrReplaces(p)
    BY <2>2, <2>0, <1>0, <1>1 DEF QrReplaces, Turn, TurnsOf, WholeGoal, CancelLogin
  <2>3. CASE QrDisposed(p)
    BY <2>3, <2>0, <1>0, <1>1 DEF QrDisposed, Turn, TurnsOf, WholeGoal
  <2>4. CASE QrLooksUp(p)
    BY <2>4, <2>0, <1>0, <1>1 DEF QrLooksUp, Turn, TurnsOf, WholeGoal
  <2>5. CASE QrStarts(p)
    BY <2>5, <2>0, <1>0, <1>1 DEF QrStarts, Turn, TurnsOf, WholeGoal
  <2>6. CASE LogoutBegins(p)
    BY <2>6, <2>0, <1>0, <1>1 DEF LogoutBegins, Turn, TurnsOf, WholeGoal
  <2>7. CASE LogoutStopFails(p)
    BY <2>7, <2>0, <1>0, <1>1 DEF LogoutStopFails, Turn, TurnsOf, WholeGoal, CancelLogin
  <2>8. CASE LogoutStops(p)
    BY <2>8, <2>0, <1>0, <1>1 DEF LogoutStops, Turn, TurnsOf, WholeGoal, CancelLogin
  <2>9. CASE LogoutWaited(p)
    BY <2>9, <2>0, <1>0, <1>1 DEF LogoutWaited, Turn, TurnsOf, WholeGoal
  <2>10. CASE LogoutDeletes(p)
    BY <2>10, <2>0, <1>0, <1>1 DEF LogoutDeletes, Turn, TurnsOf, WholeGoal
  <2>11. CASE SaveError(p)
    BY <2>11, <2>0, <1>0, <1>1 DEF SaveError, Turn, TurnsOf, WholeGoal
  <2>12. CASE SendFinds(p)
    BY <2>12, <2>0, <1>0, <1>1 DEF SendFinds, Turn, TurnsOf, WholeGoal
  <2>13. CASE SendRestores(p)
    BY <2>13, <2>0, <1>0, <1>1 DEF SendRestores, Turn, TurnsOf, WholeGoal
  <2>14. CASE BootReads(p)
    BY <2>14, <2>0, <1>0, <1>1 DEF BootReads, Turn, TurnsOf, WholeGoal
  <2>15. CASE BootRestores(p)
    BY <2>15, <2>0, <1>0, <1>1 DEF BootRestores, Turn, TurnsOf, WholeGoal
  <2>16. CASE BootSavesError(p)
    BY <2>16, <2>0, <1>0, <1>1 DEF BootSavesError, Turn, TurnsOf, WholeGoal
  <2>17. CASE RestoreLogsIn(p)
    BY <2>17, <2>0, <1>0, <1>1 DEF RestoreLogsIn, Turn, TurnsOf, NextAttempt, WholeGoal
  <2>18. CASE RestoreSaves(p)
    BY <2>18, <2>0, <1>0, <1>1 DEF RestoreSaves, Turn, TurnsOf, NextAttempt, WholeGoal
  <2>19. CASE RestoreEnds(p)
    BY <2>19, <2>0, <1>0, <1>1 DEF RestoreEnds, Turn, TurnsOf, WholeGoal
  <2>20. CASE CompleteListens(p)
    <3>1. native' = native \/ native' = [native EXCEPT ![op[p].q] = AfterFailure(op[p].q)]
      BY <2>20 DEF CompleteListens
    <3>2. \A r \in Logins : native'[r] \in {"none", "running", "resolved"} => native'[r] = native[r]
      BY <1>0, <1>2, <3>1

    <3>3. \A r \in Logins : r # op[p].q => stopped'[r] = stopped[r]
      BY <2>20, <1>0 DEF CompleteListens
    <3>4. native'[op[p].q] \notin {"none", "running", "resolved"}
      BY <2>20, <1>1, <3>2 DEF CompleteListens
    <3>5. UNCHANGED cancelled
      BY <2>20 DEF CompleteListens
    <3>. QED BY <1>1, <3>2, <3>3, <3>4, <3>5 DEF WholeGoal
  <2>21. CASE CompleteSaves(p)
    <3>1. native' = native \/ native' = [native EXCEPT ![op[p].q] = AfterFailure(op[p].q)]
      BY <2>21 DEF CompleteSaves
    <3>2. \A r \in Logins : native'[r] \in {"none", "running", "resolved"} => native'[r] = native[r]
      BY <1>0, <1>2, <3>1

    <3>3. \A r \in Logins : r # op[p].q => stopped'[r] = stopped[r]
      BY <2>21, <1>0 DEF CompleteSaves
    <3>4. native'[op[p].q] \notin {"none", "running", "resolved"}
      BY <2>21, <1>1, <3>2 DEF CompleteSaves
    <3>5. \A r \in Logins : cancelled[r] => cancelled'[r]
      BY <2>21, <1>0 DEF CompleteSaves, FailCompensation, CancelLogin
    <3>. QED BY <1>1, <3>2, <3>3, <3>4, <3>5 DEF WholeGoal
  <2>22. CASE CompensationDeletes(p)
    BY <2>22, <2>0, <1>0, <1>1 DEF CompensationDeletes, Turn, TurnsOf, FailCompensation,
       WholeGoal, CancelLogin
  <2>. QED BY <1>11, <2>1, <2>2, <2>3, <2>4, <2>5, <2>6, <2>7, <2>8, <2>9, <2>10, <2>11,
              <2>12, <2>13, <2>14, <2>15, <2>16, <2>17, <2>18, <2>19, <2>20, <2>21, <2>22
              DEF Operation
<1>12. ASSUME Aside(p) PROVE WholeGoal
  <2>0. TurnsOf(p)
    BY Turns
  <2>1. CASE LeaseIsLost(p)
    BY <2>1, <2>0, <1>0, <1>1 DEF LeaseIsLost, Turn, TurnsOf, WholeGoal, CancelLogin
  <2>2. CASE FenceEnds(p)
    BY <2>2, <2>0, <1>0, <1>1 DEF FenceEnds, Turn, TurnsOf, WholeGoal
  <2>3. CASE ListenerCloses(p)
    BY <2>3, <2>0, <1>0, <1>1 DEF ListenerCloses, Turn, TurnsOf, WholeGoal
  <2>4. CASE ListenerClosed(p)
    BY <2>4, <2>0, <1>0, <1>1 DEF ListenerClosed, Turn, TurnsOf, WholeGoal
  <2>5. CASE Crashes(p)
    BY <2>5, <2>0, <1>0, <1>1 DEF Crashes, Turn, TurnsOf, Ends, WholeGoal
  <2>6. CASE ShutsDown(p)
    BY <2>6, <2>0, <1>0, <1>1 DEF ShutsDown, Turn, TurnsOf, Ends, WholeGoal
  <2>. QED BY <1>12, <2>1, <2>2, <2>3, <2>4, <2>5, <2>6 DEF Aside
<1>13. ASSUME NEW q \in Logins, Login(p, q) PROVE WholeGoal
  <2>0. TurnsOf(p) /\ AccountTurn(p, q)
    BY Turns
  <2>1. CASE NativeSettles(p, q)
    BY <2>1, <2>0, <1>0, <1>1, <1>2 DEF NativeSettles, Turn, TurnsOf, WholeGoal
  <2>2. CASE CompleteBegins(p, q)
    BY <2>2, <2>0, <1>0, <1>1 DEF CompleteBegins, Turn, TurnsOf, AccountTurn, WholeGoal
  <2>3. CASE FailureRecorded(p, q)
    BY <2>3, <2>0, <1>0, <1>1 DEF FailureRecorded, Turn, TurnsOf, WholeGoal
  <2>. QED BY <1>13, <2>1, <2>2, <2>3 DEF Login
<1>. QED BY <1>11, <1>12, <1>13

LEMMA AloneStep ==
  ASSUME Types, OpInv, NEW p \in Procs, ListensKnow(p), MapsKnow(p), LoginKnows(p), FenceKnows(p),
         p \notin beside => Alone(p), p \notin beside'
  PROVE  /\ Operation(p) \/ Aside(p) => Alone(p)'
         /\ \A q \in Logins : Login(p, q) => Alone(p)'
<1>. USE DEF mapVars, taskVars, loginVars
<1>0. /\ native \in [Logins -> {"none", "running", "resolved", "failed", "done"}]
      /\ stopped \in [Logins -> BOOLEAN] /\ cancelled \in [Logins -> BOOLEAN]
      /\ home \in [Logins -> Procs \cup {Nothing}] /\ Nothing \notin Procs \cup Logins
      /\ pend \in [Procs -> Logins \cup {Nothing}] /\ active \in [Procs -> Apis \cup {Nothing}]
      /\ listens \in [Procs -> SUBSET Apis] /\ fence \in [Procs -> Fences]
      /\ op[p].q \in Logins \cup {Nothing} /\ Logins \subseteq Apis
  BY OpFields DEF Types, NativeTypes, CancelTypes, MapTypes, ApiTypes, TaskTypes, Apis
<1>1. /\ Alone(p) \/ p \in beside
      /\ op[p].at = "restoreSave" => op[p].api \notin Logins /\ op[p].api # Nothing
      /\ op[p].at \in {"account", "saveQr"} => op[p].q \in Logins
      /\ beside \subseteq Procs
  BY NoLoginIsRestored DEF OpInv, Used, Knows, Types, CountTypes
<1>. USE DEF StopLogin, StopApi, ClearMaps, NotesBeside, history, CanEnter
<1>11. ASSUME Operation(p) PROVE Alone(p)'
  <2>0. TurnsOf(p)
    BY Turns
  <2>1. CASE QrRefused(p)
    BY <2>1, <2>0, <1>0, <1>1 DEF QrRefused, Turn, TurnsOf, Alone
  <2>2. CASE QrReplaces(p)
    BY <2>2, <2>0, <1>0, <1>1 DEF QrReplaces, Turn, TurnsOf, Alone, ListensKnow
  <2>3. CASE QrDisposed(p)
    BY <2>3, <2>0, <1>0, <1>1 DEF QrDisposed, Turn, TurnsOf, Alone, MapsKnow
  <2>4. CASE QrLooksUp(p)
    BY <2>4, <2>0, <1>0, <1>1 DEF QrLooksUp, Turn, TurnsOf, Alone, MapsKnow
  <2>5. CASE QrStarts(p)
    BY <2>5, <2>0, <1>0, <1>1 DEF QrStarts, Turn, TurnsOf, Alone, MapsKnow
  <2>6. CASE LogoutBegins(p)
    BY <2>6, <2>0, <1>0, <1>1 DEF LogoutBegins, Turn, TurnsOf, Alone
  <2>7. CASE LogoutStopFails(p)
    BY <2>7, <2>0, <1>0, <1>1 DEF LogoutStopFails, Turn, TurnsOf, Alone
  <2>8. CASE LogoutStops(p)
    BY <2>8, <2>0, <1>0, <1>1 DEF LogoutStops, Turn, TurnsOf, Alone, ListensKnow, MapsKnow
  <2>9. CASE LogoutWaited(p)
    BY <2>9, <2>0, <1>0, <1>1 DEF LogoutWaited, Turn, TurnsOf, Alone
  <2>10. CASE LogoutDeletes(p)
    BY <2>10, <2>0, <1>0, <1>1 DEF LogoutDeletes, Turn, TurnsOf, Alone
  <2>11. CASE SaveError(p)
    BY <2>11, <2>0, <1>0, <1>1 DEF SaveError, Turn, TurnsOf, Alone
  <2>12. CASE SendFinds(p)
    BY <2>12, <2>0, <1>0, <1>1 DEF SendFinds, Turn, TurnsOf, Alone
  <2>13. CASE SendRestores(p)
    BY <2>13, <2>0, <1>0, <1>1 DEF SendRestores, Turn, TurnsOf, Alone
  <2>14. CASE BootReads(p)
    BY <2>14, <2>0, <1>0, <1>1 DEF BootReads, Turn, TurnsOf, Alone
  <2>15. CASE BootRestores(p)
    BY <2>15, <2>0, <1>0, <1>1 DEF BootRestores, Turn, TurnsOf, Alone
  <2>16. CASE BootSavesError(p)
    BY <2>16, <2>0, <1>0, <1>1 DEF BootSavesError, Turn, TurnsOf, Alone
  <2>17. CASE RestoreLogsIn(p)
    <3>1. \A q \in listens'[p] \cap Logins : q \in listens[p]
      BY <2>17, <1>0, NextApi, NoLoginIsRestored DEF RestoreLogsIn
    <3>. QED BY <2>17, <2>0, <3>1, <1>0, <1>1 DEF RestoreLogsIn, Turn, TurnsOf, NextAttempt, Alone
  <2>18. CASE RestoreSaves(p)
    <3>1. active[p] = Nothing
      BY <2>18, <1>1 DEF RestoreSaves, MapsKnow, Bare
    <3>2. CASE UNCHANGED active
      <4>1. \A q \in listens'[p] : q \in listens[p]
        BY <2>18, <1>0 DEF RestoreSaves
      <4>2. UNCHANGED <<pend, fence>> /\ op'[p].at \in {"idle", "login", "saveError"}
        BY <2>18, <2>0, <3>1, <3>2, <1>0, <1>1 DEF RestoreSaves, NextAttempt, Turn, TurnsOf
      <4>3. beside' = beside
        BY <2>18, <3>2, <3>1, <1>0, <1>1 DEF RestoreSaves
      <4>. QED BY <1>1, <3>2, <4>1, <4>2, <4>3 DEF Alone
    <3>3. CASE ~UNCHANGED active
      <4>1. listens' = listens /\ listens[p] \cap Logins = {} /\ op'[p].at = "avatars"
        BY <2>18, <2>0, <3>3, <1>0, <1>1 DEF RestoreSaves, NextAttempt, Turn, TurnsOf
      <4>. QED BY <4>1 DEF Alone
    <3>. QED BY <3>2, <3>3
  <2>19. CASE RestoreEnds(p)
    BY <2>19, <2>0, <1>0, <1>1 DEF RestoreEnds, Turn, TurnsOf, Alone
  <2>20. CASE CompleteListens(p)
    <3>1. p \notin beside
      BY <2>20, <1>1 DEF CompleteListens
    <3>2. CASE op'[p].at = "saveQr"
      <4>1. /\ ReadyForListener(p, op[p].q) /\ active[p] = Nothing
            /\ listens' = [listens EXCEPT ![p] = @ \cup {op[p].q}] /\ UNCHANGED <<pend, active, fence>>
        BY <2>20, <2>0, <3>2, <1>1 DEF CompleteListens, Turn, TurnsOf
      <4>2. pend[p] = op[p].q /\ ~cancelled[op[p].q] /\ op[p].q \in Logins
        BY <2>20, <1>1, <4>1 DEF CompleteListens, ReadyForListener, IsPendingReady
      <4>3. fence[p].on => fence[p].q # op[p].q
        BY <4>2, <1>0 DEF FenceKnows
      <4>4. \A q \in listens'[p] \cap Logins : q \in listens[p] \/ q = op[p].q
        BY <4>1, <1>0
      <4>5. \A q \in listens'[p] \cap Logins : pend[p] = q /\ (fence[p].on => fence[p].q # q)
        BY <1>1, <3>1, <4>2, <4>3, <4>4 DEF Alone
      <4>. QED BY <3>2, <4>1, <4>5 DEF Alone
    <3>3. CASE op'[p].at # "saveQr"
      <4>0. op'[p].at = "idle" /\ (UNCHANGED listens \/ StopLogin(p, op[p].q))
        <5>. HIDE DEF StopLogin
        <5>. QED BY <2>20, <2>0, <3>3 DEF CompleteListens, Turn, TurnsOf
      <4>1. op'[p].at = "idle" /\ \A q \in listens'[p] : q \in listens[p]
        BY <4>0, StopLoginDrops
      <4>2. UNCHANGED <<pend, active, fence>>
        BY <2>20 DEF CompleteListens
      <4>. QED BY <1>1, <3>1, <4>1, <4>2 DEF Alone
    <3>. QED BY <3>2, <3>3
  <2>21. CASE CompleteSaves(p)
    <3>1. p \notin beside /\ UNCHANGED <<pend, fence>>
      BY <2>21, <1>1 DEF CompleteSaves
    <3>2. \A q \in listens'[p] : q \in listens[p]
      <4>1. UNCHANGED <<listens, stopped>> \/ StopLogin(p, op[p].q)
        <5>. HIDE DEF StopLogin
        <5>. QED BY <2>21 DEF CompleteSaves
      <4>. QED BY <4>1, StopLoginDrops
    <3>3. op'[p].at \in {"idle", "compensate", "saveError"}
      BY <2>21, <2>0 DEF CompleteSaves, FailCompensation, Turn, TurnsOf
    <3>4. active[p] = Nothing
      BY <2>21, <3>1, <1>1 DEF CompleteSaves, Alone
    <3>5. active'[p] = Nothing \/ (active'[p] = op[p].q /\ pend[p] = op[p].q)
      BY <2>21, <3>4, <1>0 DEF CompleteSaves, IsPendingReady
    <3>. QED BY <1>1, <3>1, <3>2, <3>3, <3>5 DEF Alone
  <2>22. CASE CompensationDeletes(p)
    BY <2>22, <2>0, <1>0, <1>1 DEF CompensationDeletes, Turn, TurnsOf, FailCompensation,
       Alone
  <2>. QED BY <1>11, <2>1, <2>2, <2>3, <2>4, <2>5, <2>6, <2>7, <2>8, <2>9, <2>10, <2>11,
              <2>12, <2>13, <2>14, <2>15, <2>16, <2>17, <2>18, <2>19, <2>20, <2>21, <2>22
              DEF Operation
<1>12. ASSUME Aside(p) PROVE Alone(p)'
  <2>0. TurnsOf(p)
    BY Turns
  <2>1. CASE LeaseIsLost(p)
    BY <2>1, <2>0, <1>0, <1>1 DEF LeaseIsLost, Turn, TurnsOf, Alone, ListensKnow
  <2>2. CASE FenceEnds(p)
    BY <2>2, <2>0, <1>0, <1>1 DEF FenceEnds, Turn, TurnsOf, Alone, NoFence
  <2>3. CASE ListenerCloses(p)
    BY <2>3, <2>0, <1>0, <1>1 DEF ListenerCloses, Turn, TurnsOf, Alone
  <2>4. CASE ListenerClosed(p)
    BY <2>4, <2>0, <1>0, <1>1 DEF ListenerClosed, Turn, TurnsOf, Alone
  <2>5. CASE Crashes(p)
    BY <2>5, <2>0, <1>0, <1>1 DEF Crashes, Turn, TurnsOf, Ends, Alone, NoFence
  <2>6. CASE ShutsDown(p)
    BY <2>6, <2>0, <1>0, <1>1 DEF ShutsDown, Turn, TurnsOf, Ends, Alone, NoFence
  <2>. QED BY <1>12, <2>1, <2>2, <2>3, <2>4, <2>5, <2>6 DEF Aside
<1>13. ASSUME NEW q \in Logins, Login(p, q) PROVE Alone(p)'
  <2>0. TurnsOf(p) /\ AccountTurn(p, q)
    BY Turns
  <2>1. CASE NativeSettles(p, q)
    BY <2>1, <2>0, <1>0, <1>1 DEF NativeSettles, Turn, TurnsOf, Alone
  <2>2. CASE CompleteBegins(p, q)
    BY <2>2, <2>0, <1>0, <1>1 DEF CompleteBegins, Turn, TurnsOf, AccountTurn, Alone
  <2>3. CASE FailureRecorded(p, q)
    BY <2>3, <2>0, <1>0, <1>1 DEF FailureRecorded, Turn, TurnsOf, Alone
  <2>. QED BY <1>13, <2>1, <2>2, <2>3 DEF Login
<1>. QED BY <1>11, <1>12, <1>13

LEMMA SilentStep ==
  ASSUME Types, OpInv, NEW p \in Procs, ListensKnow(p), MapsKnow(p), LoginKnows(p), FenceKnows(p),
         Silent(p), ~Fault, UNCHANGED faults
  PROVE  /\ Operation(p) \/ Aside(p) => Silent(p)'
         /\ \A q \in Logins : Login(p, q) => Silent(p)'
<1>. USE DEF mapVars, taskVars, loginVars
<1>0. /\ native \in [Logins -> {"none", "running", "resolved", "failed", "done"}]
      /\ stopped \in [Logins -> BOOLEAN] /\ cancelled \in [Logins -> BOOLEAN]
      /\ home \in [Logins -> Procs \cup {Nothing}] /\ Nothing \notin Procs \cup Logins
      /\ pend \in [Procs -> Logins \cup {Nothing}] /\ active \in [Procs -> Apis \cup {Nothing}]
      /\ listens \in [Procs -> SUBSET Apis] /\ fence \in [Procs -> Fences]
      /\ op[p].q \in Logins \cup {Nothing} /\ Logins \subseteq Apis
  BY OpFields DEF Types, NativeTypes, CancelTypes, MapTypes, ApiTypes, TaskTypes, Apis
<1>1. /\ Silent(p) /\ ~Fault
      /\ op[p].at \in {"account", "saveQr"} => op[p].q \in Logins
      /\ op[p].at = "restoreSave" => op[p].api \notin Logins /\ op[p].api # Nothing
  BY NoLoginIsRestored DEF OpInv, Used, Knows
<1>. USE DEF StopLogin, StopApi, ClearMaps, Saving, CanEnter
<1>11. ASSUME Operation(p) PROVE Silent(p)'
  <2>0. TurnsOf(p)
    BY Turns
  <2>1. CASE QrRefused(p)
    BY <2>1, <2>0, <1>0, <1>1 DEF QrRefused, Turn, TurnsOf, Silent
  <2>2. CASE QrReplaces(p)
    BY <2>2, <2>0, <1>0, <1>1 DEF QrReplaces, Turn, TurnsOf, Silent, ListensKnow,
       CancelLogin
  <2>3. CASE QrDisposed(p)
    BY <2>3, <2>0, <1>0, <1>1 DEF QrDisposed, Turn, TurnsOf, Silent, MapsKnow
  <2>4. CASE QrLooksUp(p)
    BY <2>4, <2>0, <1>0, <1>1 DEF QrLooksUp, Turn, TurnsOf, Silent
  <2>5. CASE QrStarts(p)
    BY <2>5, <2>0, <1>0, <1>1 DEF QrStarts, Turn, TurnsOf, Silent, MapsKnow, Bare
  <2>6. CASE LogoutBegins(p)
    BY <2>6, <2>0, <1>0, <1>1 DEF LogoutBegins, Turn, TurnsOf, Silent
  <2>7. CASE LogoutStopFails(p)
    BY <2>7, <2>0, <1>0, <1>1 DEF LogoutStopFails, Turn, TurnsOf, Silent, CancelLogin
  <2>8. CASE LogoutStops(p)
    BY <2>8, <2>0, <1>0, <1>1 DEF LogoutStops, Turn, TurnsOf, Silent, ListensKnow, MapsKnow,
       CancelLogin
  <2>9. CASE LogoutWaited(p)
    BY <2>9, <2>0, <1>0, <1>1 DEF LogoutWaited, Turn, TurnsOf, Silent, MapsKnow, Bare
  <2>10. CASE LogoutDeletes(p)
    BY <2>10, <2>0, <1>0, <1>1 DEF LogoutDeletes, Turn, TurnsOf, Silent
  <2>11. CASE SaveError(p)
    BY <2>11, <2>0, <1>0, <1>1 DEF SaveError, Turn, TurnsOf, Silent
  <2>12. CASE SendFinds(p)
    BY <2>12, <2>0, <1>0, <1>1 DEF SendFinds, Turn, TurnsOf, Silent
  <2>13. CASE SendRestores(p)
    BY <2>13, <2>0, <1>0, <1>1 DEF SendRestores, Turn, TurnsOf, Silent
  <2>14. CASE BootReads(p)
    BY <2>14, <2>0, <1>0, <1>1 DEF BootReads, Turn, TurnsOf, Silent
  <2>15. CASE BootRestores(p)
    BY <2>15, <2>0, <1>0, <1>1 DEF BootRestores, Turn, TurnsOf, Silent
  <2>16. CASE BootSavesError(p)
    BY <2>16, <2>0, <1>0, <1>1 DEF BootSavesError, Turn, TurnsOf, Silent
  <2>17. CASE RestoreLogsIn(p)
    <3>1. \A q \in listens'[p] \cap Logins : q \in listens[p]
      BY <2>17, <1>0, NextApi, NoLoginIsRestored DEF RestoreLogsIn
    <3>. QED BY <2>17, <2>0, <3>1, <1>0, <1>1 DEF RestoreLogsIn, Turn, TurnsOf, NextAttempt, Silent
  <2>18. CASE RestoreSaves(p)
    BY <2>18, <2>0, <1>0, <1>1 DEF RestoreSaves, Turn, TurnsOf, NextAttempt, Silent,
       MapsKnow, Bare
  <2>19. CASE RestoreEnds(p)
    BY <2>19, <2>0, <1>0, <1>1 DEF RestoreEnds, Turn, TurnsOf, Silent
  <2>20. CASE CompleteListens(p)
    <3>1. UNCHANGED <<active, cancelled, fence>>
      BY <2>20 DEF CompleteListens
    <3>2. CASE op'[p].at = "saveQr"
      <4>1. /\ ReadyForListener(p, op[p].q) /\ op'[p].q = op[p].q
            /\ listens' = [listens EXCEPT ![p] = @ \cup {op[p].q}]
        BY <2>20, <2>0, <3>2 DEF CompleteListens, Turn, TurnsOf
      <4>2. ~cancelled[op[p].q] /\ op[p].q \in Logins
        BY <2>20, <1>1, <4>1 DEF CompleteListens, ReadyForListener, IsPendingReady
      <4>3. fence[p].on => fence[p].api # op[p].q
        BY <4>2, <1>0 DEF FenceKnows
      <4>4. \A q \in listens'[p] \cap Logins : q \in listens[p] \/ q = op[p].q
        BY <4>1, <1>0
      <4>5. \A q \in listens[p] \cap Logins : active[p] = q /\ ~cancelled[q]
        BY <2>20, <1>1 DEF CompleteListens, Silent
      <4>. QED BY <1>1, <3>1, <3>2, <4>1, <4>3, <4>4, <4>5 DEF Silent
    <3>3. CASE op'[p].at # "saveQr"
      <4>0. UNCHANGED listens \/ StopLogin(p, op[p].q)
        <5>. HIDE DEF StopLogin
        <5>. QED BY <2>20, <2>0, <3>3 DEF CompleteListens, Turn, TurnsOf
      <4>1. \A q \in listens'[p] : q \in listens[p]
        BY <4>0, StopLoginDrops
      <4>2. \A q \in listens[p] \cap Logins : active[p] = q /\ ~cancelled[q]
        BY <2>20, <1>1 DEF CompleteListens, Silent
      <4>. QED BY <1>1, <3>1, <4>1, <4>2 DEF Silent
    <3>. QED BY <3>2, <3>3
  <2>21. CASE CompleteSaves(p)
    <3>1. UNCHANGED <<cancelled, fence, pend>>
      BY <2>21, <1>1 DEF CompleteSaves
    <3>2. CASE IsPendingReady(p, op[p].q)
      <4>1. active' = [active EXCEPT ![p] = op[p].q] /\ listens' = listens
        BY <2>21, <3>2, <1>1 DEF CompleteSaves
      <4>2. pend[p] = op[p].q /\ ~cancelled[op[p].q] /\ op[p].q \in Logins
        BY <2>21, <3>2, <1>1 DEF CompleteSaves, IsPendingReady
      <4>3. \A q \in listens[p] \cap Logins : q = op[p].q
        BY <1>1, <4>2 DEF Silent, MapsKnow
      <4>. QED BY <1>0, <1>1, <3>1, <4>1, <4>2, <4>3 DEF Silent
    <3>3. CASE ~IsPendingReady(p, op[p].q)
      <4>1. /\ StopLogin(p, op[p].q)
            /\ active' = [active EXCEPT ![p] = IF @ = op[p].q THEN Nothing ELSE @]
        BY <2>21, <3>3, <1>1 DEF CompleteSaves
      <4>2. op[p].q \notin listens'[p] /\ \A q \in listens'[p] : q \in listens[p]
        BY <2>21, <4>1, <1>0, <1>1 DEF CompleteSaves, ListensKnow
      <4>. QED BY <1>0, <1>1, <3>1, <4>1, <4>2 DEF Silent
    <3>. QED BY <3>2, <3>3
  <2>22. CASE CompensationDeletes(p)
    BY <2>22, <2>0, <1>0, <1>1 DEF CompensationDeletes, Turn, TurnsOf, FailCompensation,
       Silent, CancelLogin
  <2>. QED BY <1>11, <2>1, <2>2, <2>3, <2>4, <2>5, <2>6, <2>7, <2>8, <2>9, <2>10, <2>11,
              <2>12, <2>13, <2>14, <2>15, <2>16, <2>17, <2>18, <2>19, <2>20, <2>21, <2>22
              DEF Operation
<1>12. ASSUME Aside(p) PROVE Silent(p)'
  <2>0. TurnsOf(p)
    BY Turns
  <2>1. CASE LeaseIsLost(p)
    BY <2>1, <2>0, <1>0, <1>1 DEF LeaseIsLost, Turn, TurnsOf, Silent, ListensKnow, MapsKnow,
       CancelLogin
  <2>2. CASE FenceEnds(p)
    BY <2>2, <2>0, <1>0, <1>1 DEF FenceEnds, Turn, TurnsOf, Silent, NoFence
  <2>3. CASE ListenerCloses(p)
    BY <2>3, <2>0, <1>0, <1>1 DEF ListenerCloses, Turn, TurnsOf, Silent
  <2>4. CASE ListenerClosed(p)
    BY <2>4, <2>0, <1>0, <1>1 DEF ListenerClosed, Turn, TurnsOf, Silent
  <2>5. CASE Crashes(p)
    BY <2>5, <2>0, <1>0, <1>1 DEF Crashes, Turn, TurnsOf, Ends, Silent, NoFence
  <2>6. CASE ShutsDown(p)
    BY <2>6, <2>0, <1>0, <1>1 DEF ShutsDown, Turn, TurnsOf, Ends, Silent, NoFence
  <2>. QED BY <1>12, <2>1, <2>2, <2>3, <2>4, <2>5, <2>6 DEF Aside
<1>13. ASSUME NEW q \in Logins, Login(p, q) PROVE Silent(p)'
  <2>0. TurnsOf(p) /\ AccountTurn(p, q)
    BY Turns
  <2>1. CASE NativeSettles(p, q)
    BY <2>1, <2>0, <1>0, <1>1 DEF NativeSettles, Turn, TurnsOf, Silent
  <2>2. CASE CompleteBegins(p, q)
    BY <2>2, <2>0, <1>0, <1>1 DEF CompleteBegins, Turn, TurnsOf, AccountTurn, Silent
  <2>3. CASE FailureRecorded(p, q)
    BY <2>3, <2>0, <1>0, <1>1 DEF FailureRecorded, Turn, TurnsOf, Silent
  <2>. QED BY <1>13, <2>1, <2>2, <2>3 DEF Login
<1>. QED BY <1>11, <1>12, <1>13

\* What one process does leaves what the others know true.
LEMMA OthersKnow ==
  ASSUME Types, OpInv, NEW p \in Procs, LoginsStay(p), OthersSame(p), NEW r \in Procs \ {p},
         ListensKnow(r), MapsKnow(r), LoginKnows(r), FenceKnows(r)
  PROVE  /\ ListensKnow(r)' /\ MapsKnow(r)' /\ LoginKnows(r)' /\ FenceKnows(r)'
         /\ (r \notin beside => Alone(r)) => (r \notin beside' => Alone(r)')
         /\ Silent(r) => Silent(r)'
<1>1. Same(r)
  BY DEF OthersSame
<1>2. /\ Nothing \notin Procs \cup Logins
      /\ op[r].q \in Logins \cup {Nothing} /\ fence[r].q \in Logins \cup {Nothing}
      /\ op[r].at \in {"account", "saveQr"} => op[r].q \in Logins
  BY OpFields DEF Types, TaskTypes, Fences, OpInv, Knows, Used
<1>3. \A q \in Logins : home[q] = r =>
        home'[q] = r /\ cancelled'[q] = cancelled[q] /\ native'[q] = native[q] /\ stopped'[q] = stopped[q]
  BY <1>2 DEF LoginsStay, LoginStays
<1>4. \A q \in Logins : cancelled[q] => cancelled'[q]
  BY DEF LoginsStay, LoginStays
<1>5. ListensKnow(r)'
  BY <1>1, <1>3 DEF ListensKnow, Same, HasApi
<1>6. MapsKnow(r)'
  BY <1>1, <1>3 DEF MapsKnow, Same
<1>7. LoginKnows(r)'
  BY <1>1, <1>2, <1>3 DEF LoginKnows, Same
<1>8. FenceKnows(r)'
  BY <1>1, <1>2, <1>4 DEF FenceKnows, Same
<1>9. (r \notin beside => Alone(r)) => (r \notin beside' => Alone(r)')
  BY <1>1 DEF Alone, Same
<1>10. Silent(r) => Silent(r)'
  BY <1>1, <1>3 DEF Silent, Saving, Same, ListensKnow
<1>. QED BY <1>5, <1>6, <1>7, <1>8, <1>9, <1>10

\* Nor does a key that expires, a code that does, or a login that fails for want
\* of the lease.
LEMMA NobodyKnows ==
  ASSUME Types, OpInv, ReachInv, NEW r \in Procs,
         \/ KeyExpires \/ UNCHANGED vars
         \/ \E q \in Logins : QrExpires(q) \/ CompleteLocked(q)
  PROVE  /\ ListensKnow(r)' /\ MapsKnow(r)' /\ LoginKnows(r)' /\ FenceKnows(r)'
         /\ (r \notin beside => Alone(r)) => (r \notin beside' => Alone(r)')
         /\ Silent(r) => Silent(r)'
<1>1. Same(r) /\ UNCHANGED <<home, cancelled, stopped>>
  BY DEF KeyExpires, QrExpires, CompleteLocked, Same, vars, mapVars, taskVars, loginVars, history
<1>2. \/ native' = native
      \/ \E q \in Logins : native[q] = "resolved" /\ native' = [native EXCEPT ![q] = AfterFailure(q)]
  BY DEF KeyExpires, QrExpires, CompleteLocked, vars, loginVars
<1>3. /\ \A q \in Logins : native'[q] = native[q] \/ (native[q] = "resolved" /\ native'[q] \in {"failed", "done"})
      /\ op[r].at \in {"account", "saveQr"} => op[r].q \in Logins
  BY <1>2, AfterFailureType DEF Types, NativeTypes, OpInv, Knows, Used
<1>4. ListensKnow(r) /\ MapsKnow(r) /\ LoginKnows(r) /\ FenceKnows(r)
  BY DEF ReachInv
<1>5. ListensKnow(r)'
  BY <1>1, <1>3, <1>4 DEF ListensKnow, Same, HasApi
<1>6. MapsKnow(r)'
  BY <1>1, <1>4 DEF MapsKnow, Same
<1>7. LoginKnows(r)'
  BY <1>1, <1>3, <1>4 DEF LoginKnows, Same
<1>8. FenceKnows(r)'
  BY <1>1, <1>4 DEF FenceKnows, Same
<1>10. (r \notin beside => Alone(r)) => (r \notin beside' => Alone(r)')
  BY <1>1 DEF Alone, Same
<1>11. Silent(r) => Silent(r)'
  BY <1>1 DEF Silent, Saving, Same
<1>. QED BY <1>5, <1>6, <1>7, <1>8, <1>10, <1>11

LEMMA ReachStep ==
  ASSUME Types, OpInv, ReachInv, AloneInv, SilentInv, [Next]_vars
  PROVE  ReachInv' /\ AloneInv' /\ SilentInv'
<1>. DEFINE Kept(r) == /\ ListensKnow(r)' /\ MapsKnow(r)' /\ LoginKnows(r)' /\ FenceKnows(r)'
                       /\ r \notin beside' => Alone(r)'
                       /\ faults' = 0 => Silent(r)'
            AllKept == (\A r \in Procs : Kept(r)) /\ \A q \in Logins : Whole(q)'
<1>1. /\ \A r \in Procs : ListensKnow(r) /\ MapsKnow(r) /\ LoginKnows(r) /\ FenceKnows(r)
      /\ \A q \in Logins : Whole(q)
      /\ \A r \in Procs : r \notin beside => Alone(r)
  BY DEF ReachInv, AloneInv
<1>2. faults' = 0 => UNCHANGED faults /\ ~Fault /\ \A r \in Procs : Silent(r)
  BY HistoryStep DEF SilentInv, Types, CountTypes, Fault
<1>3. ASSUME NEW p \in Procs, Operation(p) \/ Aside(p) \/ \E q \in Logins : Login(p, q)
      PROVE  AllKept
  <2>1. LoginsStay(p) /\ OthersSame(p)
    BY <1>1, <1>3, LoginsOfOthers, OthersStay
  <2>2. \A r \in Procs \ {p} : Kept(r)
    BY <1>1, <1>2, <2>1, OthersKnow
  <2>3. ListensKnow(p)' /\ MapsKnow(p)' /\ LoginKnows(p)' /\ FenceKnows(p)'
    BY <1>1, <1>3, ListensStep, MapsStep, LoginKnowsStep, FenceStep
  <2>4. p \notin beside' => Alone(p)'
    BY <1>1, <1>3, AloneStep
  <2>5. faults' = 0 => Silent(p)'
    BY <1>1, <1>2, <1>3, SilentStep
  <2>6. \A q \in Logins : Whole(q)'
    BY <1>1, <1>3, WholeMoves
  <2>. QED BY <2>2, <2>3, <2>4, <2>5, <2>6
<1>4. ASSUME NEW q \in Logins, FailureLocked(q) PROVE AllKept
  <2>1. home[q] \in Procs
    BY <1>4 DEF FailureLocked, OpInv
  <2>2. Aside(home[q])
    BY <1>4 DEF FailureLocked, Aside
  <2>. QED BY <1>3, <2>1, <2>2
<1>5. ASSUME \/ KeyExpires \/ UNCHANGED vars
             \/ \E q \in Logins : QrExpires(q) \/ CompleteLocked(q)
      PROVE  AllKept
  <2>1. \A r \in Procs : Kept(r)
    BY <1>1, <1>2, <1>5, NobodyKnows
  <2>2. \A q \in Logins : Whole(q)'
    <3>1. UNCHANGED <<cancelled, stopped>>
      BY <1>5 DEF KeyExpires, QrExpires, CompleteLocked, vars, loginVars
    <3>2. \/ native' = native
          \/ \E q \in Logins : native[q] = "resolved" /\ native' = [native EXCEPT ![q] = AfterFailure(q)]
      BY <1>5 DEF KeyExpires, QrExpires, CompleteLocked, vars, loginVars
    <3>. QED BY <1>1, <3>1, <3>2, AfterFailureType DEF Whole, Types, NativeTypes
  <2>. QED BY <2>1, <2>2
<1>6. AllKept
  BY <1>3, <1>4, <1>5 DEF Next, Aside
<1>. QED BY <1>6 DEF ReachInv, AloneInv, SilentInv

-----------------------------------------------------------------------------
(* The invariant and what follows from it.                                  *)

LEMMA InitOK == Init => IInv
<1>. SUFFICES ASSUME Init PROVE IInv
  OBVIOUS
<1>1. Types
  <2>1. LeaseTypes /\ MapTypes /\ ApiTypes
    BY DEF Init, LeaseTypes, MapTypes, ApiTypes, Errors
  <2>2. CancelTypes /\ NativeTypes
    BY DEF Init, CancelTypes, NativeTypes, States
  <2>3. TaskTypes
    BY DEF Init, TaskTypes, Idle, NoFence, Ops, Fences, Points
  <2>4. CountTypes
    BY DEF Init, CountTypes, NoDoc, Docs
  <2>. QED BY <2>1, <2>2, <2>3, <2>4 DEF Types
<1>2. \A p \in Procs : /\ op[p].at = "idle" /\ pend[p] = Nothing /\ ~held[p] /\ ~lost[p]
                       /\ ~fence[p].on /\ listens[p] = {}
  BY DEF Init, Idle, NoFence
<1>3. \A q \in Logins : /\ q \notin Used /\ home[q] = Nothing /\ native[q] = "none"
                        /\ ~stopped[q]
  BY DEF Init, Used
<1>4. OpInv
  BY <1>2, <1>3 DEF OpInv, Knows
<1>5. ASSUME NEW p \in Procs PROVE Own(p)
  <2>1. ~Waiting(p) /\ ~Uses(p)
    BY <1>2 DEF Waiting, Uses
  <2>. QED BY <1>2, <2>1 DEF Own, OwnLease, OwnListens, OwnOp, OwnWait, Lonely
<1>6. OwnInv
  BY <1>5 DEF OwnInv
<1>7. VoidInv
  BY DEF Init, VoidInv
<1>8. ReachInv
  <2>1. \A p \in Procs : ListensKnow(p) /\ MapsKnow(p) /\ LoginKnows(p) /\ FenceKnows(p)
    BY <1>2 DEF Init, ListensKnow, MapsKnow, LoginKnows, FenceKnows, Bare
  <2>. QED BY <1>3, <2>1 DEF ReachInv, Whole
<1>9. AloneInv /\ SilentInv
  BY <1>2 DEF AloneInv, Alone, SilentInv, Silent
<1>. QED BY <1>1, <1>4, <1>6, <1>7, <1>8, <1>9, TypesAre DEF IInv

LEMMA StepOK == IInv /\ [Next]_vars => IInv'
<1>. SUFFICES ASSUME IInv, [Next]_vars PROVE IInv'
  OBVIOUS
<1>1. Types /\ OpInv /\ ReachInv /\ AloneInv /\ SilentInv /\ OwnInv /\ VoidInv
  BY TypesAre DEF IInv
<1>2. Types'
  BY <1>1, TypesStep
<1>3. TypeOK'
  BY <1>2 DEF TypeOK, Types, LeaseTypes, MapTypes, ApiTypes, TaskTypes, CancelTypes, NativeTypes,
              CountTypes, Docs, Ops, Fences, States
<1>4. OpInv'
  BY <1>1, KnowsStep, PendStep, BornStep DEF OpInv
<1>5. OwnInv'
  BY <1>1, OwnStep DEF ReachInv
<1>. QED BY <1>1, <1>3, <1>4, <1>5, ReachStep, VoidStep DEF IInv

\* The invariant holds in every state of every behaviour.
THEOREM Inductive == Spec => []IInv
  BY InitOK, StepOK, PTL DEF Spec

\* The maps, the document, the lease and the tasks keep their types, with any
\* number of processes and logins, lost leases, crashes and faults.
THEOREM TypeCorrect == Spec => []TypeOK
<1>1. IInv => TypeOK
  BY DEF IInv
<1>. QED BY <1>1, Inductive, PTL

\* server.ts and runOwnerLifecycle: two processes have a listener or a QR code
\* of the owner only after a lost lease, a slip or a fault.
THEOREM OneProcessOwns == Spec => []OwnerIsExclusive
<1>1. IInv => OwnerIsExclusive
  <2>. SUFFICES ASSUME IInv, Quiet, NEW p1 \in Procs, NEW p2 \in Procs, Uses(p1), Uses(p2)
                PROVE  p1 = p2
    BY DEF OwnerIsExclusive, Quiet
  <2>1. redis = p1 /\ redis = p2
    BY DEF IInv, OwnInv, Own, OwnLease
  <2>. QED BY <2>1
<1>. QED BY <1>1, Inductive, PTL

\* logoutZaloPersonal: a QR login from before a logout never brings the session
\* back, in a run without a lost lease, a slip or a fault.
THEOREM LogoutIsFinal == Spec => []LogoutVoidsLogins
<1>1. IInv => LogoutVoidsLogins
  BY DEF IInv, VoidInv, Over, Quiet, LogoutVoidsLogins
<1>. QED BY <1>1, Inductive, PTL

\* completeQrLogin and the cancellations: without a fault, a cancelled QR login
\* has no running listener once its completion is over, whatever leases are lost
\* and processes die.
THEOREM CancelledStaysSilent == Spec => []CancelledIsSilent
<1>1. IInv => CancelledIsSilent
  BY DEF IInv, SilentInv, Silent, Saving, CancelledIsSilent
<1>. QED BY <1>1, Inductive, PTL

\* logoutZaloPersonal: a logout stops the listener of a QR login, whatever failed
\* before, except in a process where it was started beside a restored client.
THEOREM LogoutReaches == Spec => []ListenerIsReachable
<1>1. IInv => ListenerIsReachable
  BY NothingAssumption DEF IInv, AloneInv, Alone, Reach, ListenerIsReachable
<1>. QED BY <1>1, Inductive, PTL
=============================================================================
