--------------------------- MODULE ServerLifecycle ---------------------------
(***************************************************************************)
(* One API process from its start to its end (server.ts), with the Redis   *)
(* client of the Facebook OAuth store (facebook-oauth.store.ts), which     *)
(* requests open on demand and the shutdown closes for good.               *)
(*                                                                         *)
(* The Zalo connector is reduced to the restore of one owner; it is        *)
(* modelled in ZaloLifecycle.  A client that connects may open its socket  *)
(* after it was destroyed: the store is written for that.                  *)
(***************************************************************************)
EXTENDS Naturals, FiniteSets

CONSTANTS
  Signals,   \* what may call shutdown: SIGINT, SIGTERM, an error of the server
  Attempts,  \* attempts to connect the store
  NoAttempt

ASSUME AttemptAssumption == NoAttempt \notin Attempts

VARIABLES
  boot,     \* where startServer is
  stop,     \* where the shutdown of a signal is
  parts,    \* what is up: "db", "lock", "http", "sockets", "scheduler"
  zalo,     \* the restore of the owner and its listener
  client,   \* the Redis client of the store
  attempt,  \* connect: where the socket is, and whether the caller gave up
  current,  \* connectAttempt
  closer    \* where close() is; "open" until it is called

bootVars == <<boot, parts>>
storeVars == <<client, attempt, current, closer>>
serverVars == <<bootVars, stop, zalo, storeVars>>

BootPoints == {"connect", "hydrate", "lock", "listen", "telegram", "zalo", "up",
               "cleanup", "failed"}
StopPoints == {"no", "zalo", "sockets", "lock", "store", "closing", "http", "db", "down"}
NewAttempt == [raw |-> "new", invalidated |-> FALSE]

\* The types of the process and of the store.
ServerTypeOK ==
  /\ boot \in BootPoints
  /\ stop \in [Signals -> StopPoints]
  /\ parts \subseteq {"db", "lock", "http", "sockets", "scheduler"}
  /\ zalo \in {"no", "find", "acquire", "login", "listening", "over"}
  /\ client \in {"closed", "opening", "ready"}
  /\ attempt \in [Attempts -> [raw : {"new", "scheduled", "connecting", "opened",
                                      "rejected", "ok", "failed", "over"}, invalidated : BOOLEAN]]
  /\ current \in Attempts \cup {NoAttempt}
  /\ closer \in {"open", "waiting", "quit", "destroy", "closed"}

ServerInit ==
  /\ boot = "connect"
  /\ stop = [s \in Signals |-> "no"]
  /\ parts = {}
  /\ zalo = "no"
  /\ client = "closed"
  /\ attempt = [a \in Attempts |-> NewAttempt]
  /\ current = NoAttempt
  /\ closer = "open"
-----------------------------------------------------------------------------
(* startServer.                                                             *)

Boots(point, up) == boot' = point /\ parts' = parts \cup up

\* connectDatabase, hydrateKnowledge, setupZaloPersonalRedisLock, listen.
ConnectDatabase ==
  /\ boot = "connect"
  /\ Boots("hydrate", {"db"}) \/ Boots("failed", {})
  /\ UNCHANGED <<stop, zalo, storeVars>>

Hydrate ==
  /\ boot = "hydrate"
  /\ Boots("lock", {}) \/ Boots("cleanup", {})
  /\ UNCHANGED <<stop, zalo, storeVars>>

\* Redis, the lease in memory, or no lease to be had: a failed connection is
\* no reason not to start.
SetUpLock ==
  /\ boot = "lock"
  /\ \E up \in {{"lock"}, {}} : Boots("listen", up \cup {"sockets"})
  /\ UNCHANGED <<stop, zalo, storeVars>>

CleanUp ==
  /\ boot = "cleanup"
  /\ boot' = "failed"
  /\ parts' = parts \ {"db"}
  /\ UNCHANGED <<stop, zalo, storeVars>>

\* A port that is taken ends the process by way of shutdown.
Listen ==
  /\ boot = "listen"
  /\ \/ Boots("telegram", {"http", "scheduler"}) /\ UNCHANGED stop
     \/ \E s \in Signals : stop' = [stop EXCEPT ![s] = "zalo"] /\ Boots("failed", {})
  /\ UNCHANGED <<zalo, storeVars>>

\* restoreWithStartupDeadline: a restore that takes too long goes on by itself.
TelegramRestored ==
  /\ boot = "telegram"
  /\ boot' = "zalo"
  /\ zalo' = "find"
  /\ UNCHANGED <<parts, stop, storeVars>>

ZaloRestored ==
  /\ boot = "zalo"
  /\ boot' = "up"
  /\ UNCHANGED <<parts, stop, zalo, storeVars>>

\* restoreActiveZaloPersonalClients: the stored sessions are read, the owner's
\* lease is acquired, and the account signs in.
RestoreZalo ==
  /\ \/ zalo = "find" /\ zalo' \in IF "db" \in parts THEN {"acquire", "over"} ELSE {"over"}
     \/ zalo = "acquire" /\ zalo' \in IF "lock" \in parts THEN {"login", "over"} ELSE {"over"}
     \/ zalo = "login" /\ zalo' \in {"listening", "over"}
  /\ UNCHANGED <<bootVars, stop, storeVars>>
-----------------------------------------------------------------------------
(* shutdown.                                                                *)

Stops(s, from, to) == stop[s] = from /\ stop' = [stop EXCEPT ![s] = to]

Signal(s) ==
  /\ boot \in {"telegram", "zalo", "up"}
  /\ Stops(s, "no", "zalo")
  /\ parts' = parts \ {"scheduler"}
  /\ UNCHANGED <<boot, zalo, storeVars>>

\* It waits for an owner that is signing in, and knows nothing of one whose
\* lease is still to come.
StopZalo(s) ==
  /\ zalo # "login"
  /\ Stops(s, "zalo", "sockets")
  /\ zalo' = IF zalo = "listening" THEN "over" ELSE zalo
  /\ UNCHANGED <<bootVars, storeVars>>

StopPart(s, from, part, to) ==
  /\ Stops(s, from, to)
  /\ parts' = parts \ {part}
  /\ UNCHANGED <<boot, zalo, storeVars>>

\* facebook-oauth.store.ts, close: the barrier is set at once, and a second
\* caller waits for the first one's close.
ActiveConnects == {a \in Attempts : attempt[a].raw \in {"scheduled", "connecting", "opened", "rejected"}}

CloseStore(s) ==
  /\ Stops(s, "store", "closing")
  /\ IF closer = "open"
     THEN /\ closer' = "waiting"
          /\ client' = IF ActiveConnects # {} THEN "closed" ELSE client
     ELSE UNCHANGED <<closer, client>>
  /\ UNCHANGED <<bootVars, zalo, attempt, current>>

StoreClosed(s) ==
  /\ closer = "closed"
  /\ Stops(s, "closing", "http")
  /\ UNCHANGED <<bootVars, zalo, storeVars>>

ShutdownStep(s) ==
  \/ Signal(s) \/ StopZalo(s)
  \/ StopPart(s, "sockets", "sockets", "lock")
  \/ StopPart(s, "lock", "lock", "store")
  \/ CloseStore(s) \/ StoreClosed(s)
  \/ StopPart(s, "http", "http", "db")
  \/ StopPart(s, "db", "db", "down")
-----------------------------------------------------------------------------
(* The store.                                                               *)

StoreUnchanged == UNCHANGED <<bootVars, stop, zalo>>

\* connected and connect, for a request that finds the client not ready.
Connect(a) ==
  /\ attempt[a].raw = "new"
  /\ boot \notin {"connect", "hydrate", "lock", "listen"}
  /\ client # "ready" /\ closer = "open" /\ current = NoAttempt
  /\ client' = "closed"
  /\ attempt' = [attempt EXCEPT ![a].raw = "scheduled"]
  /\ current' = a
  /\ UNCHANGED closer
  /\ StoreUnchanged

\* ensureNotClosing, and what the client itself demands.
MayOpen == closer = "open" /\ client = "closed"

\* The next microtask; a client that is still opening cannot be connected.
RawConnect(a) ==
  /\ attempt[a].raw = "scheduled"
  /\ IF MayOpen
     THEN client' = "opening" /\ attempt' = [attempt EXCEPT ![a].raw = "connecting"]
     ELSE attempt' = [attempt EXCEPT ![a].raw = "rejected"] /\ UNCHANGED client
  /\ UNCHANGED <<current, closer>>
  /\ StoreUnchanged

SocketOpens(a) ==
  /\ attempt[a].raw = "connecting"
  /\ \/ client' = "ready" /\ attempt' = [attempt EXCEPT ![a].raw = "opened"]
     \/ client' = "closed" /\ attempt' = [attempt EXCEPT ![a].raw = "rejected"]
  /\ UNCHANGED <<current, closer>>
  /\ StoreUnchanged

\* As a mutant of MustDestroy: only the late socket of a shutdown is closed.
DestroysIfClosing(a) == closer # "open"

MustDestroy(a) == attempt[a].invalidated \/ closer # "open"

\* The finally of the raw connect.
RawEnds(a) ==
  /\ attempt[a].raw \in {"opened", "rejected"}
  /\ client' = IF MustDestroy(a) THEN "closed" ELSE client
  /\ attempt' = [attempt EXCEPT
       ![a].raw = IF attempt[a].invalidated THEN "over"
                  ELSE IF attempt[a].raw = "opened" THEN "ok" ELSE "failed"]
  /\ UNCHANGED <<current, closer>>
  /\ StoreUnchanged

Forget(a) == current' = IF current = a THEN NoAttempt ELSE current

\* The attempt ends with the raw connect: well, unless the store closes.
AttemptEnds(a) ==
  /\ attempt[a].raw \in {"ok", "failed"}
  /\ \/ /\ attempt[a].raw = "ok" /\ closer = "open"
        /\ attempt' = [attempt EXCEPT ![a].raw = "over"]
        /\ UNCHANGED client
     \/ /\ attempt[a].raw = "failed" \/ closer # "open"
        /\ attempt' = [attempt EXCEPT ![a] = [raw |-> "over", invalidated |-> TRUE]]
        /\ client' = "closed"
  /\ Forget(a)
  /\ UNCHANGED closer
  /\ StoreUnchanged

AttemptTimesOut(a) ==
  /\ a \in ActiveConnects /\ ~attempt[a].invalidated
  /\ attempt' = [attempt EXCEPT ![a].invalidated = TRUE]
  /\ client' = "closed"
  /\ Forget(a)
  /\ UNCHANGED closer
  /\ StoreUnchanged

\* closeClient waits for the attempt, or for its deadline.
AwaitAttempt ==
  /\ closer = "waiting"
  /\ \/ current = NoAttempt /\ closer' = IF client = "ready" THEN "quit" ELSE "destroy"
     \/ closer' = "destroy"
  /\ UNCHANGED <<client, attempt, current>>
  /\ StoreUnchanged

Quit ==
  /\ closer = "quit"
  /\ client' \in {"closed", client}
  /\ closer' = "destroy"
  /\ UNCHANGED <<attempt, current>>
  /\ StoreUnchanged

Destroy ==
  /\ closer = "destroy"
  /\ client' = "closed"
  /\ closer' = "closed"
  /\ UNCHANGED <<attempt, current>>
  /\ StoreUnchanged

\* Redis goes away; the client does not reconnect by itself.
LoseRedis ==
  /\ client = "ready"
  /\ client' = "closed"
  /\ UNCHANGED <<attempt, current, closer>>
  /\ StoreUnchanged

StoreStep ==
  \/ \E a \in Attempts : \/ Connect(a) \/ RawConnect(a) \/ SocketOpens(a) \/ RawEnds(a)
                         \/ AttemptEnds(a) \/ AttemptTimesOut(a)
  \/ AwaitAttempt \/ Quit \/ Destroy \/ LoseRedis

ServerNext ==
  \/ ConnectDatabase \/ Hydrate \/ SetUpLock \/ CleanUp \/ Listen
  \/ TelegramRestored \/ ZaloRestored \/ RestoreZalo
  \/ \E s \in Signals : ShutdownStep(s)
  \/ StoreStep

ServerSpec == ServerInit /\ [][ServerNext]_serverVars
-----------------------------------------------------------------------------
\* facebook-oauth.store.ts:223: no connect that was scheduled before the
\* shutdown leaves a socket open after it; and a client that is ready was
\* opened by an attempt that nobody has given up.
StoreStaysClosed ==
  /\ closer = "closed" /\ ActiveConnects = {} => client = "closed"
  /\ client = "ready" /\ ActiveConnects = {} => \E a \in Attempts : ~attempt[a].invalidated
                                                   /\ attempt[a].raw \in {"ok", "over"}
=============================================================================
