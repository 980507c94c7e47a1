------------------------------ MODULE BotReply ------------------------------
(***************************************************************************)
(* The automatic reply pipeline of one conversation:                       *)
(*   ChatbotOrchestrator.process -> BotDeliveryService.deliver ->          *)
(*   OutboundWorker.runNext -> withConversationSendLock -> adapter,        *)
(* against staff members who take the conversation over (pauseBot), toggle *)
(* the bot or delete the conversation.                                     *)
(*                                                                         *)
(* A run is one call of process for one stored customer message; two runs  *)
(* with the same message are a replay.  Every run and every taker lives in *)
(* a process of its own: runs that share a process crash one after the     *)
(* other with nothing in between, which is one of the interleavings here.  *)
(***************************************************************************)
EXTENDS Integers, FiniteSets

CONSTANTS
  Runs,           \* calls of ChatbotOrchestrator.process
  Takers,         \* staff requests that end in pauseBot
  Messages,       \* stored customer messages of the conversation
  AgentRequests,  \* the messages for which customerRequestedAgent holds
  Replies,        \* what the provider may yield: "answer", "fallback"
  NoActor,        \* sendLeaseId = null, and "no message yet"
  PauseLength,    \* the 30 minutes of pauseBot, in ticks
  MaxNow,         \* bound: the clock stops here
  MaxEdits,       \* bound: toggles and deletions by staff
  Mortal,         \* the actors whose process may die
  DbFaults        \* may a MongoDB operation throw without taking effect?

Actors == Runs \cup Takers

ASSUME ActorsAssumption ==
  /\ Runs \cap Takers = {}
  /\ NoActor \notin Actors
  /\ NoActor \notin Messages
ASSUME MessagesAssumption ==
  /\ AgentRequests \subseteq Messages
  /\ Replies \subseteq {"answer", "fallback"}
ASSUME BoundsAssumption ==
  /\ PauseLength \in Nat
  /\ MaxNow \in Nat
  /\ MaxEdits \in Nat
ASSUME FaultsAssumption == Mortal \subseteq Actors /\ DbFaults \in BOOLEAN

VARIABLES
  \* the Conversation document
  exists, enabled, pausedUntil, status, lease,
  \* the BotProcessing document of a message: its status, the run that
  \* created it, and whether botMessageId is set
  claim, claimedBy, reserved,
  \* the bot's Message document, by the run that created it
  botMsg,
  \* a run: deliver's control point, the control point of the work inside
  \* withBotTimeout, its settled result, and its AbortSignal
  pc, work, result, aborted, msg, content, seenEnabled, seenUntil,
  \* the request of a run at the platform
  net,
  \* a taker: its control point and the pause end it computed
  tpc, until,
  now, edits,
  \* history: sends begun per message, and the end of the last pause that a
  \* staff takeover committed and no re-enable cancelled
  sends, takeoverUntil

convVars  == <<exists, enabled, pausedUntil, status>>
claimVars == <<claim, claimedBy, reserved>>
runVars   == <<pc, work, result, aborted, msg, content, seenEnabled, seenUntil>>
takerVars == <<tpc, until>>
clockVars == <<now, edits>>
history   == <<sends, takeoverUntil>>
vars == <<convVars, lease, claimVars, botMsg, runVars, net, takerVars,
          clockVars, history>>

\* As a mutant of Later: $set instead of $max.
Overwrite(a, b) == b

\* MongoDB's $max.
Later(a, b) == IF a >= b THEN a ELSE b

IsBotPaused == pausedUntil > now
BotMayReply == exists /\ enabled /\ ~IsBotPaused

\* BotDeliveryService's filter: this run's own claim, still processing.
MyClaim(r) == claim[msg[r]] = "processing" /\ claimedBy[msg[r]] = r
Handoff(r) == msg[r] \in AgentRequests

\* As a mutant of Outcome: a timeout counts as sent.
TimeoutIsSuccess(r) == IF aborted[r] THEN "ok" ELSE result[r]

\* Promise.race: the work's result, or the timer's error.
Outcome(r) == IF aborted[r] THEN "error" ELSE result[r]

MainPoints == {"idle", "found", "reply", "deliver", "refuse", "reserve",
               "create", "await", "persist", "failClaim", "failMessage",
               "failConversation", "abandon", "inbound", "end", "crashed"}
WorkPoints == {"off", "resolve", "lock", "held", "check", "send", "unlock",
               "done"}
TakerPoints == {"idle", "assigned", "lock", "held", "unlock", "done", "busy",
                "crashed"}

ConversationTypeOK ==
  /\ exists \in BOOLEAN /\ enabled \in BOOLEAN
  /\ pausedUntil \in Nat
  /\ status \in {"open", "pending", "closed"}
  /\ lease \in Actors \cup {NoActor}

ClaimTypeOK ==
  /\ claim \in [Messages -> {"none", "processing", "sent", "handed_off", "failed"}]
  /\ claimedBy \in [Messages -> Runs \cup {NoActor}]
  /\ reserved \in [Messages -> BOOLEAN]

RunTypeOK ==
  /\ botMsg \in [Runs -> {"none", "pending", "sent", "failed"}]
  /\ pc \in [Runs -> MainPoints]
  /\ work \in [Runs -> WorkPoints]
  /\ result \in [Runs -> {"none", "ok", "error"}]
  /\ aborted \in [Runs -> BOOLEAN]
  /\ msg \in [Runs -> Messages \cup {NoActor}]
  /\ content \in [Runs -> {"none", "answer", "fallback"}]
  /\ seenEnabled \in [Runs -> BOOLEAN]
  /\ seenUntil \in [Runs -> Nat]
  /\ net \in [Runs -> {"none", "flying", "arrived"}]

OtherTypeOK ==
  /\ tpc \in [Takers -> TakerPoints]
  /\ until \in [Takers -> Nat]
  /\ now \in Nat /\ edits \in Nat
  /\ sends \in [Messages -> Nat]
  /\ takeoverUntil \in Nat

TypeOK ==
  /\ ConversationTypeOK
  /\ ClaimTypeOK
  /\ RunTypeOK
  /\ OtherTypeOK

Init ==
  /\ exists = TRUE /\ enabled = TRUE
  /\ pausedUntil = 0
  /\ status = "open"
  /\ lease = NoActor
  /\ claim = [m \in Messages |-> "none"]
  /\ claimedBy = [m \in Messages |-> NoActor]
  /\ reserved = [m \in Messages |-> FALSE]
  /\ botMsg = [r \in Runs |-> "none"]
  /\ pc = [r \in Runs |-> "idle"]
  /\ work = [r \in Runs |-> "off"]
  /\ result = [r \in Runs |-> "none"]
  /\ aborted = [r \in Runs |-> FALSE]
  /\ msg = [r \in Runs |-> NoActor]
  /\ content = [r \in Runs |-> "none"]
  /\ seenEnabled = [r \in Runs |-> FALSE]
  /\ seenUntil = [r \in Runs |-> 0]
  /\ net = [r \in Runs |-> "none"]
  /\ tpc = [t \in Takers |-> "idle"]
  /\ until = [t \in Takers |-> 0]
  /\ now = 0 /\ edits = 0
  /\ sends = [m \in Messages |-> 0]
  /\ takeoverUntil = 0

Goto(r, point) == pc' = [pc EXCEPT ![r] = point]
SetClaim(r, s) == claim' = [claim EXCEPT ![msg[r]] = s]

-----------------------------------------------------------------------------
(* ChatbotOrchestrator.process: one action per database round trip.         *)

\* The conversation, message and assistant lookups; a missing assistant or a
\* channel outside its scope also skips.
Lookup(r, m) ==
  /\ pc[r] = "idle"
  /\ msg' = [msg EXCEPT ![r] = m]
  /\ \/ BotMayReply /\ Goto(r, "found")
     \/ Goto(r, "end")
     \/ DbFaults /\ Goto(r, "inbound")
  /\ UNCHANGED <<convVars, lease, claimVars, botMsg, work, result, aborted,
                 content, seenEnabled, seenUntil, net, takerVars, clockVars,
                 history>>

\* As mutants of ClaimFree: only decided claims are seen; failed ones are
\* taken again.
NotDecidedYet(r) == claim[msg[r]] \in {"none", "processing"}
FreeOrFailed(r) == claim[msg[r]] \in {"none", "failed"}

\* The unique index on (owner, conversation, customer message).
ClaimFree(r) == claim[msg[r]] = "none"

\* BotProcessingModel.create under that index; a duplicate key skips.
CreateClaim(r) ==
  /\ pc[r] = "found"
  /\ \/ /\ ClaimFree(r)
        /\ SetClaim(r, "processing")
        /\ claimedBy' = [claimedBy EXCEPT ![msg[r]] = r]
        /\ reserved' = [reserved EXCEPT ![msg[r]] = FALSE]
        /\ Goto(r, "reply")
     \/ /\ ~ClaimFree(r)
        /\ Goto(r, "end")
        /\ UNCHANGED claimVars
     \/ /\ DbFaults
        /\ Goto(r, "inbound")
        /\ UNCHANGED claimVars
  /\ UNCHANGED <<convVars, lease, botMsg, work, result, aborted, msg, content,
                 seenEnabled, seenUntil, net, takerVars, clockVars, history>>

\* Template, retrieval and provider under their 12 s limit.  Whatever fails
\* there yields the fallback message; a customer who asked for an agent gets
\* it always.
Reply(r) ==
  /\ pc[r] = "reply"
  /\ \E c \in IF Handoff(r) THEN {"fallback"} ELSE Replies :
       content' = [content EXCEPT ![r] = c]
  /\ Goto(r, "deliver")
  /\ UNCHANGED <<convVars, lease, claimVars, botMsg, work, result, aborted,
                 msg, seenEnabled, seenUntil, net, takerVars, clockVars,
                 history>>

-----------------------------------------------------------------------------
(* BotDeliveryService.deliver up to the send.                               *)

DeliverLookup(r) ==
  /\ pc[r] = "deliver"
  /\ \/ BotMayReply /\ Goto(r, "reserve")
     \/ ~BotMayReply /\ Goto(r, "refuse")
     \/ DbFaults /\ Goto(r, "abandon")
  /\ UNCHANGED <<convVars, lease, claimVars, botMsg, work, result, aborted,
                 msg, content, seenEnabled, seenUntil, net, takerVars,
                 clockVars, history>>

\* The claim of a paused conversation ends as failed / BOT_PAUSED.
Refuse(r) ==
  /\ pc[r] = "refuse"
  /\ \/ /\ claim' = IF MyClaim(r) /\ ~reserved[msg[r]]
                      THEN [claim EXCEPT ![msg[r]] = "failed"] ELSE claim
        /\ Goto(r, "end")
     \/ DbFaults /\ Goto(r, "abandon") /\ UNCHANGED claim
  /\ UNCHANGED <<convVars, lease, claimedBy, reserved, botMsg, work, result,
                 aborted, msg, content, seenEnabled, seenUntil, net,
                 takerVars, clockVars, history>>

\* findOneAndUpdate on {processing, botMessageId absent}.
Reserve(r) ==
  /\ pc[r] = "reserve"
  /\ \/ /\ MyClaim(r) /\ ~reserved[msg[r]]
        /\ reserved' = [reserved EXCEPT ![msg[r]] = TRUE]
        /\ Goto(r, "create")
     \/ /\ ~(MyClaim(r) /\ ~reserved[msg[r]])
        /\ Goto(r, "end")
        /\ UNCHANGED reserved
     \/ DbFaults /\ Goto(r, "abandon") /\ UNCHANGED reserved
  /\ UNCHANGED <<convVars, lease, claim, claimedBy, botMsg, work, result,
                 aborted, msg, content, seenEnabled, seenUntil, net,
                 takerVars, clockVars, history>>

\* The pending bot message; then the worker starts the work and its timer.
CreateBotMessage(r) ==
  /\ pc[r] = "create"
  /\ \/ /\ botMsg' = [botMsg EXCEPT ![r] = "pending"]
        /\ work' = [work EXCEPT ![r] = "resolve"]
        /\ Goto(r, "await")
     \/ DbFaults /\ Goto(r, "failClaim") /\ UNCHANGED <<botMsg, work>>
  /\ UNCHANGED <<convVars, lease, claimVars, result, aborted, msg, content,
                 seenEnabled, seenUntil, net, takerVars, clockVars, history>>

-----------------------------------------------------------------------------
(* The work inside the outer withBotTimeout.  Nothing stops it when the     *)
(* timer wins the race: it only finds its AbortSignal set at three places.  *)

WorkUnchanged == UNCHANGED <<convVars, claimVars, botMsg, pc, aborted, msg,
                             content, takerVars, clockVars, takeoverUntil>>

Settle(r, point, res) ==
  /\ work' = [work EXCEPT ![r] = point]
  /\ result' = [result EXCEPT ![r] = res]

ResolveAdapter(r) ==
  /\ work[r] = "resolve"
  /\ \/ ~aborted[r] /\ Settle(r, "lock", "none")
     \/ Settle(r, "done", "error")      \* aborted, no adapter, or it threw
  /\ WorkUnchanged
  /\ UNCHANGED <<lease, seenEnabled, seenUntil, net, sends>>

\* As a mutant of LockFree: the lease is not looked at.
LockAnyway == exists

\* The filter {_id, sendLeaseId: null}.
LockFree == exists /\ lease = NoActor

\* The findOneAndUpdate may already be under way when the signal fires, so
\* an aborted work can still acquire.
AcquireLock(r) ==
  /\ work[r] = "lock"
  /\ LockFree
  /\ lease' = r
  /\ Settle(r, "held", "none")
  /\ WorkUnchanged
  /\ UNCHANGED <<seenEnabled, seenUntil, net, sends>>

\* The poll loop's throwIfAborted, or an update that throws.  Its own 15 s
\* limit is longer than the 10 s after which the signal fires, so a bot never
\* sees SEND_BUSY.
GiveUpLock(r) ==
  /\ work[r] = "lock"
  /\ aborted[r] \/ DbFaults
  /\ Settle(r, "done", "error")
  /\ WorkUnchanged
  /\ UNCHANGED <<lease, seenEnabled, seenUntil, net, sends>>

\* throwIfAborted after acquiring, then the last read of the pause.
ReadLatest(r) ==
  /\ work[r] = "held"
  /\ \/ /\ ~aborted[r]
        /\ seenEnabled' = [seenEnabled EXCEPT ![r] = exists /\ enabled]
        /\ seenUntil' = [seenUntil EXCEPT ![r] = pausedUntil]
        /\ Settle(r, "check", "none")
     \/ /\ aborted[r] \/ DbFaults
        /\ Settle(r, "unlock", "error")
        /\ UNCHANGED <<seenEnabled, seenUntil>>
  /\ WorkUnchanged
  /\ UNCHANGED <<lease, net, sends>>

\* As mutants of MayStillSend: no abort check after the read; no pause check.
MayStillSendLate(r) == seenEnabled[r] /\ seenUntil[r] <= now
MayStillSendPaused(r) == ~aborted[r] /\ seenEnabled[r]

MayStillSend(r) == ~aborted[r] /\ seenEnabled[r] /\ seenUntil[r] <= now

\* The answer of that read: abort, BOT_PAUSED, or adapter.sendText starts.
CheckAndSend(r) ==
  /\ work[r] = "check"
  /\ \/ /\ MayStillSend(r)
        /\ net' = [net EXCEPT ![r] = "flying"]
        /\ sends' = [sends EXCEPT ![msg[r]] = @ + 1]
        /\ Settle(r, "send", "none")
     \/ /\ ~MayStillSend(r)
        /\ Settle(r, "unlock", "error")
        /\ UNCHANGED <<net, sends>>
  /\ WorkUnchanged
  /\ UNCHANGED <<lease, seenEnabled, seenUntil>>

\* As a mutant of Acknowledged: success as soon as the request is out.
RequestIsOut(r) == net[r] \in {"flying", "arrived"}

Acknowledged(r) == net[r] = "arrived"

\* The adapter's answer; an error says nothing about the customer's side.
SendSettles(r) ==
  /\ work[r] = "send"
  /\ \/ Acknowledged(r) /\ Settle(r, "unlock", "ok")
     \/ Settle(r, "unlock", "error")
  /\ WorkUnchanged
  /\ UNCHANGED <<lease, seenEnabled, seenUntil, net, sends>>

\* The inner 10 s timer started after the outer one of the same length, so
\* it never fires first.  The request itself stays under way.
SendTimeout(r) ==
  /\ work[r] = "send"
  /\ aborted[r]
  /\ Settle(r, "unlock", "error")
  /\ WorkUnchanged
  /\ UNCHANGED <<lease, seenEnabled, seenUntil, net, sends>>

\* As a mutant of Released: only a successful work gives the lock back.
ReleasedOnSuccess(a) ==
  IF lease = a /\ (a \in Runs => result[a] = "ok") THEN NoActor ELSE lease

\* The filter {_id, sendLeaseId: leaseId} of the release.
Released(a) == IF lease = a THEN NoActor ELSE lease

\* The finally of withConversationSendLock; its own failure replaces the
\* result and leaves the lock taken.
Unlock(r) ==
  /\ work[r] = "unlock"
  /\ \/ /\ lease' = Released(r)
        /\ Settle(r, "done", result[r])
     \/ DbFaults /\ Settle(r, "done", "error") /\ UNCHANGED lease
  /\ WorkUnchanged
  /\ UNCHANGED <<seenEnabled, seenUntil, net, sends>>

\* The platform delivers a request whenever it likes, or never.
PlatformDelivers(r) ==
  /\ net[r] = "flying"
  /\ net' = [net EXCEPT ![r] = "arrived"]
  /\ UNCHANGED <<convVars, lease, claimVars, botMsg, runVars, takerVars,
                 clockVars, history>>

-----------------------------------------------------------------------------
(* The worker's outcome and how deliver records it.                         *)

WorkerResult(r) ==
  /\ pc[r] = "await"
  /\ work[r] = "done"
  /\ Goto(r, "persist")
  /\ UNCHANGED <<convVars, lease, claimVars, botMsg, work, result, aborted,
                 msg, content, seenEnabled, seenUntil, net, takerVars,
                 clockVars, history>>

\* As a mutant of TimerRuns: the timer is cleared when the send starts.
TimerRunsUntilSend(r) == work[r] \notin {"send", "done"}

TimerRuns(r) == work[r] # "done"

\* The timer of the outer withBotTimeout wins the race and fires the signal.
OuterTimeout(r) ==
  /\ pc[r] = "await"
  /\ TimerRuns(r)
  /\ aborted' = [aborted EXCEPT ![r] = TRUE]
  /\ Goto(r, "persist")
  /\ UNCHANGED <<convVars, lease, claimVars, botMsg, work, result, msg,
                 content, seenEnabled, seenUntil, net, takerVars, clockVars,
                 history>>

\* As a mutant of Verdict: a handoff writes the conversation's status into the
\* claim.
VerdictAsStatus(r) == IF Outcome(r) = "error" THEN "failed"
                      ELSE IF Handoff(r) THEN "pending" ELSE "sent"

\* The status of the claim once the platform has answered.
Verdict(r) == IF Outcome(r) = "error" THEN "failed"
              ELSE IF Handoff(r) THEN "handed_off" ELSE "sent"

\* updateDelivery: message, claim and conversation in one transaction, which
\* is rolled back when one of the three documents does not match.
Persist(r) ==
  /\ pc[r] = "persist"
  /\ \/ LET failed == Outcome(r) = "error" IN
        /\ exists /\ botMsg[r] # "none" /\ MyClaim(r)
        /\ botMsg' = [botMsg EXCEPT ![r] = IF failed THEN "failed" ELSE "sent"]
        /\ SetClaim(r, Verdict(r))
        /\ status' = IF Handoff(r) THEN "pending" ELSE status
        /\ pausedUntil' = IF Handoff(r)
                            THEN Later(pausedUntil, now + PauseLength)
                            ELSE pausedUntil
        /\ Goto(r, IF failed THEN "inbound" ELSE "end")
     \/ /\ DbFaults \/ ~exists \/ botMsg[r] = "none" \/ ~MyClaim(r)
        /\ Goto(r, "failClaim")
        /\ UNCHANGED <<botMsg, claim, status, pausedUntil>>
  /\ UNCHANGED <<exists, enabled, lease, claimedBy, reserved, work, result,
                 aborted, msg, content, seenEnabled, seenUntil, net,
                 takerVars, clockVars, history>>

\* deliver's catch after the reservation: three writes, each of which may
\* fail silently.
FailClaim(r) ==
  /\ pc[r] = "failClaim"
  /\ Goto(r, "failMessage")
  /\ \/ claim' = IF MyClaim(r) THEN [claim EXCEPT ![msg[r]] = "failed"]
                               ELSE claim
     \/ DbFaults /\ UNCHANGED claim
  /\ UNCHANGED <<convVars, lease, claimedBy, reserved, botMsg, work, result,
                 aborted, msg, content, seenEnabled, seenUntil, net,
                 takerVars, clockVars, history>>

FailMessage(r) ==
  /\ pc[r] = "failMessage"
  /\ Goto(r, "failConversation")
  /\ \/ botMsg' = IF botMsg[r] # "none" THEN [botMsg EXCEPT ![r] = "failed"]
                                        ELSE botMsg
     \/ DbFaults /\ UNCHANGED botMsg
  /\ UNCHANGED <<convVars, lease, claimVars, work, result, aborted, msg,
                 content, seenEnabled, seenUntil, net, takerVars, clockVars,
                 history>>

FailConversation(r) ==
  /\ pc[r] = "failConversation"
  /\ Goto(r, "inbound")
  /\ \/ status' = IF ~exists THEN status
                  ELSE IF Handoff(r) THEN "pending" ELSE "open"
     \/ DbFaults /\ UNCHANGED status
  /\ UNCHANGED <<exists, enabled, pausedUntil, lease, claimVars, botMsg, work,
                 result, aborted, msg, content, seenEnabled, seenUntil, net,
                 takerVars, clockVars, history>>

\* deliver's catch before the reservation: one transaction that only ends an
\* unreserved claim.
Abandon(r) ==
  /\ pc[r] = "abandon"
  /\ Goto(r, "inbound")
  /\ \/ /\ MyClaim(r) /\ ~reserved[msg[r]]
        /\ SetClaim(r, "failed")
        /\ status' = IF ~exists THEN status
                     ELSE IF Handoff(r) THEN "pending" ELSE "open"
     \/ /\ DbFaults \/ ~MyClaim(r) \/ reserved[msg[r]]
        /\ UNCHANGED <<claim, status>>
  /\ UNCHANGED <<exists, enabled, pausedUntil, lease, claimedBy, reserved,
                 botMsg, work, result, aborted, msg, content, seenEnabled,
                 seenUntil, net, takerVars, clockVars, history>>

\* processTelegramCustomerMessage after a failed result.
InboundFailure(r) ==
  /\ pc[r] = "inbound"
  /\ Goto(r, "end")
  /\ \/ status' = IF exists THEN "open" ELSE status
     \/ DbFaults /\ UNCHANGED status
  /\ UNCHANGED <<exists, enabled, pausedUntil, lease, claimVars, botMsg, work,
                 result, aborted, msg, content, seenEnabled, seenUntil, net,
                 takerVars, clockVars, history>>

\* The process of a run dies; its request at the platform does not.
CrashRun(r) ==
  /\ r \in Mortal
  /\ pc[r] \notin {"idle", "crashed"}
  /\ \/ pc[r] # "end"
     \/ work[r] \notin {"off", "done"}
  /\ Goto(r, "crashed")
  /\ work' = [work EXCEPT ![r] = "off"]
  /\ UNCHANGED <<convVars, lease, claimVars, botMsg, result, aborted, msg,
                 content, seenEnabled, seenUntil, net, takerVars, clockVars,
                 history>>

-----------------------------------------------------------------------------
(* Staff.                                                                   *)

TakerUnchanged == UNCHANGED <<claimVars, botMsg, runVars, net, clockVars, sends>>
TakerGoto(t, point) == tpc' = [tpc EXCEPT ![t] = point]

\* sendOutboundMessage: pauseBot before the connector.
AgentSend(t) ==
  /\ tpc[t] = "idle"
  /\ exists
  /\ until' = [until EXCEPT ![t] = now + PauseLength]
  /\ TakerGoto(t, "lock")
  /\ TakerUnchanged
  /\ UNCHANGED <<convVars, lease, takeoverUntil>>

\* updateAssignment: the switch is written before pauseBot and without the
\* lock.
AssignAgent(t) ==
  /\ tpc[t] = "idle"
  /\ exists
  /\ enabled' = FALSE
  /\ TakerGoto(t, "assigned")
  /\ TakerUnchanged
  /\ UNCHANGED <<exists, pausedUntil, status, lease, until, takeoverUntil>>

AssignPause(t) ==
  /\ tpc[t] = "assigned"
  /\ until' = [until EXCEPT ![t] = now + PauseLength]
  /\ TakerGoto(t, "lock")
  /\ TakerUnchanged
  /\ UNCHANGED <<convVars, lease, takeoverUntil>>

TakerAcquire(t) ==
  /\ tpc[t] = "lock"
  /\ LockFree
  /\ lease' = t
  /\ TakerGoto(t, "held")
  /\ TakerUnchanged
  /\ UNCHANGED <<convVars, until, takeoverUntil>>

\* As a mutant of LockTaken: without the 15 s limit.
WaitForever == FALSE

LockTaken == ~exists \/ lease # NoActor

\* CONVERSATION_SEND_BUSY after 15 s, or an update that throws.
TakerBusy(t) ==
  /\ tpc[t] = "lock"
  /\ LockTaken \/ DbFaults
  /\ TakerGoto(t, "busy")
  /\ TakerUnchanged
  /\ UNCHANGED <<convVars, lease, until, takeoverUntil>>

\* $max on botPausedUntil.
CommitPause(t) ==
  /\ tpc[t] = "held"
  /\ \/ /\ exists
        /\ pausedUntil' = Later(pausedUntil, until[t])
        /\ takeoverUntil' = Later(takeoverUntil, until[t])
     \/ /\ ~exists \/ DbFaults
        /\ UNCHANGED <<pausedUntil, takeoverUntil>>
  /\ TakerGoto(t, "unlock")
  /\ TakerUnchanged
  /\ UNCHANGED <<exists, enabled, status, lease, until>>

TakerUnlock(t) ==
  /\ tpc[t] = "unlock"
  /\ \/ lease' = Released(t)
     \/ DbFaults /\ UNCHANGED lease
  /\ TakerGoto(t, "done")
  /\ TakerUnchanged
  /\ UNCHANGED <<convVars, until, takeoverUntil>>

CrashTaker(t) ==
  /\ t \in Mortal
  /\ tpc[t] \in {"assigned", "lock", "held", "unlock"}
  /\ TakerGoto(t, "crashed")
  /\ TakerUnchanged
  /\ UNCHANGED <<convVars, lease, until, takeoverUntil>>

Edit ==
  /\ exists
  /\ edits < MaxEdits
  /\ edits' = edits + 1
  /\ UNCHANGED <<status, runVars, net, takerVars, now, sends>>

\* updateBotEnabled: neither direction takes the lock; enabling also cancels
\* every pause.
EnableBot ==
  /\ Edit
  /\ enabled' = TRUE
  /\ pausedUntil' = 0
  /\ takeoverUntil' = 0
  /\ UNCHANGED <<exists, lease, claimVars, botMsg>>

DisableBot ==
  /\ Edit
  /\ enabled' = FALSE
  /\ UNCHANGED <<exists, pausedUntil, lease, claimVars, botMsg, takeoverUntil>>

\* bulkConversationActions "delete": messages, claims and the conversation in
\* one transaction, whatever runs are under way.
DeleteConversation ==
  /\ Edit
  /\ exists' = FALSE
  /\ lease' = NoActor
  /\ claim' = [m \in Messages |-> "none"]
  /\ claimedBy' = [m \in Messages |-> NoActor]
  /\ reserved' = [m \in Messages |-> FALSE]
  /\ botMsg' = [r \in Runs |-> "none"]
  /\ UNCHANGED <<enabled, pausedUntil, takeoverUntil>>

Tick ==
  /\ now < MaxNow
  /\ now' = now + 1
  /\ UNCHANGED <<convVars, lease, claimVars, botMsg, runVars, net, takerVars,
                 edits, history>>

-----------------------------------------------------------------------------
Orchestrate(r) ==
  \/ \E m \in Messages : Lookup(r, m)
  \/ CreateClaim(r)
  \/ Reply(r)

Deliver(r) ==
  \/ DeliverLookup(r) \/ Refuse(r) \/ Reserve(r) \/ CreateBotMessage(r)
  \/ WorkerResult(r) \/ OuterTimeout(r) \/ Persist(r)
  \/ FailClaim(r) \/ FailMessage(r) \/ FailConversation(r)
  \/ Abandon(r) \/ InboundFailure(r)

Work(r) ==
  \/ ResolveAdapter(r) \/ AcquireLock(r) \/ GiveUpLock(r) \/ ReadLatest(r)
  \/ CheckAndSend(r) \/ SendSettles(r) \/ SendTimeout(r) \/ Unlock(r)

TakeOver(t) ==
  \/ AgentSend(t) \/ AssignAgent(t) \/ AssignPause(t) \/ TakerAcquire(t)
  \/ TakerBusy(t) \/ CommitPause(t) \/ TakerUnlock(t)

Next ==
  \/ \E r \in Runs : \/ Orchestrate(r) \/ Deliver(r) \/ Work(r)
                     \/ PlatformDelivers(r) \/ CrashRun(r)
  \/ \E t \in Takers : TakeOver(t) \/ CrashTaker(t)
  \/ EnableBot \/ DisableBot \/ DeleteConversation
  \/ Tick

Spec == Init /\ [][Next]_vars

\* Started requests keep running as long as their process lives: MongoDB
\* answers and timers fire.  Neither the platform nor an adapter is assumed
\* to answer, and nobody is obliged to start a request.
Progress(r) ==
  /\ WF_vars(CreateClaim(r) \/ Reply(r) \/ Deliver(r))
  /\ WF_vars(AcquireLock(r) \/ GiveUpLock(r) \/ ReadLatest(r)
             \/ CheckAndSend(r) \/ SendTimeout(r) \/ Unlock(r))
TakerProgress(t) ==
  WF_vars(AssignPause(t) \/ TakerAcquire(t) \/ TakerBusy(t) \/ CommitPause(t)
          \/ TakerUnlock(t))

FairSpec ==
  /\ Spec
  /\ \A r \in Runs : Progress(r)
  /\ \A t \in Takers : TakerProgress(t)
-----------------------------------------------------------------------------
(* What must hold.                                                          *)

\* A customer message is answered at most once: replays, concurrent runs,
\* retries, timeouts and crashes never begin a second send for it.
AtMostOneSend == \A m \in Messages : sends[m] <= 1

InCriticalSection(a) ==
  \/ a \in Runs /\ work[a] \in {"held", "check", "send", "unlock"}
  \/ a \in Takers /\ tpc[a] \in {"held", "unlock"}

\* withConversationSendLock excludes: two processes are never both between
\* taking the send lock and giving it back, and the lease names the one
\* that is.
SendLockExcludes ==
  /\ \A a, b \in Actors :
       InCriticalSection(a) /\ InCriticalSection(b) => a = b
  /\ exists => \A a \in Actors : InCriticalSection(a) => lease = a

\* What the claim and the bot message say agrees with the platform: a claim
\* recorded as sent or handed off has a bot message recorded as sent, and a
\* message recorded as sent has reached the platform.
VerdictIsTrue ==
  /\ \A r \in Runs : botMsg[r] = "sent" => net[r] = "arrived"
  /\ \A m \in Messages : claim[m] \in {"sent", "handed_off"} =>
       claimedBy[m] \in Runs /\ botMsg[claimedBy[m]] = "sent"

\* No bot send begins while a staff takeover that was committed and not
\* cancelled is in force, although the pause is read before the send and
\* takeovers come from other processes (bot-delivery, bot-pause).
TakeoverRespected ==
  \A m \in Messages : sends'[m] # sends[m] => takeoverUntil <= now
NoSendAfterTakeover == [][TakeoverRespected]_vars

\* A send begins only while its claim is undecided: once a run has recorded
\* a failure or a timeout, its abandoned work cannot still start to send.
VerdictRespected ==
  \A m \in Messages : sends'[m] # sends[m] /\ exists =>
     claim[m] = "processing" /\ reserved[m]
NoSendAfterVerdict == [][VerdictRespected]_vars

\* A decided claim is never decided again; only deletion removes it.
DecidedStays ==
  \A m \in Messages : claim[m] \in {"sent", "handed_off", "failed"} =>
     claim'[m] = claim[m] \/ ~exists'
ClaimIsFinal == [][DecidedStays]_vars

\* Pauses of concurrent takeovers and handoffs are only ever extended, in
\* whatever order they are written; only re-enabling the bot cancels them.
PauseGrows == pausedUntil' >= pausedUntil \/ (enabled' /\ pausedUntil' = 0)
PauseOnlyGrows == [][PauseGrows]_vars

\* The send lock never stays taken while MongoDB answers, even if the platform
\* or an adapter never answers; only a process that dies can leave it so.
Crashed(a) ==
  (a \in Runs /\ pc[a] = "crashed") \/ (a \in Takers /\ tpc[a] = "crashed")
LockIsReleased == []<>(lease = NoActor \/ \E a \in Actors : Crashed(a))

\* A claim does not stay in processing while MongoDB answers, whatever the
\* adapter and the platform do: it is decided, or the process of the run that
\* made it died.
ClaimIsDecided ==
  \A m \in Messages :
    claim[m] = "processing" ~>
      claim[m] # "processing" \/ (claimedBy[m] \in Runs /\ Crashed(claimedBy[m]))

\* A takeover ends, in success or with CONVERSATION_SEND_BUSY.
TakeoverReturns ==
  \A t \in Takers : tpc[t] = "lock" ~> tpc[t] \in {"done", "busy", "crashed"}

\* What the documents and the platform say, in the contract's terms.
AbsVerdict == [m \in Messages |->
  IF claim[m] = "processing" THEN "working"
  ELSE IF claim[m] \in {"sent", "handed_off"} THEN "delivered"
  ELSE claim[m]]
AbsReceived == {m \in Messages : \E r \in Runs : msg[r] = m /\ net[r] = "arrived"}

ReplyContract == INSTANCE CustomerReply WITH
  open <- exists, verdict <- AbsVerdict, attempts <- sends,
  received <- AbsReceived

\* BotReply implements CustomerReply: with locks, timers, replays, crashes and
\* failing writes, a customer message is still only accepted, attempted once,
\* delivered, and judged truthfully.
ImplementsContract == ReplyContract!Spec

\* README.md:83 says of the fallback message that the conversation is moved
\* to pending and the bot paused for 30 minutes.
FallbackHandsOff ==
  [][\A r \in Runs : botMsg[r] = "pending" /\ botMsg'[r] = "sent"
       /\ content[r] = "fallback" => status' = "pending" /\ pausedUntil' > now]_vars
-----------------------------------------------------------------------------
(* The inductive invariant behind the safety properties.                    *)

\* While a run holds its snapshot of the pause, no takeover it has not seen
\* can have been committed: that takes the lock the run holds.
TakeoverInv ==
  /\ takeoverUntil <= pausedUntil
  /\ \A r \in Runs : work[r] = "check" => takeoverUntil <= seenUntil[r]

BeforeWork == {"idle", "found", "reply", "deliver", "refuse", "reserve", "create"}

\* Until the timer fires, a run that works towards a send waits for it and
\* still owns an undecided, reserved claim.
OwnershipInv ==
  \A r \in Runs :
    /\ pc[r] # "idle" => msg[r] \in Messages
    /\ pc[r] \in BeforeWork => work[r] = "off" /\ ~aborted[r]
    /\ pc[r] \in BeforeWork \/ work[r] \in {"resolve", "lock", "held", "check"}
         => net[r] = "none"
    /\ work[r] \notin {"off", "done"} /\ ~aborted[r] => pc[r] = "await"
    /\ exists /\ pc[r] \in {"reply", "deliver", "refuse", "reserve", "create", "await"}
         => MyClaim(r)
    /\ exists /\ pc[r] \in {"create", "await"} => reserved[msg[r]]

\* A run that may still begin its send; after a deletion only one that
\* already holds the lock.
CanSend(r) ==
  /\ ~aborted[r]
  /\ \/ work[r] \in {"resolve", "lock"} /\ exists
     \/ work[r] \in {"held", "check"}

SendInv ==
  /\ AtMostOneSend
  /\ \A m \in Messages : exists /\ claim[m] = "none" => sends[m] = 0
  /\ \A r \in Runs :
       /\ exists /\ pc[r] \in BeforeWork \ {"idle", "found"} => sends[msg[r]] = 0
       /\ CanSend(r) => sends[msg[r]] = 0

\* A settled work has a result, and a positive verdict is the last thing its
\* run does.
VerdictInv ==
  /\ \A r \in Runs :
       work[r] \in {"unlock", "done"} \/ (pc[r] = "persist" /\ ~aborted[r])
         => result[r] \in {"ok", "error"}
  /\ \A r \in Runs : result[r] = "ok" => net[r] = "arrived"
  /\ \A r \in Runs : botMsg[r] = "sent" => net[r] = "arrived"
  /\ \A m \in Messages : claim[m] \in {"sent", "handed_off"} =>
       /\ claimedBy[m] \in Runs
       /\ botMsg[claimedBy[m]] = "sent"
       /\ pc[claimedBy[m]] \in {"end", "crashed"}

IInv ==
  /\ TypeOK
  /\ SendLockExcludes
  /\ TakeoverInv
  /\ OwnershipInv
  /\ SendInv
  /\ VerdictInv
=============================================================================
