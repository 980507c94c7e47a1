---------------------------- MODULE FacebookPosts ----------------------------
(***************************************************************************)
(* Posts of a Facebook Page: staff requests of FacebookPostService and the *)
(* passes of FacebookPostScheduler in one or more API processes, which     *)
(* meet in MongoDB, where each of their reads and conditional updates is   *)
(* atomic, and at the Graph API, where a publish that timed out may still  *)
(* land.                                                                   *)
(*                                                                         *)
(* A request carries out one operation.  The page connection is not        *)
(* modelled: looking it up either works or ends the attempt.  The texts    *)
(* and the attempts counter, which no decision reads, are left out.        *)
(***************************************************************************)
EXTENDS Integers, FiniteSets

CONSTANTS
  Posts,
  Requests,    \* staff requests
  Schedulers,  \* API processes, each with its scheduler
  Media,       \* uploaded images
  NoMedia,     \* media: null
  NoWorker,    \* no claim yet
  Lease,       \* FACEBOOK_POST_LEASE_MS in ticks
  MaxNow,      \* bound: the clock stops here
  MaxFaults    \* bound: process crashes and MongoDB operations that throw

Workers == Requests \cup Schedulers

ASSUME WorkersAssumption ==
  Requests \cap Schedulers = {} /\ NoWorker \notin Workers
ASSUME MediaAssumption == NoMedia \notin Media
ASSUME TimeAssumption ==
  /\ Lease \in Nat \ {0}
  /\ MaxNow \in Nat
  /\ MaxFaults \in Nat

VARIABLES
  \* the FacebookPost documents
  status, due, lease, media, publishedId,
  \* the images at the provider
  stored,
  \* a worker: its control point and what it remembers
  pc, job,
  \* the publishes under way and landed at Facebook, as pairs of a post and
  \* the number of an attempt
  flying, landed,
  now, faults,
  \* history: claims, publish calls and manual retries of a post, the worker
  \* that claimed it last, and the images whose write took effect without an
  \* answer
  claims, begun, retries, holder, unsure

docVars   == <<status, due, lease, media, publishedId>>
netVars   == <<flying, landed>>
clockVars == <<now, faults>>
counters  == <<claims, begun, retries, holder>>
history   == <<counters, unsure>>
vars == <<docVars, stored, pc, job, netVars, clockVars, history>>

Statuses == {"absent", "draft", "scheduled", "publishing", "published",
             "failed", "deleted"}
Points == {"idle", "update", "retry", "destroyOld", "recover", "claim",
           "publish", "sent", "save", "fail", "end"}
Times == 0..(MaxNow + Lease)
Images == Media \cup {NoMedia}

\* What a worker holds between two round trips: the post, the time its pass
\* read, the lease and the number of its attempt, the requested update, and
\* the images it found and uploaded.
Jobs == [post : Posts, time : Times, lease : Times, attempt : Nat,
         mode : {"keep", "draft", "now", "scheduled"}, due : Times,
         old : Images, new : Images]
NoJob == [time |-> 0]

TypeOK ==
  /\ status \in [Posts -> Statuses]
  /\ due \in [Posts -> Times]
  /\ lease \in [Posts -> Times]
  /\ media \in [Posts -> Images]
  /\ publishedId \in [Posts -> Nat]
  /\ stored \subseteq Media
  /\ pc \in [Workers -> Points]
  /\ \A w \in Workers :
       IF pc[w] \in {"idle", "end"} THEN job[w] = NoJob
       ELSE IF pc[w] \in {"recover", "claim"} THEN job[w] \in [time : Times]
       ELSE job[w] \in Jobs
  /\ flying \subseteq Posts \X Nat
  /\ landed \subseteq Posts \X Nat
  /\ now \in 0..MaxNow
  /\ faults \in 0..MaxFaults
  /\ claims \in [Posts -> Nat]
  /\ begun \in [Posts -> Nat]
  /\ retries \in [Posts -> Nat]
  /\ holder \in [Posts -> Workers \cup {NoWorker}]
  /\ unsure \subseteq Media

\* Posts of earlier requests: drafts and schedules, with images of their own.
Init ==
  /\ status \in [Posts -> {"absent", "draft", "scheduled"}]
  /\ media \in [Posts -> Images]
  /\ \A p, q \in Posts : p # q => media[p] # media[q] \/ media[p] = NoMedia
  /\ \A p \in Posts : status[p] = "absent" => media[p] = NoMedia
  /\ due = [p \in Posts |-> IF status[p] = "scheduled" THEN 1 ELSE 0]
  /\ lease = [p \in Posts |-> 0]
  /\ publishedId = [p \in Posts |-> 0]
  /\ stored = {media[p] : p \in Posts} \ {NoMedia}
  /\ pc = [w \in Workers |-> "idle"]
  /\ job = [w \in Workers |-> NoJob]
  /\ flying = {}
  /\ landed = {}
  /\ now = 0
  /\ faults = 0
  /\ claims = [p \in Posts |-> 0]
  /\ begun = [p \in Posts |-> 0]
  /\ retries = [p \in Posts |-> 0]
  /\ holder = [p \in Posts |-> NoWorker]
  /\ unsure = {}

Goto(w, point) == pc' = [pc EXCEPT ![w] = point]
SetStatus(p, s) == status' = [status EXCEPT ![p] = s]
SetJob(w, j) == job' = [job EXCEPT ![w] = j]

NewJob(p) == [post |-> p, time |-> 0, lease |-> 0, attempt |-> 0,
              mode |-> "keep", due |-> 0, old |-> NoMedia, new |-> NoMedia]

\* A request ends for good, a scheduler's pass until the next one.
Rest(w) == IF w \in Schedulers THEN "idle" ELSE "end"
Finish(w) == Goto(w, Rest(w)) /\ SetJob(w, NoJob)

\* A MongoDB operation throws, or a process dies.  Where the operation took
\* effect all the same and an image depends on it, the action says so; elsewhere
\* this is what a process that dies after it leaves behind.
Fault ==
  /\ faults < MaxFaults
  /\ faults' = faults + 1
  /\ UNCHANGED now

\* A condition the code meets by giving up, or an operation that throws.
UnlessOrFault(condition) ==
  \/ ~condition /\ UNCHANGED clockVars
  \/ Fault

\* Each upload gets a public id of its own.
Uploaded == stored \cup unsure \cup {media[p] : p \in Posts}
              \cup {job[w].old : w \in {u \in Workers : pc[u] \in {"update", "destroyOld"}}}
              \cup {job[w].new : w \in {u \in Workers : pc[u] = "update"}}
NewImages == {NoMedia} \cup (IF Media \subseteq Uploaded THEN {}
                             ELSE {CHOOSE m \in Media : m \notin Uploaded})

\* Post p is claimed for publishing by w, which writes the end l of its lease,
ClaimRow(w, p, l) ==
  /\ SetStatus(p, "publishing")
  /\ lease' = [lease EXCEPT ![p] = l]
  /\ claims' = [claims EXCEPT ![p] = @ + 1]
  /\ holder' = [holder EXCEPT ![p] = w]

\* and goes on to publish it.
Claim(w, p, l) ==
  /\ ClaimRow(w, p, l)
  /\ SetJob(w, [NewJob(p) EXCEPT !.lease = l, !.attempt = claims[p] + 1])
  /\ Goto(w, "publish")

NoClaim == UNCHANGED <<lease, claims, holder>>
-----------------------------------------------------------------------------
(* Staff requests.                                                          *)

\* createPost: connection, upload and insert.  When the insert throws or the
\* process dies before it, the image is at most left over.
CreatePost(q, p) ==
  /\ pc[q] = "idle"
  /\ status[p] = "absent"
  /\ \E image \in NewImages :
       \/ /\ media' = [media EXCEPT ![p] = image]
          /\ stored' = stored \cup ({image} \ {NoMedia})
          /\ \/ SetStatus(p, "draft") /\ Finish(q) /\ UNCHANGED due /\ NoClaim
             \/ \E time \in (now + 1)..MaxNow :
                  /\ SetStatus(p, "scheduled")
                  /\ due' = [due EXCEPT ![p] = time]
                  /\ Finish(q) /\ NoClaim
             \/ Claim(q, p, now + Lease) /\ UNCHANGED due
          /\ UNCHANGED clockVars
       \/ /\ Fault
          /\ stored' \in {stored, stored \cup ({image} \ {NoMedia})}
          /\ Finish(q) /\ NoClaim
          /\ UNCHANGED <<status, due, media>>
  /\ UNCHANGED <<publishedId, netVars, begun, retries, unsure>>

\* The insert took effect but its answer is lost.  The catch destroys the image
\* all the same, and nobody goes on to publish.  (Without an image the request
\* might as well have died.)
CreateUnanswered(q, p) ==
  /\ pc[q] = "idle"
  /\ status[p] = "absent"
  /\ Fault
  /\ \E image \in NewImages \ {NoMedia} :
       /\ media' = [media EXCEPT ![p] = image]
       /\ stored' = stored \cup {image}
       /\ unsure' = unsure \cup {image}
       /\ Goto(q, "destroyOld")
       /\ SetJob(q, [NewJob(p) EXCEPT !.old = image])
  /\ \/ SetStatus(p, "draft") /\ UNCHANGED due /\ NoClaim
     \/ \E time \in (now + 1)..MaxNow :
          SetStatus(p, "scheduled") /\ due' = [due EXCEPT ![p] = time] /\ NoClaim
     \/ ClaimRow(q, p, now + Lease) /\ UNCHANGED due
  /\ UNCHANGED <<publishedId, netVars, begun, retries>>

\* updatePost's read and checks, then the upload.  A schedule given in the
\* request, or kept from the post, lies in the future at this moment.
UpdateRead(q, p) ==
  /\ pc[q] = "idle"
  /\ status[p] \in {"draft", "scheduled"}
  /\ \E image \in NewImages, mode \in {"keep", "draft", "scheduled"} :
       \E time \in IF mode = "scheduled" THEN (now + 1)..MaxNow ELSE {0} :
         /\ stored' = stored \cup ({image} \ {NoMedia})
         /\ SetJob(q, [NewJob(p) EXCEPT !.mode = mode, !.due = time,
                                        !.old = media[p], !.new = image])
  /\ Goto(q, "update")
  /\ UNCHANGED <<docVars, netVars, clockVars, history>>

Editable(p) == status[p] \in {"draft", "scheduled"}

\* As a mutant of Superseded: the old image is destroyed before it is known
\* whether the update happened.
SupersededEarly(j, saved) == j.old

\* The image nothing refers to after a conditional update.
Superseded(j, saved) == IF ~saved THEN j.new
                        ELSE IF j.new = NoMedia THEN NoMedia ELSE j.old

\* What the conditional update writes.
ApplyUpdate(j) ==
  /\ Editable(j.post)
  /\ \/ j.mode = "keep" /\ UNCHANGED <<status, due>>
     \/ /\ j.mode # "keep"
        /\ SetStatus(j.post, j.mode)
        /\ due' = [due EXCEPT ![j.post] = j.due]
  /\ media' = IF j.new = NoMedia THEN media ELSE [media EXCEPT ![j.post] = j.new]

\* The conditional update.  An image that has no use any more is destroyed
\* after it.
UpdateSave(q) ==
  LET j == job[q]
      AndDestroy(saved) ==
        IF Superseded(j, saved) = NoMedia THEN Finish(q)
        ELSE /\ Goto(q, "destroyOld")
             /\ SetJob(q, [j EXCEPT !.old = Superseded(j, saved)])
  IN
  /\ pc[q] = "update"
  /\ \/ ApplyUpdate(j) /\ AndDestroy(TRUE) /\ UNCHANGED clockVars
     \/ /\ UnlessOrFault(Editable(j.post))
        /\ AndDestroy(FALSE)
        /\ UNCHANGED <<status, due, media>>
  /\ UNCHANGED <<lease, publishedId, stored, netVars, history>>

\* The same update, of which the answer is lost: the catch destroys the image
\* that the post has now.  (Without an image the request might as well have
\* died.)
UpdateUnanswered(q) ==
  LET j == job[q] IN
  /\ pc[q] = "update"
  /\ j.new # NoMedia
  /\ ApplyUpdate(j)
  /\ Fault
  /\ unsure' = unsure \cup {j.new}
  /\ Goto(q, "destroyOld")
  /\ SetJob(q, [j EXCEPT !.old = j.new])
  /\ UNCHANGED <<lease, publishedId, stored, netVars, counters>>

\* media.destroy, whose failure is swallowed or only reported.
DestroyOld(q) ==
  /\ pc[q] = "destroyOld"
  /\ \/ stored' = stored \ {job[q].old}
     \/ UNCHANGED stored
  /\ Finish(q)
  /\ UNCHANGED <<docVars, netVars, clockVars, history>>

\* cancelPost: one findOneAndDelete, then the image it found.
CancelPost(q, p) ==
  /\ pc[q] = "idle"
  /\ status[p] \in {"draft", "scheduled", "published", "failed"}
  /\ SetStatus(p, "deleted")
  /\ media' = [media EXCEPT ![p] = NoMedia]
  /\ \/ media[p] = NoMedia /\ Finish(q)
     \/ /\ media[p] # NoMedia
        /\ Goto(q, "destroyOld")
        /\ SetJob(q, [NewJob(p) EXCEPT !.old = media[p]])
  /\ UNCHANGED <<due, lease, publishedId, stored, netVars, clockVars, history>>

\* retryPost's read and checks.
RetryRead(q, p) ==
  /\ pc[q] = "idle"
  /\ status[p] = "failed"
  /\ \/ SetJob(q, [NewJob(p) EXCEPT !.mode = "now"])
     \/ due[p] > now /\ SetJob(q, [NewJob(p) EXCEPT !.mode = "scheduled"])
  /\ Goto(q, "retry")
  /\ UNCHANGED <<docVars, stored, netVars, clockVars, history>>

\* The filter of the retry's conditional update.
Retryable(p) == status[p] = "failed"

RetrySave(q) ==
  LET p == job[q].post IN
  /\ pc[q] = "retry"
  /\ \/ /\ Retryable(p)
        /\ retries' = [retries EXCEPT ![p] = @ + 1]
        /\ \/ job[q].mode = "now" /\ Claim(q, p, now + Lease)
           \/ /\ job[q].mode = "scheduled"
              /\ SetStatus(p, "scheduled")
              /\ Finish(q) /\ NoClaim
        /\ UNCHANGED clockVars
     \/ /\ UnlessOrFault(Retryable(p))
        /\ Finish(q) /\ NoClaim
        /\ UNCHANGED <<status, retries>>
  /\ UNCHANGED <<due, media, publishedId, stored, netVars, begun, unsure>>
-----------------------------------------------------------------------------
(* The scheduler: runOnce, which its running flag makes sequential in one    *)
(* process.                                                                 *)

StartPass(s) ==
  /\ pc[s] = "idle"
  /\ SetJob(s, [time |-> now])
  /\ Goto(s, "recover")
  /\ UNCHANGED <<docVars, stored, netVars, clockVars, history>>

\* As a mutant of Expired: strictly before.
ExpiredBefore(s, p) == status[p] = "publishing" /\ lease[p] < job[s].time

Expired(s, p) == status[p] = "publishing" /\ lease[p] <= job[s].time

\* As mutants of RecoveredStatus: an expired attempt goes back into the queue;
\* a status the schema does not know.
BackToQueue == "scheduled"
RecoveredAsExpired == "expired"

RecoveredStatus == "failed"

\* One expired claim ends as failed, and with it the pass.
Recover(s) ==
  /\ pc[s] = "recover"
  /\ \/ \E p \in Posts :
          /\ Expired(s, p)
          /\ SetStatus(p, RecoveredStatus)
          /\ lease' = [lease EXCEPT ![p] = 0]
          /\ Finish(s)
          /\ UNCHANGED clockVars
     \/ /\ \A p \in Posts : ~Expired(s, p)
        /\ Goto(s, "claim")
        /\ UNCHANGED <<status, lease, job, clockVars>>
     \/ Fault /\ Finish(s) /\ UNCHANGED <<status, lease>>
  /\ UNCHANGED <<due, media, publishedId, stored, netVars, history>>

\* As a mutant of Due: strictly before, so that a post due at the end waits.
DueBefore(s, p) == status[p] = "scheduled" /\ due[p] < job[s].time

Due(s, p) == status[p] = "scheduled" /\ due[p] <= job[s].time

ClaimDue(s) ==
  /\ pc[s] = "claim"
  /\ \/ \E p \in Posts : Due(s, p) /\ Claim(s, p, job[s].time + Lease)
                         /\ UNCHANGED clockVars
     \/ /\ UnlessOrFault(\E p \in Posts : Due(s, p))
        /\ Finish(s) /\ NoClaim
        /\ UNCHANGED status
  /\ UNCHANGED <<due, media, publishedId, stored, netVars, begun, retries, unsure>>
-----------------------------------------------------------------------------
(* Publishing, by the worker that claimed the post.                          *)

Publication(w) == <<job[w].post, job[w].attempt>>

\* FacebookPublisher.publish is called, unless the connection, its token or
\* its page is not what the post needs.
BeginPublish(w) ==
  /\ pc[w] = "publish"
  /\ \/ /\ flying' = flying \cup {Publication(w)}
        /\ begun' = [begun EXCEPT ![job[w].post] = @ + 1]
        /\ Goto(w, "sent")
     \/ Goto(w, "fail") /\ UNCHANGED <<flying, begun>>
  /\ UNCHANGED <<docVars, stored, job, landed, clockVars, claims, retries, holder,
                 unsure>>

\* Facebook publishes whenever it likes, or never.
Land ==
  \E f \in flying :
    /\ flying' = flying \ {f}
    /\ landed' = landed \cup {f}
    /\ UNCHANGED <<docVars, stored, pc, job, clockVars, history>>

\* As a mutant of Answered: a timeout is taken for success.
AnsweredOrTimeout(w) == pc[w] = "sent"

Answered(w) == Publication(w) \in landed

\* A post id comes back; or a refusal, an answer without an id, or the 15 s
\* timeout, which say nothing about the page.
PublishSettles(w) ==
  /\ pc[w] = "sent"
  /\ \/ Answered(w) /\ Goto(w, "save")
     \/ Goto(w, "fail")
  /\ UNCHANGED <<docVars, stored, job, netVars, clockVars, history>>

\* As a mutant of MayPersist: the scheduler without its lease in the filter.
PublishingOnly(w) == status[job[w].post] = "publishing"

\* The filter of the terminal update: the scheduler's names the lease it
\* wrote, the request's does not.
MayPersist(w) ==
  /\ status[job[w].post] = "publishing"
  /\ w \in Schedulers => lease[job[w].post] = job[w].lease

\* publishPost, failPost and persistTerminal.  If the update does not happen
\* a scheduler's pass throws, and so does a request, except that one that
\* could not save the published state goes on to failPost.
PersistTerminal(w) ==
  LET p == job[w].post IN
  /\ pc[w] \in {"save", "fail"}
  /\ \/ /\ MayPersist(w)
        /\ \/ /\ pc[w] = "save"
              /\ SetStatus(p, "published")
              /\ publishedId' = [publishedId EXCEPT ![p] = job[w].attempt]
           \/ /\ pc[w] = "fail"
              /\ SetStatus(p, "failed")
              /\ UNCHANGED publishedId
        /\ lease' = [lease EXCEPT ![p] = 0]
        /\ Finish(w)
        /\ UNCHANGED clockVars
     \/ /\ UnlessOrFault(MayPersist(w))
        /\ IF w \in Requests /\ pc[w] = "save"
           THEN Goto(w, "fail") /\ UNCHANGED job
           ELSE Finish(w)
        /\ UNCHANGED <<status, publishedId, lease>>
  /\ UNCHANGED <<due, media, stored, netVars, history>>

\* A process dies with the request in it, or dies and starts again with a new
\* scheduler.
Crash(w) ==
  /\ pc[w] \notin {"idle", "end"}
  /\ Fault
  /\ Finish(w)
  /\ UNCHANGED <<docVars, stored, netVars, history>>

Tick ==
  /\ now < MaxNow
  /\ now' = now + 1
  /\ UNCHANGED <<docVars, stored, pc, job, netVars, faults, history>>
-----------------------------------------------------------------------------
Publish(w) == BeginPublish(w) \/ PublishSettles(w) \/ PersistTerminal(w)

Request(q) ==
  \/ \E p \in Posts : \/ CreatePost(q, p) \/ CreateUnanswered(q, p) \/ UpdateRead(q, p)
                      \/ CancelPost(q, p) \/ RetryRead(q, p)
  \/ UpdateSave(q) \/ UpdateUnanswered(q) \/ DestroyOld(q) \/ RetrySave(q)

RunOnce(s) == StartPass(s) \/ Recover(s) \/ ClaimDue(s)

Next ==
  \/ \E q \in Requests : Request(q)
  \/ \E s \in Schedulers : RunOnce(s)
  \/ \E w \in Workers : Publish(w) \/ Crash(w)
  \/ Land
  \/ Tick

Spec == Init /\ [][Next]_vars

\* The interval timer starts passes for ever, and a pass ends because MongoDB
\* answers and publish has a timeout.  Nothing is assumed of requests, and
\* Facebook need not publish anything.
FairSpec ==
  /\ Spec
  /\ \A s \in Schedulers : WF_vars(RunOnce(s) \/ Publish(s))
  /\ WF_vars(Tick)
-----------------------------------------------------------------------------
(* What must hold.                                                          *)

\* No publish call is repeated unless a person asked for it: a post whose
\* result is unknown (timeout, expired lease, crash) is never published again
\* by the schedulers themselves, however many there are.
PublishNeedsConfirmation == \A p \in Posts : begun[p] <= 1 + retries[p]

\* A post recorded as published is on the page, under the recorded id.
PublishedIsTrue ==
  \A p \in Posts : status[p] = "published" => <<p, publishedId[p]>> \in landed

\* The image of a post that exists has not been destroyed, whatever updates
\* and cancellations overlap, unless the answer to its own write was lost: then
\* the request takes the write for failed and destroys it
\* (facebook-post.service.ts:177, :220).
MediaIsStored ==
  \A p \in Posts : status[p] \notin {"absent", "deleted"} /\ media[p] # NoMedia
    => media[p] \in stored \cup unsure

\* A scheduler's late result ends only the attempt it claimed, never the one
\* of a retry that followed the expiry of its lease; and a published post stays
\* published under its id until it is deleted: no late failure, recovery or
\* retry of the post undoes it.
EndsOwnAttempt ==
  \A s \in Schedulers :
    pc[s] \in {"save", "fail"} /\ pc'[s] = "idle"
      /\ status'[job[s].post] # status[job[s].post] => holder[job[s].post] = s
PublishedStays ==
  \A p \in Posts : status[p] = "published" =>
    \/ status'[p] = "deleted"
    \/ status'[p] = "published" /\ publishedId'[p] = publishedId[p]
OutcomeIsRespected == [][EndsOwnAttempt /\ PublishedStays]_vars

\* No post stays in publishing: its worker, or after the lease a scheduler,
\* ends the attempt.  (A lease that ends after the bounded clock does not.)
PublishingEnds ==
  \A p \in Posts :
    status[p] = "publishing" ~> status[p] # "publishing" \/ lease[p] > MaxNow

\* A post that is due is taken, even if schedulers were down when it fell due
\* and although a pass that recovers an expired claim takes none.
DueIsTaken ==
  \A p \in Posts :
    status[p] = "scheduled" /\ due[p] <= now ~> status[p] # "scheduled" \/ due[p] > now
=============================================================================
