-------------------------- MODULE FacebookPostsProofs --------------------------
(***************************************************************************)
(* The safety of FacebookPosts for any number of posts, requests,          *)
(* schedulers, images and faults.                                          *)
(***************************************************************************)
EXTENDS FacebookPosts, FiniteSetTheorems, TLAPS

(* Types.  TypeOK says of each worker what it holds; that job is a function *)
(* and that a pass has read a time the clock has shown makes it inductive.  *)
Holds(point, j) ==
  IF point \in {"idle", "end"} THEN j = NoJob
  ELSE IF point \in {"recover", "claim"} THEN j \in [time : 0..MaxNow]
  ELSE j \in Jobs /\ (point = "update" => j.mode # "now")

WorkersInv ==
  /\ pc \in [Workers -> Points]
  /\ job = [w \in Workers |-> job[w]]
  /\ \A w \in Workers : Holds(pc[w], job[w])

DocsInv ==
  /\ status \in [Posts -> Statuses]
  /\ due \in [Posts -> Times]
  /\ lease \in [Posts -> Times]
  /\ media \in [Posts -> Images]
  /\ publishedId \in [Posts -> Nat]
  /\ stored \subseteq Media

WorldInv ==
  /\ flying \subseteq Posts \X Nat
  /\ landed \subseteq Posts \X Nat
  /\ now \in 0..MaxNow
  /\ faults \in 0..MaxFaults

HistoryInv ==
  /\ claims \in [Posts -> Nat]
  /\ begun \in [Posts -> Nat]
  /\ retries \in [Posts -> Nat]
  /\ holder \in [Posts -> Workers \cup {NoWorker}]
  /\ unsure \subseteq Media

TypeInv == WorkersInv /\ DocsInv /\ WorldInv /\ HistoryInv

USE WorkersAssumption, MediaAssumption, TimeAssumption

LEMMA TypeInvImplies == TypeInv => TypeOK
<1>. SUFFICES ASSUME TypeInv PROVE TypeOK
  OBVIOUS
<1>1. \A w \in Workers :
        IF pc[w] \in {"idle", "end"} THEN job[w] = NoJob
        ELSE IF pc[w] \in {"recover", "claim"} THEN job[w] \in [time : Times]
        ELSE job[w] \in Jobs
  <2>. SUFFICES ASSUME NEW w \in Workers
       PROVE IF pc[w] \in {"idle", "end"} THEN job[w] = NoJob
             ELSE IF pc[w] \in {"recover", "claim"} THEN job[w] \in [time : Times]
             ELSE job[w] \in Jobs
    OBVIOUS
  <2>1. 0..MaxNow \subseteq Times
    BY DEF Times
  <2>. QED BY <2>1 DEF TypeInv, WorkersInv, Holds
<1>. QED BY <1>1 DEF TypeInv, TypeOK, WorkersInv, DocsInv, WorldInv, HistoryInv

LEMMA TypeInit == Init => TypeInv
  BY DEF Init, TypeInv, WorkersInv, Holds, DocsInv, WorldInv, HistoryInv, Statuses, Points, Times,
         Images, NoJob, Workers

\* A worker that moves and holds what its new point asks for.
LEMMA Moves ==
  ASSUME WorkersInv, NEW w \in Workers, NEW point \in Points, NEW j, Holds(point, j),
         Goto(w, point), SetJob(w, j)
  PROVE  WorkersInv'
<1>1. pc' \in [Workers -> Points]
  BY DEF WorkersInv, Goto
<1>2. job' = [v \in Workers |-> job'[v]]
  BY DEF WorkersInv, SetJob
<1>3. \A v \in Workers : Holds(pc'[v], job'[v])
  <2>. TAKE v \in Workers
  <2>1. CASE v = w
    BY <2>1 DEF WorkersInv, Goto, SetJob
  <2>2. CASE v # w
    BY <2>2 DEF WorkersInv, Goto, SetJob
  <2>. QED BY <2>1, <2>2
<1>. QED BY <1>1, <1>2, <1>3 DEF WorkersInv, Holds

LEMMA MovesOnly ==
  ASSUME WorkersInv, NEW w \in Workers, NEW point \in Points, Holds(point, job[w]),
         Goto(w, point), UNCHANGED job
  PROVE  WorkersInv'
<1>1. \A v \in Workers : Holds(pc'[v], job'[v])
  <2>. TAKE v \in Workers
  <2>1. CASE v = w
    BY <2>1 DEF WorkersInv, Goto
  <2>2. CASE v # w
    BY <2>2 DEF WorkersInv, Goto
  <2>. QED BY <2>1, <2>2
<1>. QED BY <1>1 DEF WorkersInv, Goto, Holds

LEMMA Finishes == ASSUME WorkersInv, NEW w \in Workers, Finish(w) PROVE WorkersInv'
<1>1. Rest(w) \in Points /\ Holds(Rest(w), NoJob)
  BY DEF Rest, Points, Holds
<1>. QED BY <1>1, Moves DEF Finish

LEMMA NewJobs == \A p \in Posts : NewJob(p) \in Jobs
  BY DEF NewJob, Jobs, Times, Images

LEMMA ClaimedJobs ==
  ASSUME NEW p \in Posts, NEW l \in Times, NEW a \in Nat
  PROVE  [NewJob(p) EXCEPT !.lease = l, !.attempt = a] \in Jobs
<1>1. ASSUME NEW j \in Jobs PROVE [j EXCEPT !.lease = l, !.attempt = a] \in Jobs
  BY DEF Jobs
<1>. QED BY <1>1, NewJobs

LEMMA UpdateJobs ==
  ASSUME NEW p \in Posts, NEW mode \in {"keep", "draft", "scheduled"}, NEW time \in Times,
         NEW old \in Images, NEW new \in Images
  PROVE  [NewJob(p) EXCEPT !.mode = mode, !.due = time, !.old = old, !.new = new]
           \in {j \in Jobs : j.mode # "now"}
<1>1. ASSUME NEW j \in Jobs
      PROVE  [j EXCEPT !.mode = mode, !.due = time, !.old = old, !.new = new] \in {i \in Jobs : i.mode # "now"}
  BY DEF Jobs
<1>. QED BY <1>1, NewJobs

LEMMA NewImagesAreImages == NewImages \subseteq Images
  BY DEF NewImages, Images

LEMMA Claims ==
  ASSUME WorkersInv, HistoryInv, NEW w \in Workers, NEW p \in Posts, NEW l \in Times, Claim(w, p, l)
  PROVE  WorkersInv'
<1>. DEFINE j == [NewJob(p) EXCEPT !.lease = l, !.attempt = claims[p] + 1]
<1>0. claims[p] + 1 \in Nat
  BY DEF HistoryInv
<1>1. j \in Jobs
  BY <1>0, ClaimedJobs
<1>2. Holds("publish", j) /\ "publish" \in Points
  BY <1>1 DEF Holds, Points
<1>. QED BY <1>2, Moves DEF Claim, ClaimRow

\* The steps that a fault may replace leave the clock alone.
LEMMA FaultsCount == ASSUME WorldInv, Fault PROVE now' = now /\ faults' \in 0..MaxFaults
  BY DEF Fault, WorldInv

LEMMA TypeStep == TypeInv /\ [Next]_vars => TypeInv'
<1>. SUFFICES ASSUME TypeInv, [Next]_vars PROVE TypeInv'
  OBVIOUS
<1>. USE DEF TypeInv
<1>0. Requests \subseteq Workers /\ Schedulers \subseteq Workers
  BY DEF Workers
<1>00. \A t \in 0..MaxNow : t \in Times /\ t + Lease \in Times
  BY DEF Times
<1>1. ASSUME NEW q \in Requests, NEW p \in Posts, CreatePost(q, p) PROVE TypeInv'
  <2>0. q \in Workers /\ now + Lease \in Times /\ now \in Nat
    BY <1>0, <1>00 DEF WorldInv
  <2>1. WorkersInv'
    BY <1>1, <2>0, Finishes, Claims DEF CreatePost
  <2>2. status' \in [Posts -> Statuses]
    BY <1>1 DEF CreatePost, SetStatus, Claim, ClaimRow, DocsInv, Statuses
  <2>3. due' \in [Posts -> Times]
    BY <1>1, <2>0 DEF CreatePost, DocsInv, Times
  <2>4. lease' \in [Posts -> Times]
    BY <1>1, <2>0 DEF CreatePost, Claim, ClaimRow, NoClaim, DocsInv
  <2>5. media' \in [Posts -> Images] /\ stored' \subseteq Media
    BY <1>1, NewImagesAreImages DEF CreatePost, DocsInv, Images
  <2>6. WorldInv'
    BY <1>1, FaultsCount DEF CreatePost, clockVars, netVars, WorldInv
  <2>7. HistoryInv'
    BY <1>1, <2>0 DEF CreatePost, Claim, ClaimRow, NoClaim, HistoryInv
  <2>. QED BY <1>1, <2>1, <2>2, <2>3, <2>4, <2>5, <2>6, <2>7 DEF CreatePost, DocsInv
<1>2. ASSUME NEW q \in Requests, NEW p \in Posts, UpdateRead(q, p) PROVE TypeInv'
  <2>1. PICK image \in NewImages, mode \in {"keep", "draft", "scheduled"} :
          \E time \in IF mode = "scheduled" THEN (now + 1)..MaxNow ELSE {0} :
            /\ stored' = stored \cup ({image} \ {NoMedia})
            /\ SetJob(q, [NewJob(p) EXCEPT !.mode = mode, !.due = time,
                                           !.old = media[p], !.new = image])
    BY <1>2 DEF UpdateRead
  <2>2. PICK time \in IF mode = "scheduled" THEN (now + 1)..MaxNow ELSE {0} :
            /\ stored' = stored \cup ({image} \ {NoMedia})
            /\ SetJob(q, [NewJob(p) EXCEPT !.mode = mode, !.due = time,
                                           !.old = media[p], !.new = image])
    BY <2>1
  <2>3. time \in Times /\ image \in Images /\ media[p] \in Images
    BY <2>2, NewImagesAreImages DEF WorldInv, DocsInv, Times
  <2>4. Holds("update", [NewJob(p) EXCEPT !.mode = mode, !.due = time, !.old = media[p], !.new = image])
    BY <2>3, UpdateJobs DEF Holds
  <2>5. WorkersInv'
    BY <1>2, <1>0, <2>2, <2>4, Moves DEF UpdateRead, Holds, Points
  <2>6. stored' \subseteq Media
    BY <2>2, <2>3 DEF DocsInv, Images
  <2>. QED BY <1>2, <2>5, <2>6 DEF UpdateRead, DocsInv, WorldInv, HistoryInv, docVars, netVars, clockVars, counters, history
<1>3. ASSUME NEW q \in Requests, UpdateSave(q) PROVE TypeInv'
  <2>1. q \in Workers /\ job[q] \in Jobs /\ job[q].mode # "now"
    BY <1>3, <1>0 DEF UpdateSave, ApplyUpdate, WorkersInv, Holds
  <2>2. \A saved \in BOOLEAN : [job[q] EXCEPT !.old = Superseded(job[q], saved)] \in Jobs
    BY <2>1 DEF Superseded, Jobs, Images
  <2>3. WorkersInv'
    <3>1. \A saved \in BOOLEAN :
            Goto(q, "destroyOld") /\ SetJob(q, [job[q] EXCEPT !.old = Superseded(job[q], saved)])
              => WorkersInv'
      BY <2>1, <2>2, Moves DEF Holds, Points
    <3>. QED BY <1>3, <2>1, <3>1, Finishes DEF UpdateSave, ApplyUpdate
  <2>40. job[q].mode \in {"keep", "draft", "now", "scheduled"} /\ job[q].post \in Posts
    BY <2>1 DEF Jobs
  <2>41. \/ status' = status
         \/ job[q].mode # "now" /\ job[q].mode # "keep" /\ SetStatus(job[q].post, job[q].mode)
    BY <1>3, <2>1 DEF UpdateSave, ApplyUpdate
  <2>4. status' \in [Posts -> Statuses]
    BY <2>40, <2>41 DEF SetStatus, DocsInv, Statuses
  <2>5. due' \in [Posts -> Times] /\ media' \in [Posts -> Images]
    BY <1>3, <2>1 DEF UpdateSave, ApplyUpdate, DocsInv, Jobs
  <2>6. WorldInv'
    BY <1>3, FaultsCount DEF UpdateSave, ApplyUpdate, UnlessOrFault, clockVars, netVars, WorldInv
  <2>. QED BY <1>3, <2>3, <2>4, <2>5, <2>6 DEF UpdateSave, ApplyUpdate, DocsInv, HistoryInv, counters, history
<1>4. ASSUME NEW q \in Requests, DestroyOld(q) PROVE TypeInv'
  BY <1>4, <1>0, Finishes DEF DestroyOld, DocsInv, WorldInv, HistoryInv, docVars, netVars, clockVars, counters, history
<1>5. ASSUME NEW q \in Requests, NEW p \in Posts, CancelPost(q, p) PROVE TypeInv'
  <2>1. [NewJob(p) EXCEPT !.old = media[p]] \in Jobs
    BY DEF NewJob, Jobs, Times, DocsInv, Images
  <2>2. WorkersInv'
    BY <1>5, <1>0, <2>1, Finishes, Moves DEF CancelPost, Holds, Points
  <2>3. status' \in [Posts -> Statuses] /\ media' \in [Posts -> Images]
    BY <1>5 DEF CancelPost, SetStatus, DocsInv, Statuses, Images
  <2>. QED BY <1>5, <2>2, <2>3 DEF CancelPost, DocsInv, WorldInv, HistoryInv, netVars, clockVars, counters, history
<1>6. ASSUME NEW q \in Requests, NEW p \in Posts, RetryRead(q, p) PROVE TypeInv'
  <2>1. \A mode \in {"now", "scheduled"} : [NewJob(p) EXCEPT !.mode = mode] \in Jobs
    BY DEF NewJob, Jobs, Times, Images
  <2>2. WorkersInv'
    BY <1>6, <1>0, <2>1, Moves DEF RetryRead, Holds, Points
  <2>. QED BY <1>6, <2>2 DEF RetryRead, DocsInv, WorldInv, HistoryInv, docVars, netVars, clockVars, counters, history
<1>7. ASSUME NEW q \in Requests, RetrySave(q) PROVE TypeInv'
  <2>1. q \in Workers /\ job[q] \in Jobs /\ job[q].post \in Posts /\ now + Lease \in Times
    BY <1>7, <1>0, <1>00 DEF RetrySave, WorkersInv, WorldInv, Holds, Jobs
  <2>2. WorkersInv'
    BY <1>7, <2>1, Finishes, Claims DEF RetrySave
  <2>3. status' \in [Posts -> Statuses] /\ lease' \in [Posts -> Times]
    BY <1>7, <2>1 DEF RetrySave, SetStatus, Claim, ClaimRow, NoClaim, DocsInv, Statuses
  <2>4. WorldInv'
    BY <1>7, FaultsCount DEF RetrySave, UnlessOrFault, clockVars, netVars, WorldInv
  <2>5. HistoryInv'
    BY <1>7, <2>1 DEF RetrySave, Claim, ClaimRow, NoClaim, HistoryInv
  <2>. QED BY <1>7, <2>2, <2>3, <2>4, <2>5 DEF RetrySave, DocsInv
<1>8. ASSUME NEW s \in Schedulers, StartPass(s) PROVE TypeInv'
  <2>1. WorkersInv'
    BY <1>8, <1>0, Moves DEF StartPass, Holds, Points, WorldInv
  <2>. QED BY <1>8, <2>1 DEF StartPass, DocsInv, WorldInv, HistoryInv, docVars, netVars, clockVars, counters, history
<1>9. ASSUME NEW s \in Schedulers, Recover(s) PROVE TypeInv'
  <2>1. s \in Workers /\ Holds("claim", job[s]) /\ "claim" \in Points
    BY <1>9, <1>0 DEF Recover, WorkersInv, Holds, Points
  <2>2. WorkersInv'
    BY <1>9, <2>1, Finishes, MovesOnly DEF Recover
  <2>3. status' \in [Posts -> Statuses] /\ lease' \in [Posts -> Times]
    BY <1>9 DEF Recover, RecoveredStatus, SetStatus, DocsInv, Statuses, Times
  <2>4. WorldInv'
    BY <1>9, FaultsCount DEF Recover, clockVars, netVars, WorldInv
  <2>. QED BY <1>9, <2>2, <2>3, <2>4 DEF Recover, DocsInv, HistoryInv, counters, history
<1>10. ASSUME NEW s \in Schedulers, ClaimDue(s) PROVE TypeInv'
  <2>1. s \in Workers /\ job[s].time + Lease \in Times
    BY <1>10, <1>0, <1>00 DEF ClaimDue, WorkersInv, Holds
  <2>2. WorkersInv'
    BY <1>10, <2>1, Finishes, Claims DEF ClaimDue
  <2>3. status' \in [Posts -> Statuses] /\ lease' \in [Posts -> Times]
    <3>1. \A p \in Posts, l \in Times : Claim(s, p, l) =>
            status' \in [Posts -> Statuses] /\ lease' \in [Posts -> Times]
      BY DEF SetStatus, Claim, ClaimRow, DocsInv, Statuses
    <3>. QED BY <1>10, <2>1, <3>1 DEF ClaimDue, NoClaim, DocsInv
  <2>4. WorldInv'
    BY <1>10, FaultsCount DEF ClaimDue, UnlessOrFault, clockVars, netVars, WorldInv
  <2>50. \A p \in Posts, l \in Times : Claim(s, p, l) =>
           claims' \in [Posts -> Nat] /\ holder' \in [Posts -> Workers \cup {NoWorker}]
    BY <2>1 DEF Claim, ClaimRow, HistoryInv
  <2>5. HistoryInv'
    BY <1>10, <2>1, <2>50 DEF ClaimDue, NoClaim, HistoryInv
  <2>. QED BY <1>10, <2>2, <2>3, <2>4, <2>5 DEF ClaimDue, DocsInv
<1>11. ASSUME NEW w \in Workers, BeginPublish(w) PROVE TypeInv'
  <2>1. job[w] \in Jobs /\ job[w].post \in Posts /\ job[w].attempt \in Nat
    BY <1>11 DEF BeginPublish, WorkersInv, Holds, Jobs
  <2>2. WorkersInv'
    BY <1>11, <2>1, MovesOnly DEF BeginPublish, Holds, Points
  <2>3. WorldInv' /\ HistoryInv'
    BY <1>11, <2>1 DEF BeginPublish, Publication, WorldInv, HistoryInv, clockVars
  <2>. QED BY <1>11, <2>2, <2>3 DEF BeginPublish, DocsInv, docVars
<1>12. ASSUME NEW w \in Workers, PublishSettles(w) PROVE TypeInv'
  <2>1. WorkersInv'
    BY <1>12, MovesOnly DEF PublishSettles, WorkersInv, Holds, Points
  <2>. QED BY <1>12, <2>1 DEF PublishSettles, DocsInv, WorldInv, HistoryInv, docVars, netVars, clockVars, counters, history
<1>13. ASSUME NEW w \in Workers, PersistTerminal(w) PROVE TypeInv'
  <2>1. job[w] \in Jobs /\ job[w].post \in Posts /\ job[w].attempt \in Nat
    BY <1>13 DEF PersistTerminal, WorkersInv, Holds, Jobs
  <2>2. WorkersInv'
    BY <1>13, <2>1, Finishes, MovesOnly DEF PersistTerminal, Holds, Points
  <2>3. status' \in [Posts -> Statuses] /\ lease' \in [Posts -> Times]
    BY <1>13, <2>1 DEF PersistTerminal, SetStatus, DocsInv, Statuses, Times
  <2>4. publishedId' \in [Posts -> Nat]
    BY <1>13, <2>1 DEF PersistTerminal, DocsInv
  <2>5. WorldInv'
    BY <1>13, FaultsCount DEF PersistTerminal, UnlessOrFault, clockVars, netVars, WorldInv
  <2>. QED BY <1>13, <2>2, <2>3, <2>4, <2>5 DEF PersistTerminal, DocsInv, HistoryInv, counters, history
<1>14. ASSUME NEW w \in Workers, Crash(w) PROVE TypeInv'
  BY <1>14, Finishes, FaultsCount DEF Crash, DocsInv, WorldInv, HistoryInv, docVars, netVars, counters, history
<1>18. ASSUME NEW q \in Requests, NEW p \in Posts, CreateUnanswered(q, p) PROVE TypeInv'
  <2>0. q \in Workers /\ now + Lease \in Times /\ now \in Nat
    BY <1>0, <1>00 DEF WorldInv
  <2>1. PICK image \in Media :
          /\ media' = [media EXCEPT ![p] = image]
          /\ stored' = stored \cup {image}
          /\ unsure' = unsure \cup {image}
          /\ Goto(q, "destroyOld")
          /\ SetJob(q, [NewJob(p) EXCEPT !.old = image])
    BY <1>18, NewImagesAreImages DEF CreateUnanswered, Images
  <2>2. [NewJob(p) EXCEPT !.old = image] \in Jobs
    BY DEF NewJob, Jobs, Times, Images
  <2>3. WorkersInv'
    BY <2>0, <2>1, <2>2, Moves DEF Holds, Points
  <2>4. status' \in [Posts -> Statuses]
    BY <1>18 DEF CreateUnanswered, ClaimRow, SetStatus, DocsInv, Statuses
  <2>5. due' \in [Posts -> Times] /\ lease' \in [Posts -> Times]
    BY <1>18, <2>0 DEF CreateUnanswered, ClaimRow, NoClaim, DocsInv, Times
  <2>6. media' \in [Posts -> Images] /\ stored' \subseteq Media
    BY <2>1 DEF DocsInv, Images
  <2>7. WorldInv'
    BY <1>18, FaultsCount DEF CreateUnanswered, netVars, WorldInv
  <2>8. HistoryInv'
    BY <1>18, <2>0, <2>1 DEF CreateUnanswered, ClaimRow, NoClaim, HistoryInv
  <2>. QED BY <1>18, <2>3, <2>4, <2>5, <2>6, <2>7, <2>8 DEF CreateUnanswered, DocsInv
<1>19. ASSUME NEW q \in Requests, UpdateUnanswered(q) PROVE TypeInv'
  <2>1. /\ q \in Workers /\ job[q] \in Jobs /\ job[q].mode \in {"keep", "draft", "scheduled"}
        /\ job[q].post \in Posts /\ job[q].due \in Times /\ job[q].new \in Media
    BY <1>19, <1>0 DEF UpdateUnanswered, WorkersInv, Holds, Jobs, Images
  <2>2. [job[q] EXCEPT !.old = job[q].new] \in Jobs
    BY <2>1 DEF Jobs, Images
  <2>3. WorkersInv'
    BY <1>19, <2>1, <2>2, Moves DEF UpdateUnanswered, Holds, Points
  <2>4. status' \in [Posts -> Statuses]
    BY <1>19, <2>1 DEF UpdateUnanswered, ApplyUpdate, SetStatus, DocsInv, Statuses
  <2>5. due' \in [Posts -> Times] /\ media' \in [Posts -> Images]
    BY <1>19, <2>1 DEF UpdateUnanswered, ApplyUpdate, DocsInv, Images
  <2>6. WorldInv' /\ HistoryInv'
    BY <1>19, <2>1, FaultsCount DEF UpdateUnanswered, netVars, WorldInv, HistoryInv, counters
  <2>. QED BY <1>19, <2>3, <2>4, <2>5, <2>6 DEF UpdateUnanswered, DocsInv
<1>15. CASE Land
  BY <1>15 DEF Land, WorkersInv, Holds, DocsInv, WorldInv, HistoryInv, docVars, clockVars, counters, history
<1>16. CASE Tick
  <2>1. now' \in 0..MaxNow
    BY <1>16 DEF Tick, WorldInv
  <2>. QED BY <1>16, <2>1 DEF Tick, WorkersInv, Holds, DocsInv, WorldInv, HistoryInv, docVars, netVars, counters, history
<1>17. CASE UNCHANGED vars
  BY <1>17 DEF vars, WorkersInv, Holds, DocsInv, WorldInv, HistoryInv, docVars, netVars, clockVars, counters, history
<1>. QED BY <1>1, <1>2, <1>3, <1>4, <1>5, <1>6, <1>7, <1>8, <1>9, <1>10, <1>11, <1>12, <1>13, <1>14,
  <1>15, <1>16, <1>17, <1>18, <1>19 DEF Next, Request, RunOnce, Publish

\* Every variable of FacebookPosts stays in its type, whatever the requests, the
\* schedulers, Facebook and the faults do.
THEOREM TypeCorrect == Spec => []TypeOK
<1>1. Spec => []TypeInv
  BY TypeInit, TypeStep, PTL DEF Spec
<1>. QED BY <1>1, TypeInvImplies, PTL
-----------------------------------------------------------------------------
(* A post recorded as published is on the page: the worker that will record *)
(* it has seen its own attempt land.                                        *)
TruthInv ==
  /\ PublishedIsTrue
  /\ \A w \in Workers : pc[w] = "save" => Publication(w) \in landed

\* Where a worker goes and that the others stay.
Turn(w, points) ==
  /\ pc'[w] \in points
  /\ \A v \in Workers \ {w} : pc'[v] = pc[v] /\ job'[v] = job[v]

LEMMA Turns ==
  ASSUME WorkersInv, NEW w \in Workers, NEW point \in Points, NEW points, point \in points,
         Goto(w, point), UNCHANGED job \/ \E j : SetJob(w, j)
  PROVE  Turn(w, points)
  BY DEF WorkersInv, Goto, SetJob, Turn

LEMMA FinishTurns == ASSUME WorkersInv, NEW w \in Workers, Finish(w)
                     PROVE  /\ Turn(w, {"idle", "end"})
                            /\ w \in Requests => Turn(w, {"end"})
                            /\ w \in Schedulers => Turn(w, {"idle"})
<1>1. Rest(w) \in Points /\ Rest(w) \in {"idle", "end"}
  BY DEF Rest, Points
<1>2. (w \in Requests => Rest(w) = "end") /\ (w \in Schedulers => Rest(w) = "idle")
  BY DEF Rest
<1>. QED BY <1>1, <1>2, Turns DEF Finish

LEMMA ClaimTurns == ASSUME WorkersInv, NEW w \in Workers, NEW p, NEW l, Claim(w, p, l)
                    PROVE  Turn(w, {"publish"})
  BY Turns DEF Claim, ClaimRow, Points

\* The turn each action takes.
LEMMA ActionTurns ==
  ASSUME WorkersInv
  PROVE  /\ \A q \in Requests, p \in Posts :
              /\ CreatePost(q, p) => Turn(q, {"end", "publish"})
              /\ CreateUnanswered(q, p) => Turn(q, {"destroyOld"})
              /\ UpdateRead(q, p) => Turn(q, {"update"})
              /\ CancelPost(q, p) => Turn(q, {"end", "destroyOld"})
              /\ RetryRead(q, p) => Turn(q, {"retry"})
         /\ \A q \in Requests :
              /\ UpdateSave(q) => Turn(q, {"end", "destroyOld"})
              /\ UpdateUnanswered(q) => Turn(q, {"destroyOld"})
              /\ DestroyOld(q) => Turn(q, {"end"})
              /\ RetrySave(q) => Turn(q, {"end", "publish"})
         /\ \A s \in Schedulers :
              /\ StartPass(s) => Turn(s, {"recover"})
              /\ Recover(s) => Turn(s, {"idle", "claim"})
              /\ ClaimDue(s) => Turn(s, {"idle", "publish"})
         /\ \A w \in Workers :
              /\ BeginPublish(w) => Turn(w, {"sent", "fail"})
              /\ PublishSettles(w) => Turn(w, {"save", "fail"})
              /\ PersistTerminal(w) => Turn(w, {"idle", "end", "fail"})
              /\ Crash(w) => Turn(w, {"idle", "end"})
<1>. USE Turns, FinishTurns, ClaimTurns DEF Points, Workers, Turn
<1>1. ASSUME NEW q \in Requests, NEW p \in Posts
      PROVE  /\ CreatePost(q, p) => Turn(q, {"end", "publish"})
             /\ CreateUnanswered(q, p) => Turn(q, {"destroyOld"})
             /\ UpdateRead(q, p) => Turn(q, {"update"})
             /\ CancelPost(q, p) => Turn(q, {"end", "destroyOld"})
             /\ RetryRead(q, p) => Turn(q, {"retry"})
  <2>1. CreatePost(q, p) => Turn(q, {"end", "publish"})
    BY DEF CreatePost
  <2>2. UpdateRead(q, p) => Turn(q, {"update"})
    BY DEF UpdateRead
  <2>3. CancelPost(q, p) => Turn(q, {"end", "destroyOld"})
    BY DEF CancelPost
  <2>4. RetryRead(q, p) => Turn(q, {"retry"})
    BY DEF RetryRead
  <2>5. CreateUnanswered(q, p) => Turn(q, {"destroyOld"})
    BY DEF CreateUnanswered
  <2>. QED BY <2>1, <2>2, <2>3, <2>4, <2>5
<1>2. ASSUME NEW q \in Requests
      PROVE  /\ UpdateSave(q) => Turn(q, {"end", "destroyOld"})
             /\ UpdateUnanswered(q) => Turn(q, {"destroyOld"})
             /\ DestroyOld(q) => Turn(q, {"end"})
             /\ RetrySave(q) => Turn(q, {"end", "publish"})
  <2>1. UpdateSave(q) => Turn(q, {"end", "destroyOld"})
    BY DEF UpdateSave, ApplyUpdate
  <2>2. DestroyOld(q) => Turn(q, {"end"})
    BY DEF DestroyOld
  <2>3. RetrySave(q) => Turn(q, {"end", "publish"})
    BY DEF RetrySave
  <2>4. UpdateUnanswered(q) => Turn(q, {"destroyOld"})
    BY DEF UpdateUnanswered
  <2>. QED BY <2>1, <2>2, <2>3, <2>4
<1>3. ASSUME NEW s \in Schedulers
      PROVE  /\ StartPass(s) => Turn(s, {"recover"})
             /\ Recover(s) => Turn(s, {"idle", "claim"})
             /\ ClaimDue(s) => Turn(s, {"idle", "publish"})
  <2>1. StartPass(s) => Turn(s, {"recover"})
    BY DEF StartPass
  <2>2. Recover(s) => Turn(s, {"idle", "claim"})
    BY DEF Recover
  <2>3. ClaimDue(s) => Turn(s, {"idle", "publish"})
    <3>1. ClaimDue(s) => Finish(s) \/ \E p \in Posts : Claim(s, p, job[s].time + Lease)
      BY DEF ClaimDue
    <3>. QED BY <3>1
  <2>. QED BY <2>1, <2>2, <2>3
<1>4. ASSUME NEW w \in Workers
      PROVE  /\ BeginPublish(w) => Turn(w, {"sent", "fail"})
             /\ PublishSettles(w) => Turn(w, {"save", "fail"})
             /\ PersistTerminal(w) => Turn(w, {"idle", "end", "fail"})
             /\ Crash(w) => Turn(w, {"idle", "end"})
  <2>1. BeginPublish(w) => Turn(w, {"sent", "fail"})
    BY DEF BeginPublish
  <2>2. PublishSettles(w) => Turn(w, {"save", "fail"})
    BY DEF PublishSettles
  <2>3. PersistTerminal(w) => Turn(w, {"idle", "end", "fail"})
    BY DEF PersistTerminal
  <2>4. Crash(w) => Turn(w, {"idle", "end"})
    BY DEF Crash
  <2>. QED BY <2>1, <2>2, <2>3, <2>4
<1>. QED BY <1>1, <1>2, <1>3, <1>4

\* What a step that records no result leaves of the truth.
LEMMA TruthKept ==
  ASSUME TruthInv, NEW w \in Workers, NEW points, "save" \notin points, Turn(w, points),
         landed \subseteq landed',
         \A p \in Posts : status'[p] = "published" =>
            \/ status[p] = "published" /\ publishedId'[p] = publishedId[p]
            \/ <<p, publishedId'[p]>> \in landed
  PROVE  TruthInv'
<1>1. PublishedIsTrue'
  BY DEF TruthInv, PublishedIsTrue
<1>2. \A v \in Workers : pc'[v] = "save" => Publication(v)' \in landed'
  BY DEF TruthInv, Turn, Publication
<1>. QED BY <1>1, <1>2 DEF TruthInv

LEMMA TruthStep == TypeInv /\ TruthInv /\ [Next]_vars => TruthInv'
<1>. SUFFICES ASSUME TypeInv, TruthInv, [Next]_vars PROVE TruthInv'
  OBVIOUS
<1>0. WorkersInv /\ DocsInv /\ Requests \subseteq Workers /\ Schedulers \subseteq Workers
  BY DEF TypeInv, Workers
<1>. DEFINE Unpublished ==
       \A p \in Posts : status'[p] = "published" =>
          status[p] = "published" /\ publishedId'[p] = publishedId[p]
<1>00. Unpublished /\ landed \subseteq landed' =>
         \A w \in Workers : \A points : "save" \notin points /\ Turn(w, points) => TruthInv'
  BY TruthKept
<1>. USE DEF DocsInv
<1>1. ASSUME NEW q \in Requests, NEW p \in Posts, CreatePost(q, p) PROVE TruthInv'
  <2>1. Unpublished
    BY <1>1, <1>0 DEF CreatePost, SetStatus, Claim, ClaimRow
  <2>. QED BY <1>1, <2>1, <1>0, <1>00, ActionTurns DEF CreatePost, netVars
<1>2. ASSUME NEW q \in Requests, NEW p \in Posts, UpdateRead(q, p) PROVE TruthInv'
  BY <1>2, <1>0, <1>00, ActionTurns DEF UpdateRead, docVars, netVars
<1>3. ASSUME NEW q \in Requests, UpdateSave(q) PROVE TruthInv'
  <2>1. job[q].mode # "published"
    BY <1>3, <1>0 DEF UpdateSave, ApplyUpdate, WorkersInv, Holds, Jobs
  <2>2. Unpublished
    BY <1>3, <2>1, <1>0 DEF UpdateSave, ApplyUpdate, SetStatus
  <2>. QED BY <1>3, <2>2, <1>0, <1>00, ActionTurns DEF UpdateSave, ApplyUpdate, netVars
<1>4. ASSUME NEW q \in Requests, DestroyOld(q) PROVE TruthInv'
  BY <1>4, <1>0, <1>00, ActionTurns DEF DestroyOld, docVars, netVars
<1>5. ASSUME NEW q \in Requests, NEW p \in Posts, CancelPost(q, p) PROVE TruthInv'
  BY <1>5, <1>0, <1>00, ActionTurns DEF CancelPost, SetStatus, netVars
<1>6. ASSUME NEW q \in Requests, NEW p \in Posts, RetryRead(q, p) PROVE TruthInv'
  BY <1>6, <1>0, <1>00, ActionTurns DEF RetryRead, docVars, netVars
<1>7. ASSUME NEW q \in Requests, RetrySave(q) PROVE TruthInv'
  <2>1. Unpublished
    BY <1>7, <1>0 DEF RetrySave, SetStatus, Claim, ClaimRow
  <2>. QED BY <1>7, <2>1, <1>0, <1>00, ActionTurns DEF RetrySave, netVars
<1>8. ASSUME NEW s \in Schedulers, StartPass(s) PROVE TruthInv'
  BY <1>8, <1>0, <1>00, ActionTurns DEF StartPass, docVars, netVars
<1>9. ASSUME NEW s \in Schedulers, Recover(s) PROVE TruthInv'
  <2>1. Unpublished
    BY <1>9, <1>0 DEF Recover, RecoveredStatus, SetStatus
  <2>. QED BY <1>9, <2>1, <1>0, <1>00, ActionTurns DEF Recover, netVars
<1>10. ASSUME NEW s \in Schedulers, ClaimDue(s) PROVE TruthInv'
  <2>1. Unpublished
    BY <1>10, <1>0 DEF ClaimDue, SetStatus, Claim, ClaimRow
  <2>. QED BY <1>10, <2>1, <1>0, <1>00, ActionTurns DEF ClaimDue, netVars
<1>11. ASSUME NEW w \in Workers, BeginPublish(w) PROVE TruthInv'
  BY <1>11, <1>0, <1>00, ActionTurns DEF BeginPublish, docVars
<1>12. ASSUME NEW w \in Workers, PublishSettles(w) PROVE TruthInv'
  <2>1. PublishedIsTrue'
    BY <1>12 DEF PublishSettles, TruthInv, PublishedIsTrue, docVars, netVars
  <2>2. \A v \in Workers : pc'[v] = "save" => Publication(v)' \in landed'
    BY <1>12, <1>0 DEF PublishSettles, Goto, WorkersInv, Answered, Publication, TruthInv, netVars
  <2>. QED BY <2>1, <2>2 DEF TruthInv
<1>13. ASSUME NEW w \in Workers, PersistTerminal(w) PROVE TruthInv'
  <2>1. job[w].post \in Posts
    BY <1>13, <1>0 DEF PersistTerminal, WorkersInv, Holds, Jobs
  <2>. DEFINE Kept(p) == \/ status[p] = "published" /\ publishedId'[p] = publishedId[p]
                         \/ <<p, publishedId'[p]>> \in landed
  <2>2. ASSUME NEW p \in Posts, status'[p] = "published" PROVE Kept(p)
    <3>1. CASE UNCHANGED <<status, publishedId>>
      BY <2>2, <3>1
    <3>2. CASE MayPersist(w) /\ SetStatus(job[w].post, "failed") /\ UNCHANGED publishedId
      BY <2>2, <3>2, <1>0, <2>1 DEF SetStatus
    <3>3. CASE /\ MayPersist(w) /\ pc[w] = "save" /\ SetStatus(job[w].post, "published")
               /\ publishedId' = [publishedId EXCEPT ![job[w].post] = job[w].attempt]
      <4>1. CASE p = job[w].post
        BY <3>3, <4>1, <1>0, <2>1 DEF TruthInv, Publication
      <4>2. CASE p # job[w].post
        BY <2>2, <3>3, <4>2, <2>1 DEF SetStatus
      <4>. QED BY <4>1, <4>2
    <3>. QED BY <1>13, <3>1, <3>2, <3>3 DEF PersistTerminal
  <2>. QED BY <1>13, <2>2, ActionTurns, TruthKept, <1>0 DEF PersistTerminal, netVars
<1>14. ASSUME NEW w \in Workers, Crash(w) PROVE TruthInv'
  BY <1>14, <1>0, <1>00, ActionTurns DEF Crash, docVars, netVars
<1>18. ASSUME NEW q \in Requests, NEW p \in Posts, CreateUnanswered(q, p) PROVE TruthInv'
  <2>1. Unpublished
    BY <1>18, <1>0 DEF CreateUnanswered, SetStatus, ClaimRow
  <2>. QED BY <1>18, <2>1, <1>0, <1>00, ActionTurns DEF CreateUnanswered, netVars
<1>19. ASSUME NEW q \in Requests, UpdateUnanswered(q) PROVE TruthInv'
  <2>1. job[q].mode # "published"
    BY <1>19, <1>0 DEF UpdateUnanswered, WorkersInv, Holds, Jobs
  <2>2. Unpublished
    BY <1>19, <2>1, <1>0 DEF UpdateUnanswered, ApplyUpdate, SetStatus
  <2>. QED BY <1>19, <2>2, <1>0, <1>00, ActionTurns DEF UpdateUnanswered, netVars
<1>15. CASE Land
  BY <1>15 DEF Land, TruthInv, PublishedIsTrue, Publication, docVars
<1>16. CASE Tick
  BY <1>16 DEF Tick, TruthInv, PublishedIsTrue, Publication, docVars, netVars
<1>17. CASE UNCHANGED vars
  BY <1>17 DEF vars, TruthInv, PublishedIsTrue, Publication, docVars, netVars
<1>. QED BY <1>1, <1>2, <1>3, <1>4, <1>5, <1>6, <1>7, <1>8, <1>9, <1>10, <1>11, <1>12, <1>13, <1>14,
  <1>15, <1>16, <1>17, <1>18, <1>19 DEF Next, Request, RunOnce, Publish

\* A post recorded as published is on the page under the recorded id, for any
\* number of workers: no answer is taken for a success and none is recorded for
\* another attempt.
THEOREM PublishedIsOnThePage == Spec => []PublishedIsTrue
<1>1. Init => TruthInv
  BY DEF Init, TruthInv, PublishedIsTrue
<1>2. Spec => [](TypeInv /\ TruthInv)
  BY <1>1, TypeInit, TypeStep, TruthStep, PTL DEF Spec
<1>. QED BY <1>2, PTL DEF TruthInv
-----------------------------------------------------------------------------
(* A publish call needs a claim of its own, and a claim a post that was      *)
(* never claimed or a retry.                                                 *)
Pending(p) == {w \in Workers : pc[w] = "publish" /\ job[w].post = p}

Unclaimed == {"absent", "draft", "scheduled"}
CallsNeedClaims(p) ==
  IsFiniteSet(Pending(p)) /\ begun[p] + Cardinality(Pending(p)) <= claims[p]
ClaimsNeedRetries(p) ==
  claims[p] <= IF status[p] \in Unclaimed THEN retries[p] ELSE retries[p] + 1

CountInv == \A p \in Posts : CallsNeedClaims(p) /\ ClaimsNeedRetries(p)

LEMMA CountImplies == TypeInv /\ CountInv => PublishNeedsConfirmation
<1>. SUFFICES ASSUME TypeInv, CountInv, NEW p \in Posts PROVE begun[p] <= 1 + retries[p]
  BY DEF PublishNeedsConfirmation
<1>1. Cardinality(Pending(p)) \in Nat
  BY FS_CardinalityType DEF CountInv, CallsNeedClaims
<1>. QED BY <1>1 DEF TypeInv, HistoryInv, CountInv, CallsNeedClaims, ClaimsNeedRetries

\* Nobody comes to the point before a call without a claim.
LEMMA CallsQuiet ==
  ASSUME TypeInv, CountInv, NEW w \in Workers, NEW points, "publish" \notin points, Turn(w, points),
         UNCHANGED <<claims, begun>>, NEW p \in Posts
  PROVE  CallsNeedClaims(p)'
<1>1. Pending(p)' \in SUBSET Pending(p)
  BY DEF Pending, Turn
<1>2. IsFiniteSet(Pending(p)') /\ Cardinality(Pending(p)') <= Cardinality(Pending(p))
  BY <1>1, FS_Subset DEF CountInv, CallsNeedClaims
<1>3. Cardinality(Pending(p)') \in Nat /\ Cardinality(Pending(p)) \in Nat
  BY <1>2, FS_CardinalityType DEF CountInv, CallsNeedClaims
<1>. QED BY <1>2, <1>3 DEF CountInv, CallsNeedClaims, TypeInv, HistoryInv

\* A claim of which nobody learns is one more claim and no call.
LEMMA CallsUnanswered ==
  ASSUME TypeInv, CountInv, NEW q \in Requests, NEW c \in Posts, CreateUnanswered(q, c),
         NEW p \in Posts
  PROVE  CallsNeedClaims(p)'
<1>0. Turn(q, {"destroyOld"}) /\ q \in Workers
  BY ActionTurns DEF TypeInv, Workers
<1>1. claims[p] \in Nat /\ claims'[p] \in Nat /\ claims[p] <= claims'[p] /\ begun'[p] = begun[p] /\ begun[p] \in Nat
  BY DEF CreateUnanswered, ClaimRow, NoClaim, TypeInv, HistoryInv
<1>2. Pending(p)' \in SUBSET Pending(p)
  BY <1>0 DEF Pending, Turn
<1>3. IsFiniteSet(Pending(p)') /\ Cardinality(Pending(p)') <= Cardinality(Pending(p))
  BY <1>2, FS_Subset DEF CountInv, CallsNeedClaims
<1>4. Cardinality(Pending(p)') \in Nat /\ Cardinality(Pending(p)) \in Nat
  BY <1>3, FS_CardinalityType DEF CountInv, CallsNeedClaims
<1>. QED BY <1>1, <1>3, <1>4 DEF CountInv, CallsNeedClaims

LEMMA CallsOfClaim ==
  ASSUME TypeInv, CountInv, NEW w \in Workers, NEW c \in Posts, NEW l, Claim(w, c, l),
         UNCHANGED begun, NEW p \in Posts
  PROVE  CallsNeedClaims(p)'
<1>0. Turn(w, {"publish"}) /\ job'[w].post = c
  BY ClaimTurns DEF Claim, ClaimRow, SetJob, NewJob, TypeInv, WorkersInv
<1>1. /\ IsFiniteSet(Pending(p) \cup {w})
      /\ Cardinality(Pending(p) \cup {w}) <= Cardinality(Pending(p)) + 1
      /\ Cardinality(Pending(p)) \in Nat
  <2>. DEFINE S == Pending(p)
  <2>1. IsFiniteSet(S) /\ Cardinality(S) \in Nat
    BY FS_CardinalityType DEF CountInv, CallsNeedClaims
  <2>. HIDE DEF S
  <2>2. IsFiniteSet(S \cup {w}) /\ Cardinality(S \cup {w}) = IF w \in S THEN Cardinality(S) ELSE Cardinality(S) + 1
    BY <2>1, FS_AddElement
  <2>3. Cardinality(S \cup {w}) <= Cardinality(S) + 1
    BY <2>1, <2>2
  <2>. QED BY <2>1, <2>2, <2>3 DEF S
<1>2. CASE p = c
  <2>1. Pending(p)' \in SUBSET (Pending(p) \cup {w})
    BY <1>0 DEF Pending, Turn
  <2>2. IsFiniteSet(Pending(p)') /\ Cardinality(Pending(p)') <= Cardinality(Pending(p) \cup {w})
    BY <1>1, <2>1, FS_Subset
  <2>3. Cardinality(Pending(p)') \in Nat /\ Cardinality(Pending(p) \cup {w}) \in Nat
    BY <1>1, <2>2, FS_CardinalityType
  <2>4. claims'[p] = claims[p] + 1
    BY <1>2 DEF Claim, ClaimRow, TypeInv, HistoryInv
  <2>. QED BY <1>1, <2>2, <2>3, <2>4 DEF CountInv, CallsNeedClaims, TypeInv, HistoryInv
<1>3. CASE p # c
  <2>1. Pending(p)' \in SUBSET Pending(p)
    BY <1>0, <1>3 DEF Pending, Turn
  <2>2. IsFiniteSet(Pending(p)') /\ Cardinality(Pending(p)') <= Cardinality(Pending(p))
    BY <2>1, FS_Subset DEF CountInv, CallsNeedClaims
  <2>3. Cardinality(Pending(p)') \in Nat
    BY <2>2, FS_CardinalityType
  <2>4. claims'[p] = claims[p]
    BY <1>3 DEF Claim, ClaimRow, TypeInv, HistoryInv
  <2>. QED BY <1>1, <2>2, <2>3, <2>4 DEF CountInv, CallsNeedClaims, TypeInv, HistoryInv
<1>. QED BY <1>2, <1>3

LEMMA CallsOfBegin ==
  ASSUME TypeInv, CountInv, NEW w \in Workers, BeginPublish(w), NEW p \in Posts
  PROVE  CallsNeedClaims(p)'
<1>0. Turn(w, {"sent", "fail"})
  BY ActionTurns DEF TypeInv
<1>1. CASE UNCHANGED begun
  BY <1>0, <1>1, CallsQuiet DEF BeginPublish
<1>2. CASE begun' = [begun EXCEPT ![job[w].post] = @ + 1] /\ p # job[w].post
  <2>1. Pending(p)' \in SUBSET Pending(p)
    BY <1>0 DEF Pending, Turn
  <2>2. IsFiniteSet(Pending(p)') /\ Cardinality(Pending(p)') <= Cardinality(Pending(p))
    BY <2>1, FS_Subset DEF CountInv, CallsNeedClaims
  <2>3. Cardinality(Pending(p)') \in Nat /\ Cardinality(Pending(p)) \in Nat
    BY <2>2, FS_CardinalityType DEF CountInv, CallsNeedClaims
  <2>4. begun'[p] = begun[p] /\ claims' = claims
    BY <1>2 DEF BeginPublish, TypeInv, HistoryInv
  <2>. QED BY <2>2, <2>3, <2>4 DEF CountInv, CallsNeedClaims, TypeInv, HistoryInv
<1>3. CASE begun' = [begun EXCEPT ![job[w].post] = @ + 1] /\ p = job[w].post
  <2>1. w \in Pending(p) /\ Pending(p)' \in SUBSET (Pending(p) \ {w})
    BY <1>0, <1>3 DEF Pending, Turn, BeginPublish
  <2>2. /\ IsFiniteSet(Pending(p) \ {w})
        /\ Cardinality(Pending(p) \ {w}) = Cardinality(Pending(p)) - 1
        /\ Cardinality(Pending(p)) \in Nat
    BY <2>1, FS_RemoveElement, FS_CardinalityType DEF CountInv, CallsNeedClaims
  <2>3. IsFiniteSet(Pending(p)') /\ Cardinality(Pending(p)') <= Cardinality(Pending(p) \ {w})
    BY <2>1, <2>2, FS_Subset
  <2>4. Cardinality(Pending(p)') \in Nat
    BY <2>3, FS_CardinalityType
  <2>5. begun'[p] = begun[p] + 1 /\ claims' = claims
    BY <1>3 DEF BeginPublish, TypeInv, HistoryInv
  <2>. QED BY <2>2, <2>3, <2>4, <2>5 DEF CountInv, CallsNeedClaims, TypeInv, HistoryInv
<1>. QED BY <1>1, <1>2, <1>3 DEF BeginPublish

\* No step claims more than the retries allow.
LEMMA ClaimsStep == TypeInv /\ CountInv /\ [Next]_vars => \A p \in Posts : ClaimsNeedRetries(p)'
<1>. SUFFICES ASSUME TypeInv, CountInv, [Next]_vars, NEW c \in Posts PROVE ClaimsNeedRetries(c)'
  OBVIOUS
<1>0. /\ status \in [Posts -> Statuses]
      /\ claims \in [Posts -> Nat] /\ retries \in [Posts -> Nat]
      /\ ClaimsNeedRetries(c)
  BY DEF TypeInv, DocsInv, HistoryInv, CountInv
<1>. USE <1>0 DEF ClaimsNeedRetries, Unclaimed
<1>1. ASSUME NEW q \in Requests, NEW p \in Posts, CreatePost(q, p) PROVE ClaimsNeedRetries(c)'
  BY <1>1 DEF CreatePost, SetStatus, Claim, ClaimRow, NoClaim
<1>2. ASSUME NEW q \in Requests, NEW p \in Posts, UpdateRead(q, p) PROVE ClaimsNeedRetries(c)'
  BY <1>2 DEF UpdateRead, docVars, counters, history
<1>3. ASSUME NEW q \in Requests, UpdateSave(q) PROVE ClaimsNeedRetries(c)'
  <2>1. job[q].mode \in {"keep", "draft", "scheduled"}
    BY <1>3 DEF UpdateSave, ApplyUpdate, TypeInv, WorkersInv, Holds, Jobs, Workers
  <2>2. UNCHANGED <<claims, retries>>
    BY <1>3 DEF UpdateSave, ApplyUpdate, counters, history
  <2>3. CASE UNCHANGED status
    BY <2>2, <2>3
  <2>4. CASE Editable(job[q].post) /\ job[q].mode # "keep" /\ SetStatus(job[q].post, job[q].mode)
    BY <2>1, <2>2, <2>4 DEF SetStatus, Editable
  <2>. QED BY <1>3, <2>3, <2>4 DEF UpdateSave, ApplyUpdate
<1>4. ASSUME NEW q \in Requests, DestroyOld(q) PROVE ClaimsNeedRetries(c)'
  BY <1>4 DEF DestroyOld, docVars, counters, history
<1>5. ASSUME NEW q \in Requests, NEW p \in Posts, CancelPost(q, p) PROVE ClaimsNeedRetries(c)'
  BY <1>5 DEF CancelPost, SetStatus, counters, history
<1>6. ASSUME NEW q \in Requests, NEW p \in Posts, RetryRead(q, p) PROVE ClaimsNeedRetries(c)'
  BY <1>6 DEF RetryRead, docVars, counters, history
<1>7. ASSUME NEW q \in Requests, RetrySave(q) PROVE ClaimsNeedRetries(c)'
  BY <1>7 DEF RetrySave, Retryable, SetStatus, Claim, ClaimRow, NoClaim
<1>8. ASSUME NEW s \in Schedulers, StartPass(s) PROVE ClaimsNeedRetries(c)'
  BY <1>8 DEF StartPass, docVars, counters, history
<1>9. ASSUME NEW s \in Schedulers, Recover(s) PROVE ClaimsNeedRetries(c)'
  BY <1>9 DEF Recover, RecoveredStatus, Expired, SetStatus, counters, history
<1>10. ASSUME NEW s \in Schedulers, ClaimDue(s) PROVE ClaimsNeedRetries(c)'
  <2>1. UNCHANGED retries
    BY <1>10 DEF ClaimDue
  <2>2. CASE UNCHANGED <<status, claims>>
    BY <2>1, <2>2
  <2>3. ASSUME NEW p \in Posts, Due(s, p), Claim(s, p, job[s].time + Lease)
        PROVE  ClaimsNeedRetries(c)'
    BY <2>1, <2>3 DEF Due, SetStatus, Claim, ClaimRow
  <2>. QED BY <1>10, <2>2, <2>3 DEF ClaimDue, NoClaim
<1>11. ASSUME NEW w \in Workers, BeginPublish(w) PROVE ClaimsNeedRetries(c)'
  BY <1>11 DEF BeginPublish, docVars
<1>12. ASSUME NEW w \in Workers, PublishSettles(w) PROVE ClaimsNeedRetries(c)'
  BY <1>12 DEF PublishSettles, docVars, counters, history
<1>13. ASSUME NEW w \in Workers, PersistTerminal(w) PROVE ClaimsNeedRetries(c)'
  BY <1>13 DEF PersistTerminal, MayPersist, SetStatus, counters, history
<1>14. ASSUME NEW w \in Workers, Crash(w) PROVE ClaimsNeedRetries(c)'
  BY <1>14 DEF Crash, docVars, counters, history
<1>18. ASSUME NEW q \in Requests, NEW p \in Posts, CreateUnanswered(q, p) PROVE ClaimsNeedRetries(c)'
  BY <1>18 DEF CreateUnanswered, SetStatus, ClaimRow, NoClaim
<1>19. ASSUME NEW q \in Requests, UpdateUnanswered(q) PROVE ClaimsNeedRetries(c)'
  <2>1. job[q].mode \in {"keep", "draft", "scheduled"}
    BY <1>19 DEF UpdateUnanswered, TypeInv, WorkersInv, Holds, Jobs, Workers
  <2>2. UNCHANGED <<claims, retries>>
    BY <1>19 DEF UpdateUnanswered, counters
  <2>3. CASE UNCHANGED status
    BY <2>2, <2>3
  <2>4. CASE Editable(job[q].post) /\ job[q].mode # "keep" /\ SetStatus(job[q].post, job[q].mode)
    BY <2>1, <2>2, <2>4 DEF SetStatus, Editable
  <2>. QED BY <1>19, <2>3, <2>4 DEF UpdateUnanswered, ApplyUpdate
<1>15. CASE Land
  BY <1>15 DEF Land, docVars, counters, history
<1>16. CASE Tick
  BY <1>16 DEF Tick, docVars, counters, history
<1>17. CASE UNCHANGED vars
  BY <1>17 DEF vars, docVars, counters, history
<1>. QED BY <1>1, <1>2, <1>3, <1>4, <1>5, <1>6, <1>7, <1>8, <1>9, <1>10, <1>11, <1>12, <1>13, <1>14,
  <1>15, <1>16, <1>17, <1>18, <1>19 DEF Next, Request, RunOnce, Publish

LEMMA CallsStep == TypeInv /\ CountInv /\ [Next]_vars => \A p \in Posts : CallsNeedClaims(p)'
<1>. SUFFICES ASSUME TypeInv, CountInv, [Next]_vars, NEW c \in Posts PROVE CallsNeedClaims(c)'
  OBVIOUS
<1>0. WorkersInv /\ Requests \subseteq Workers /\ Schedulers \subseteq Workers
  BY DEF TypeInv, Workers
<1>01. UNCHANGED <<claims, begun>> =>
         \A w \in Workers : \A points : "publish" \notin points /\ Turn(w, points) => CallsNeedClaims(c)'
  BY CallsQuiet
<1>02. UNCHANGED begun => \A w \in Workers, p \in Posts : \A l : Claim(w, p, l) => CallsNeedClaims(c)'
  BY CallsOfClaim
<1>03. UNCHANGED <<claims, begun>> => \A w \in Workers : Finish(w) => CallsNeedClaims(c)'
  BY <1>0, <1>01, FinishTurns
<1>1. ASSUME NEW q \in Requests, NEW p \in Posts, CreatePost(q, p) PROVE CallsNeedClaims(c)'
  BY <1>1, <1>0, <1>02, <1>03 DEF CreatePost, NoClaim
<1>2. ASSUME NEW q \in Requests, NEW p \in Posts, UpdateRead(q, p) PROVE CallsNeedClaims(c)'
  BY <1>2, <1>0, <1>01, ActionTurns DEF UpdateRead, counters, history
<1>3. ASSUME NEW q \in Requests, UpdateSave(q) PROVE CallsNeedClaims(c)'
  BY <1>3, <1>0, <1>01, ActionTurns DEF UpdateSave, ApplyUpdate, counters, history
<1>4. ASSUME NEW q \in Requests, DestroyOld(q) PROVE CallsNeedClaims(c)'
  BY <1>4, <1>0, <1>01, ActionTurns DEF DestroyOld, counters, history
<1>5. ASSUME NEW q \in Requests, NEW p \in Posts, CancelPost(q, p) PROVE CallsNeedClaims(c)'
  BY <1>5, <1>0, <1>01, ActionTurns DEF CancelPost, counters, history
<1>6. ASSUME NEW q \in Requests, NEW p \in Posts, RetryRead(q, p) PROVE CallsNeedClaims(c)'
  BY <1>6, <1>0, <1>01, ActionTurns DEF RetryRead, counters, history
<1>7. ASSUME NEW q \in Requests, RetrySave(q) PROVE CallsNeedClaims(c)'
  <2>1. job[q].post \in Posts
    BY <1>7, <1>0 DEF RetrySave, WorkersInv, Holds, Jobs
  <2>. QED BY <1>7, <2>1, <1>0, <1>02, <1>03 DEF RetrySave, NoClaim
<1>8. ASSUME NEW s \in Schedulers, StartPass(s) PROVE CallsNeedClaims(c)'
  BY <1>8, <1>0, <1>01, ActionTurns DEF StartPass, counters, history
<1>9. ASSUME NEW s \in Schedulers, Recover(s) PROVE CallsNeedClaims(c)'
  BY <1>9, <1>0, <1>01, ActionTurns DEF Recover, counters, history
<1>10. ASSUME NEW s \in Schedulers, ClaimDue(s) PROVE CallsNeedClaims(c)'
  BY <1>10, <1>0, <1>02, <1>03 DEF ClaimDue, NoClaim
<1>11. ASSUME NEW w \in Workers, BeginPublish(w) PROVE CallsNeedClaims(c)'
  BY <1>11, CallsOfBegin
<1>12. ASSUME NEW w \in Workers, PublishSettles(w) PROVE CallsNeedClaims(c)'
  BY <1>12, <1>0, <1>01, ActionTurns DEF PublishSettles, counters, history
<1>13. ASSUME NEW w \in Workers, PersistTerminal(w) PROVE CallsNeedClaims(c)'
  BY <1>13, <1>0, <1>01, ActionTurns DEF PersistTerminal, counters, history
<1>14. ASSUME NEW w \in Workers, Crash(w) PROVE CallsNeedClaims(c)'
  BY <1>14, <1>0, <1>01, ActionTurns DEF Crash, counters, history
<1>18. ASSUME NEW q \in Requests, NEW p \in Posts, CreateUnanswered(q, p) PROVE CallsNeedClaims(c)'
  BY <1>18, CallsUnanswered
<1>19. ASSUME NEW q \in Requests, UpdateUnanswered(q) PROVE CallsNeedClaims(c)'
  BY <1>19, <1>0, <1>01, ActionTurns DEF UpdateUnanswered, counters
<1>15. CASE Land
  BY <1>15 DEF Land, CountInv, CallsNeedClaims, Pending, counters, history
<1>16. CASE Tick
  BY <1>16 DEF Tick, CountInv, CallsNeedClaims, Pending, counters, history
<1>17. CASE UNCHANGED vars
  BY <1>17 DEF vars, CountInv, CallsNeedClaims, Pending, counters, history
<1>. QED BY <1>1, <1>2, <1>3, <1>4, <1>5, <1>6, <1>7, <1>8, <1>9, <1>10, <1>11, <1>12, <1>13, <1>14,
  <1>15, <1>16, <1>17, <1>18, <1>19 DEF Next, Request, RunOnce, Publish

\* No post is published again unless a person asked for it, however many
\* schedulers run and whatever is lost on the way.
THEOREM PublishedOncePerConfirmation == Spec => []PublishNeedsConfirmation
<1>1. Init => CountInv
  <2>. SUFFICES ASSUME Init, NEW p \in Posts PROVE CallsNeedClaims(p) /\ ClaimsNeedRetries(p)
    BY DEF CountInv
  <2>1. Pending(p) = {}
    BY DEF Init, Pending
  <2>. QED BY <2>1, FS_EmptySet DEF Init, CallsNeedClaims, ClaimsNeedRetries
<1>2. TypeInv /\ CountInv /\ [Next]_vars => CountInv'
  BY ClaimsStep, CallsStep DEF CountInv
<1>3. Spec => [](TypeInv /\ CountInv)
  BY <1>1, <1>2, TypeInit, TypeStep, PTL DEF Spec
<1>. QED BY <1>3, CountImplies, PTL
-----------------------------------------------------------------------------
(* An image that is destroyed is nobody's: images are never shared, an       *)
(* upload is fresh, and an update destroys only what its own post had.       *)
Gone == {"absent", "deleted"}
Holding == {"update", "destroyOld"}

OwnImages ==
  /\ \A p, q \in Posts : p # q => media[p] # media[q] \/ media[p] = NoMedia
  /\ \A p \in Posts : status[p] \in Gone => media[p] = NoMedia

\* The image w has uploaded for its update.
UploadIsFresh(w) ==
  pc[w] = "update" /\ job[w].new # NoMedia =>
    /\ job[w].new \in stored
    /\ \A p \in Posts : media[p] # job[w].new
    /\ \A v \in Workers : pc[v] \in Holding => job[v].old # job[w].new
    /\ \A v \in Workers : v # w /\ pc[v] = "update" => job[v].new # job[w].new

\* The image its post had when w read it.
OldIsOwn(w) ==
  pc[w] = "update" /\ job[w].old # NoMedia =>
    \A p \in Posts : media[p] = job[w].old => p = job[w].post

\* What w is about to destroy, unless it does not know that it is in use.
DoomedIsUnused(w) ==
  pc[w] = "destroyOld" =>
    /\ job[w].old # NoMedia
    /\ job[w].old \in unsure \/ \A p \in Posts : media[p] # job[w].old

MediaInv ==
  /\ MediaIsStored
  /\ OwnImages
  /\ \A w \in Workers : UploadIsFresh(w) /\ OldIsOwn(w) /\ DoomedIsUnused(w)

LEMMA NewIsFresh ==
  ASSUME NEW image \in NewImages, image # NoMedia
  PROVE  /\ image \in Media /\ image \notin stored
         /\ \A p \in Posts : media[p] # image
         /\ \A v \in Workers : pc[v] \in Holding => job[v].old # image
         /\ \A v \in Workers : pc[v] = "update" => job[v].new # image
<1>1. image \in Media /\ image \notin Uploaded
  BY DEF NewImages
<1>. QED BY <1>1 DEF Uploaded, Holding

\* A step that takes no image up and gives none away.
LEMMA MediaKept ==
  ASSUME MediaInv, NEW w \in Workers, NEW points, points \cap Holding = {}, Turn(w, points),
         UNCHANGED media, stored \subseteq stored', unsure \subseteq unsure',
         \A p \in Posts : (status'[p] \in Gone) <=> (status[p] \in Gone)
  PROVE  MediaInv'
<1>0. pc'[w] \notin Holding /\ \A v \in Workers : pc'[v] \in Holding => v # w /\ pc'[v] = pc[v] /\ job'[v] = job[v]
  BY DEF Turn
<1>1. MediaIsStored' /\ OwnImages'
  BY DEF MediaInv, MediaIsStored, OwnImages, Gone
<1>2. ASSUME NEW v \in Workers PROVE UploadIsFresh(v)'
  BY <1>0 DEF MediaInv, UploadIsFresh, Holding
<1>3. ASSUME NEW v \in Workers PROVE OldIsOwn(v)' /\ DoomedIsUnused(v)'
  BY <1>0 DEF MediaInv, OldIsOwn, DoomedIsUnused, Holding
<1>. QED BY <1>1, <1>2, <1>3 DEF MediaInv

LEMMA MediaCreate ==
  ASSUME TypeInv, MediaInv, NEW q \in Requests, NEW p \in Posts, CreatePost(q, p)
  PROVE  MediaInv'
<1>0. q \in Workers /\ Turn(q, {"end", "publish"}) /\ {"end", "publish"} \cap Holding = {}
  BY ActionTurns DEF TypeInv, Workers, Holding
<1>1. status \in [Posts -> Statuses] /\ media \in [Posts -> Images]
  BY DEF TypeInv, DocsInv
<1>4. UNCHANGED unsure
  BY DEF CreatePost
<1>2. CASE UNCHANGED <<status, media>> /\ stored \subseteq stored'
  BY <1>0, <1>2, <1>4, MediaKept
<1>3. ASSUME NEW image \in NewImages,
             media' = [media EXCEPT ![p] = image], stored' = stored \cup ({image} \ {NoMedia}),
             \E s \in {"draft", "scheduled", "publishing"} : SetStatus(p, s)
      PROVE  MediaInv'
  <2>1. /\ \A c \in Posts : c # p => status'[c] = status[c] /\ media'[c] = media[c]
        /\ status'[p] \notin Gone /\ media'[p] = image
    BY <1>1, <1>3 DEF SetStatus, Gone
  <2>2. MediaIsStored'
    BY <2>1, <1>3, <1>4 DEF MediaInv, MediaIsStored
  <2>3. OwnImages'
    BY <2>1, NewIsFresh DEF MediaInv, OwnImages, Gone
  <2>4. \A v \in Workers : pc'[v] \in Holding => v # q /\ pc'[v] = pc[v] /\ job'[v] = job[v]
    BY <1>0 DEF Turn
  <2>5. ASSUME NEW v \in Workers PROVE UploadIsFresh(v)'
    BY <2>1, <2>4, <1>3, NewIsFresh DEF MediaInv, UploadIsFresh, Holding
  <2>6. ASSUME NEW v \in Workers PROVE OldIsOwn(v)' /\ DoomedIsUnused(v)'
    BY <2>1, <2>4, <1>4, NewIsFresh DEF MediaInv, OldIsOwn, DoomedIsUnused, Holding
  <2>. QED BY <2>2, <2>3, <2>5, <2>6 DEF MediaInv
<1>. QED BY <1>2, <1>3 DEF CreatePost, Claim, ClaimRow

\* The image of a post whose request never learned of it will be destroyed.
LEMMA MediaUnanswered ==
  ASSUME TypeInv, MediaInv, NEW q \in Requests, NEW p \in Posts, CreateUnanswered(q, p)
  PROVE  MediaInv'
<1>0. q \in Workers /\ Turn(q, {"destroyOld"})
  BY ActionTurns DEF TypeInv, Workers
<1>1. PICK image \in NewImages \ {NoMedia} :
        /\ media' = [media EXCEPT ![p] = image]
        /\ stored' = stored \cup {image}
        /\ unsure' = unsure \cup {image}
        /\ SetJob(q, [NewJob(p) EXCEPT !.old = image])
  BY DEF CreateUnanswered
<1>2. /\ \A c \in Posts : c # p => status'[c] = status[c] /\ media'[c] = media[c]
      /\ status'[p] \notin Gone /\ media'[p] = image
  BY <1>1 DEF CreateUnanswered, ClaimRow, SetStatus, Gone, TypeInv, DocsInv
<1>3. /\ pc'[q] = "destroyOld" /\ job'[q].old = image
      /\ \A v \in Workers \ {q} : pc'[v] = pc[v] /\ job'[v] = job[v]
  BY <1>0, <1>1 DEF Turn, SetJob, NewJob, TypeInv, WorkersInv
<1>4. MediaIsStored'
  BY <1>1, <1>2 DEF MediaInv, MediaIsStored
<1>5. OwnImages'
  BY <1>2, NewIsFresh DEF MediaInv, OwnImages, Gone
<1>6. ASSUME NEW v \in Workers PROVE UploadIsFresh(v)'
  BY <1>1, <1>2, <1>3, NewIsFresh DEF MediaInv, UploadIsFresh, Holding
<1>7. ASSUME NEW v \in Workers PROVE OldIsOwn(v)' /\ DoomedIsUnused(v)'
  <2>1. CASE v = q
    BY <1>1, <1>3, <2>1 DEF OldIsOwn, DoomedIsUnused
  <2>2. CASE v # q
    BY <1>1, <1>2, <1>3, <2>2, NewIsFresh DEF MediaInv, OldIsOwn, DoomedIsUnused, Holding
  <2>. QED BY <2>1, <2>2
<1>. QED BY <1>4, <1>5, <1>6, <1>7 DEF MediaInv

LEMMA MediaRead ==
  ASSUME TypeInv, MediaInv, NEW q \in Requests, NEW p \in Posts, UpdateRead(q, p)
  PROVE  MediaInv'
<1>0. q \in Workers /\ Turn(q, {"update"})
  BY ActionTurns DEF TypeInv, Workers
<1>1. PICK image \in NewImages :
        /\ stored' = stored \cup ({image} \ {NoMedia})
        /\ job'[q].post = p /\ job'[q].old = media[p] /\ job'[q].new = image
  <2>1. \A j : SetJob(q, j) => job'[q] = j
    BY <1>0 DEF SetJob, TypeInv, WorkersInv
  <2>2. PICK image \in NewImages, mode \in {"keep", "draft", "scheduled"} :
          \E time \in IF mode = "scheduled" THEN (now + 1)..MaxNow ELSE {0} :
            /\ stored' = stored \cup ({image} \ {NoMedia})
            /\ SetJob(q, [NewJob(p) EXCEPT !.mode = mode, !.due = time,
                                           !.old = media[p], !.new = image])
    BY DEF UpdateRead
  <2>3. PICK time :
            /\ stored' = stored \cup ({image} \ {NoMedia})
            /\ job'[q] = [NewJob(p) EXCEPT !.mode = mode, !.due = time,
                                           !.old = media[p], !.new = image]
    BY <2>1, <2>2
  <2>4. job'[q].post = p /\ job'[q].old = media[p] /\ job'[q].new = image
    BY <2>3 DEF NewJob
  <2>. QED BY <2>3, <2>4
<1>2. UNCHANGED <<status, media, unsure>>
  BY DEF UpdateRead, docVars, history
<1>3. MediaIsStored' /\ OwnImages'
  BY <1>1, <1>2 DEF MediaInv, MediaIsStored, OwnImages
<1>4. pc'[q] = "update" /\ \A v \in Workers \ {q} : pc'[v] = pc[v] /\ job'[v] = job[v]
  BY <1>0 DEF Turn
<1>5. UploadIsFresh(q)' /\ OldIsOwn(q)' /\ DoomedIsUnused(q)'
  <2>1. CASE image = NoMedia
    BY <1>1, <1>2, <1>4, <2>1 DEF MediaInv, OwnImages, UploadIsFresh, OldIsOwn, DoomedIsUnused
  <2>2. CASE image # NoMedia
    <3>1. UploadIsFresh(q)'
      BY <1>1, <1>2, <1>4, <2>2, NewIsFresh DEF UploadIsFresh, Holding
    <3>. QED BY <1>1, <1>2, <1>4, <3>1 DEF MediaInv, OwnImages, OldIsOwn, DoomedIsUnused
  <2>. QED BY <2>1, <2>2
<1>6. ASSUME NEW v \in Workers, v # q PROVE UploadIsFresh(v)' /\ OldIsOwn(v)' /\ DoomedIsUnused(v)'
  <2>1. UploadIsFresh(v)'
    BY <1>1, <1>2, <1>4, <1>6, NewIsFresh DEF MediaInv, UploadIsFresh, Holding
  <2>. QED BY <1>2, <1>4, <1>6, <2>1 DEF MediaInv, OldIsOwn, DoomedIsUnused
<1>. QED BY <1>3, <1>5, <1>6 DEF MediaInv

\* The conditional update: w gives up the image its post had or the one it
\* uploaded.
LEMMA MediaSave ==
  ASSUME TypeInv, MediaInv, NEW w \in Requests, UpdateSave(w)
  PROVE  MediaInv'
<1>. DEFINE j == job[w]
            p == job[w].post
<1>0. w \in Workers /\ Turn(w, {"end", "destroyOld"}) /\ pc[w] = "update" /\ p \in Posts
      /\ j.mode \in {"keep", "draft", "scheduled"}
  BY ActionTurns DEF TypeInv, Workers, UpdateSave, ApplyUpdate, WorkersInv, Holds, Jobs
<1>1. status \in [Posts -> Statuses] /\ media \in [Posts -> Images]
  BY DEF TypeInv, DocsInv
<1>2. UploadIsFresh(w) /\ OldIsOwn(w)
  BY <1>0 DEF MediaInv
<1>3. pc'[w] \in {"end", "destroyOld"} /\ \A v \in Workers \ {w} : pc'[v] = pc[v] /\ job'[v] = job[v]
  BY <1>0 DEF Turn
<1>4. /\ stored' = stored /\ unsure' = unsure
      /\ \A c \in Posts : (status'[c] \in Gone) <=> (status[c] \in Gone)
  <2>1. CASE UNCHANGED status
    BY <2>1 DEF UpdateSave, ApplyUpdate, history
  <2>2. CASE Editable(p) /\ SetStatus(p, j.mode) /\ j.mode # "keep"
    BY <2>2, <1>0, <1>1 DEF UpdateSave, ApplyUpdate, SetStatus, Editable, Gone, history
  <2>. QED BY <2>1, <2>2 DEF UpdateSave, ApplyUpdate
<1>5. CASE UNCHANGED media /\ pc'[w] = "end"
  BY <1>0, <1>3, <1>4, <1>5, MediaKept DEF Turn, Holding
<1>6. CASE UNCHANGED media /\ pc'[w] = "destroyOld" /\ j.new # NoMedia /\ job'[w].old = j.new
  <2>1. MediaIsStored' /\ OwnImages'
    BY <1>4, <1>6 DEF MediaInv, MediaIsStored, OwnImages, Gone
  <2>2. ASSUME NEW v \in Workers PROVE UploadIsFresh(v)'
    BY <1>2, <1>3, <1>4, <1>6, <1>0 DEF MediaInv, UploadIsFresh, Holding
  <2>3. ASSUME NEW v \in Workers PROVE OldIsOwn(v)' /\ DoomedIsUnused(v)'
    BY <1>2, <1>3, <1>4, <1>6, <1>0 DEF MediaInv, OldIsOwn, DoomedIsUnused, UploadIsFresh
  <2>. QED BY <2>1, <2>2, <2>3 DEF MediaInv
<1>7. CASE /\ status[p] \notin Gone /\ j.new # NoMedia /\ media' = [media EXCEPT ![p] = j.new]
           /\ \/ pc'[w] = "end"
              \/ pc'[w] = "destroyOld" /\ j.old # NoMedia /\ job'[w].old = j.old
  <2>1. media'[p] = j.new /\ \A c \in Posts : c # p => media'[c] = media[c]
    BY <1>0, <1>1, <1>7
  <2>2. MediaIsStored'
    BY <1>0, <1>2, <1>4, <1>7, <2>1 DEF MediaInv, MediaIsStored, UploadIsFresh, Gone
  <2>3. OwnImages'
    BY <1>0, <1>2, <1>4, <1>7, <2>1 DEF MediaInv, OwnImages, UploadIsFresh
  <2>4. ASSUME NEW v \in Workers PROVE UploadIsFresh(v)'
    BY <1>0, <1>3, <1>4, <1>7, <2>1 DEF MediaInv, UploadIsFresh, Holding
  <2>5. ASSUME NEW v \in Workers PROVE OldIsOwn(v)'
    BY <1>0, <1>2, <1>3, <1>7, <2>1 DEF MediaInv, OldIsOwn, UploadIsFresh, Holding
  <2>6. ASSUME NEW v \in Workers PROVE DoomedIsUnused(v)'
    <3>1. CASE v = w
      BY <1>0, <1>2, <1>7, <2>1, <3>1 DEF OldIsOwn, UploadIsFresh, DoomedIsUnused, Holding
    <3>2. CASE v # w
      BY <1>0, <1>2, <1>3, <1>4, <1>7, <2>1, <3>2 DEF MediaInv, UploadIsFresh, DoomedIsUnused, Holding
    <3>. QED BY <3>1, <3>2
  <2>. QED BY <2>2, <2>3, <2>4, <2>5, <2>6 DEF MediaInv
<1>8. \A saved \in BOOLEAN :
        \/ Superseded(j, saved) = NoMedia /\ Finish(w)
        \/ /\ Superseded(j, saved) # NoMedia /\ Goto(w, "destroyOld")
           /\ SetJob(w, [j EXCEPT !.old = Superseded(j, saved)])
        => \/ pc'[w] = "end" /\ Superseded(j, saved) = NoMedia
           \/ pc'[w] = "destroyOld" /\ Superseded(j, saved) # NoMedia /\ job'[w].old = Superseded(j, saved)
  <2>1. Finish(w) => pc'[w] = "end"
    BY <1>0, FinishTurns DEF Turn, TypeInv
  <2>2. j \in Jobs
    BY <1>0 DEF TypeInv, WorkersInv, Holds
  <2>3. \A i : Goto(w, "destroyOld") /\ SetJob(w, i) => pc'[w] = "destroyOld" /\ job'[w] = i
    BY <1>0 DEF TypeInv, WorkersInv, Goto, SetJob
  <2>4. \A saved \in BOOLEAN : [j EXCEPT !.old = Superseded(j, saved)].old = Superseded(j, saved)
    BY <2>2 DEF Jobs
  <2>. QED BY <2>1, <2>3, <2>4
<1>9. CASE Editable(p) /\ media' = (IF j.new = NoMedia THEN media ELSE [media EXCEPT ![p] = j.new])
           /\ (\/ pc'[w] = "end" /\ Superseded(j, TRUE) = NoMedia
               \/ pc'[w] = "destroyOld" /\ Superseded(j, TRUE) # NoMedia /\ job'[w].old = Superseded(j, TRUE))
  <2>1. status[p] \notin Gone
    BY <1>9 DEF Editable, Gone
  <2>2. CASE j.new = NoMedia
    BY <1>9, <2>2, <1>5 DEF Superseded
  <2>3. CASE j.new # NoMedia
    BY <1>9, <2>1, <2>3, <1>7 DEF Superseded
  <2>. QED BY <2>2, <2>3
<1>10. CASE UNCHANGED media
           /\ (\/ pc'[w] = "end" /\ Superseded(j, FALSE) = NoMedia
               \/ pc'[w] = "destroyOld" /\ Superseded(j, FALSE) # NoMedia /\ job'[w].old = Superseded(j, FALSE))
  BY <1>10, <1>5, <1>6 DEF Superseded
<1>. QED BY <1>8, <1>9, <1>10 DEF UpdateSave, ApplyUpdate

\* The image the post has now will be destroyed.
LEMMA MediaUpdateUnanswered ==
  ASSUME TypeInv, MediaInv, NEW w \in Requests, UpdateUnanswered(w)
  PROVE  MediaInv'
<1>. DEFINE image == job[w].new
            p == job[w].post
<1>0. /\ w \in Workers /\ Turn(w, {"destroyOld"}) /\ pc[w] = "update" /\ p \in Posts /\ job[w] \in Jobs
      /\ job[w].mode \in {"keep", "draft", "scheduled"} /\ image # NoMedia
  BY ActionTurns DEF TypeInv, Workers, UpdateUnanswered, WorkersInv, Holds, Jobs
<1>1. /\ media' = [media EXCEPT ![p] = image] /\ unsure' = unsure \cup {image} /\ stored' = stored
      /\ Editable(p)
      /\ UNCHANGED status \/ (SetStatus(p, job[w].mode) /\ job[w].mode # "keep")
  BY <1>0 DEF UpdateUnanswered, ApplyUpdate
<1>2. /\ \A c \in Posts : c # p => status'[c] = status[c] /\ media'[c] = media[c]
      /\ status'[p] \notin Gone /\ media'[p] = image
  BY <1>0, <1>1 DEF SetStatus, Editable, Gone, TypeInv, DocsInv
<1>3. UploadIsFresh(w)
  BY <1>0 DEF MediaInv
<1>4. pc'[w] = "destroyOld" /\ \A v \in Workers \ {w} : pc'[v] = pc[v] /\ job'[v] = job[v]
  BY <1>0 DEF Turn
<1>5. job'[w].old = image
  <2>1. job'[w] = [job[w] EXCEPT !.old = image]
    BY <1>0 DEF UpdateUnanswered, SetJob, TypeInv, WorkersInv
  <2>. QED BY <1>0, <2>1 DEF Jobs
<1>6. MediaIsStored'
  BY <1>1, <1>2 DEF MediaInv, MediaIsStored, Gone
<1>7. OwnImages'
  BY <1>0, <1>2, <1>3 DEF MediaInv, OwnImages, UploadIsFresh
<1>8. ASSUME NEW v \in Workers PROVE UploadIsFresh(v)'
  BY <1>0, <1>1, <1>2, <1>4, <1>5 DEF MediaInv, UploadIsFresh, Holding
<1>9. ASSUME NEW v \in Workers PROVE OldIsOwn(v)' /\ DoomedIsUnused(v)'
  <2>1. CASE v = w
    BY <1>0, <1>1, <1>4, <1>5, <2>1 DEF OldIsOwn, DoomedIsUnused
  <2>2. CASE v # w
    BY <1>0, <1>1, <1>2, <1>3, <1>4, <2>2 DEF MediaInv, OldIsOwn, UploadIsFresh, DoomedIsUnused, Holding
  <2>. QED BY <2>1, <2>2
<1>. QED BY <1>6, <1>7, <1>8, <1>9 DEF MediaInv

LEMMA MediaDestroy ==
  ASSUME TypeInv, MediaInv, NEW w \in Requests, DestroyOld(w)
  PROVE  MediaInv'
<1>0. w \in Workers /\ Turn(w, {"end"}) /\ pc[w] = "destroyOld"
  BY ActionTurns DEF TypeInv, Workers, DestroyOld
<1>1. \A v \in Workers : pc'[v] \in Holding => v # w /\ pc'[v] = pc[v] /\ job'[v] = job[v]
  BY <1>0 DEF Turn, Holding
<1>2. UNCHANGED <<status, media, unsure>> /\ stored \ {job[w].old} \subseteq stored'
  BY DEF DestroyOld, docVars, history
<1>3. DoomedIsUnused(w)
  BY <1>0 DEF MediaInv
<1>4. MediaIsStored' /\ OwnImages'
  BY <1>0, <1>2, <1>3 DEF MediaInv, MediaIsStored, OwnImages, DoomedIsUnused
<1>5. ASSUME NEW v \in Workers PROVE UploadIsFresh(v)'
  BY <1>0, <1>1, <1>2 DEF MediaInv, UploadIsFresh, Holding
<1>6. ASSUME NEW v \in Workers PROVE OldIsOwn(v)' /\ DoomedIsUnused(v)'
  BY <1>1, <1>2 DEF MediaInv, OldIsOwn, DoomedIsUnused, Holding
<1>. QED BY <1>4, <1>5, <1>6 DEF MediaInv

LEMMA MediaCancel ==
  ASSUME TypeInv, MediaInv, NEW w \in Requests, NEW p \in Posts, CancelPost(w, p)
  PROVE  MediaInv'
<1>0. w \in Workers /\ Turn(w, {"end", "destroyOld"})
  BY ActionTurns DEF TypeInv, Workers
<1>1. /\ status'[p] \in Gone /\ media'[p] = NoMedia /\ stored' = stored /\ unsure' = unsure
      /\ \A c \in Posts : c # p => status'[c] = status[c] /\ media'[c] = media[c]
  BY DEF CancelPost, SetStatus, TypeInv, DocsInv, Gone, history
<1>2. \/ pc'[w] = "end"
      \/ pc'[w] = "destroyOld" /\ media[p] # NoMedia /\ job'[w].old = media[p]
  <2>1. Finish(w) => pc'[w] = "end"
    BY <1>0, FinishTurns DEF Turn, TypeInv
  <2>2. Goto(w, "destroyOld") /\ SetJob(w, [NewJob(p) EXCEPT !.old = media[p]])
          => pc'[w] = "destroyOld" /\ job'[w].old = media[p]
    BY <1>0 DEF TypeInv, WorkersInv, Goto, SetJob, NewJob
  <2>. QED BY <2>1, <2>2 DEF CancelPost
<1>3. pc'[w] # "update" /\ \A v \in Workers \ {w} : pc'[v] = pc[v] /\ job'[v] = job[v]
  BY <1>0 DEF Turn
<1>4. MediaIsStored' /\ OwnImages'
  BY <1>1 DEF MediaInv, MediaIsStored, OwnImages, Gone
<1>5. ASSUME NEW v \in Workers PROVE UploadIsFresh(v)'
  BY <1>1, <1>2, <1>3 DEF MediaInv, UploadIsFresh, Holding
<1>6. ASSUME NEW v \in Workers PROVE OldIsOwn(v)'
  BY <1>1, <1>3 DEF MediaInv, OldIsOwn, UploadIsFresh, Holding
<1>7. ASSUME NEW v \in Workers PROVE DoomedIsUnused(v)'
  <2>1. CASE v = w
    BY <1>1, <1>2, <2>1 DEF MediaInv, OwnImages, DoomedIsUnused
  <2>2. CASE v # w
    BY <1>1, <1>3, <2>2 DEF MediaInv, DoomedIsUnused
  <2>. QED BY <2>1, <2>2
<1>. QED BY <1>4, <1>5, <1>6, <1>7 DEF MediaInv

LEMMA MediaStep == TypeInv /\ MediaInv /\ [Next]_vars => MediaInv'
<1>. SUFFICES ASSUME TypeInv, MediaInv, [Next]_vars PROVE MediaInv'
  OBVIOUS
<1>0. /\ WorkersInv /\ status \in [Posts -> Statuses]
      /\ Requests \subseteq Workers /\ Schedulers \subseteq Workers
  BY DEF TypeInv, DocsInv, Workers
<1>. DEFINE SameGone == \A p \in Posts : (status'[p] \in Gone) <=> (status[p] \in Gone)
<1>01. UNCHANGED <<media, stored, unsure>> /\ SameGone =>
         \A w \in Workers : \A points : points \cap Holding = {} /\ Turn(w, points) => MediaInv'
  BY MediaKept
<1>02. /\ {"retry"} \cap Holding = {} /\ {"end", "publish"} \cap Holding = {}
       /\ {"recover"} \cap Holding = {} /\ {"idle", "claim"} \cap Holding = {}
       /\ {"idle", "publish"} \cap Holding = {} /\ {"sent", "fail"} \cap Holding = {}
       /\ {"save", "fail"} \cap Holding = {} /\ {"idle", "end", "fail"} \cap Holding = {}
       /\ {"idle", "end"} \cap Holding = {}
  BY DEF Holding
<1>1. ASSUME NEW q \in Requests, NEW p \in Posts, CreatePost(q, p) PROVE MediaInv'
  BY <1>1, MediaCreate
<1>2. ASSUME NEW q \in Requests, NEW p \in Posts, UpdateRead(q, p) PROVE MediaInv'
  BY <1>2, MediaRead
<1>3. ASSUME NEW q \in Requests, UpdateSave(q) PROVE MediaInv'
  BY <1>3, MediaSave
<1>4. ASSUME NEW q \in Requests, DestroyOld(q) PROVE MediaInv'
  BY <1>4, MediaDestroy
<1>5. ASSUME NEW q \in Requests, NEW p \in Posts, CancelPost(q, p) PROVE MediaInv'
  BY <1>5, MediaCancel
<1>6. ASSUME NEW q \in Requests, NEW p \in Posts, RetryRead(q, p) PROVE MediaInv'
  BY <1>6, <1>0, <1>01, <1>02, ActionTurns DEF RetryRead, docVars, history
<1>7. ASSUME NEW q \in Requests, RetrySave(q) PROVE MediaInv'
  <2>1. SameGone
    BY <1>7, <1>0 DEF RetrySave, Retryable, Claim, ClaimRow, SetStatus, Gone
  <2>. QED BY <1>7, <2>1, <1>0, <1>01, <1>02, ActionTurns DEF RetrySave, history
<1>8. ASSUME NEW s \in Schedulers, StartPass(s) PROVE MediaInv'
  BY <1>8, <1>0, <1>01, <1>02, ActionTurns DEF StartPass, docVars, history
<1>9. ASSUME NEW s \in Schedulers, Recover(s) PROVE MediaInv'
  <2>1. SameGone
    BY <1>9, <1>0 DEF Recover, RecoveredStatus, Expired, SetStatus, Gone
  <2>. QED BY <1>9, <2>1, <1>0, <1>01, <1>02, ActionTurns DEF Recover, history
<1>10. ASSUME NEW s \in Schedulers, ClaimDue(s) PROVE MediaInv'
  <2>1. SameGone
    <3>1. ASSUME NEW p \in Posts, Due(s, p), Claim(s, p, job[s].time + Lease) PROVE SameGone
      BY <3>1, <1>0 DEF Due, Claim, ClaimRow, SetStatus, Gone
    <3>. QED BY <1>10, <3>1 DEF ClaimDue
  <2>. QED BY <1>10, <2>1, <1>0, <1>01, <1>02, ActionTurns DEF ClaimDue, history
<1>11. ASSUME NEW w \in Workers, BeginPublish(w) PROVE MediaInv'
  BY <1>11, <1>0, <1>01, <1>02, ActionTurns DEF BeginPublish, docVars, history
<1>12. ASSUME NEW w \in Workers, PublishSettles(w) PROVE MediaInv'
  BY <1>12, <1>0, <1>01, <1>02, ActionTurns DEF PublishSettles, docVars, history
<1>13. ASSUME NEW w \in Workers, PersistTerminal(w) PROVE MediaInv'
  <2>1. SameGone
    BY <1>13, <1>0 DEF PersistTerminal, MayPersist, SetStatus, Gone
  <2>. QED BY <1>13, <2>1, <1>0, <1>01, <1>02, ActionTurns DEF PersistTerminal, history
<1>14. ASSUME NEW w \in Workers, Crash(w) PROVE MediaInv'
  BY <1>14, <1>0, <1>01, <1>02, ActionTurns DEF Crash, docVars, history
<1>18. ASSUME NEW q \in Requests, NEW p \in Posts, CreateUnanswered(q, p) PROVE MediaInv'
  BY <1>18, MediaUnanswered
<1>19. ASSUME NEW q \in Requests, UpdateUnanswered(q) PROVE MediaInv'
  BY <1>19, MediaUpdateUnanswered
<1>15. ASSUME UNCHANGED <<docVars, stored, pc, job, unsure>> PROVE MediaInv'
  BY <1>15 DEF MediaInv, MediaIsStored, OwnImages, UploadIsFresh, OldIsOwn, DoomedIsUnused, docVars
<1>. QED BY <1>1, <1>2, <1>3, <1>4, <1>5, <1>6, <1>7, <1>8, <1>9, <1>10, <1>11, <1>12, <1>13, <1>14,
  <1>15, <1>18, <1>19 DEF Next, Request, RunOnce, Publish, Land, Tick, vars, history

\* The image of a post is never destroyed under it, however many updates and
\* cancellations of it overlap and whatever of them fails, except where the
\* answer of the very write that gave the post this image was lost.
THEOREM ImagesSurvive == Spec => []MediaIsStored
<1>1. Init => MediaInv
  BY DEF Init, MediaInv, MediaIsStored, OwnImages, UploadIsFresh, OldIsOwn, DoomedIsUnused, Gone
<1>2. Spec => [](TypeInv /\ MediaInv)
  BY <1>1, TypeInit, TypeStep, MediaStep, PTL DEF Spec
<1>. QED BY <1>2, PTL DEF MediaInv
-----------------------------------------------------------------------------
(* A scheduler's result ends its own attempt.  A post is claimed by its      *)
(* schedule once at most, for a failed post has a schedule in the past and   *)
(* is retried at once; the lease of a retry that follows the end of the      *)
(* scheduler's ends later than that one.                                     *)
Working == {"publish", "sent", "save", "fail"}

\* The schedule of a post that was ever claimed is past, and so is the time of
\* a pass.
ScheduleInv ==
  /\ \A p \in Posts : status[p] = "absent" => due[p] = 0
  /\ \A p \in Posts : status[p] \in {"publishing", "published", "failed"} => due[p] <= now
  /\ \A w \in Workers : pc[w] \in {"recover", "claim"} => job[w].time <= now
  /\ \A w \in Workers : pc[w] = "retry" =>
       job[w].post \in Posts /\ job[w].mode = "now" /\ status[job[w].post] \notin Unclaimed

\* An attempt of a worker on post p with lease l, over or not: no scheduler has
\* claimed the post after a request did, and what has claimed it after a
\* scheduler has a lease that ends later.
Attempted(w, p, l) ==
  /\ status[p] \notin Unclaimed
  /\ w \in Requests => holder[p] \in Requests
  /\ w \in Schedulers =>
       \/ status[p] = "publishing" /\ holder[p] = w /\ lease[p] = l
       \/ l <= now /\ (status[p] = "publishing" => lease[p] > l)

AttemptInv ==
  \A w \in Workers : pc[w] \in Working =>
    /\ job[w].post \in Posts /\ job[w].lease \in Nat
    /\ Attempted(w, job[w].post, job[w].lease)

\* The clock goes on, and the documents of a post stay.
LEMMA AttemptedStays ==
  ASSUME NEW w, NEW p, NEW l \in Nat, Attempted(w, p, l), now \in Nat, now' \in Nat, now <= now',
         status'[p] = status[p], lease'[p] = lease[p], holder'[p] = holder[p]
  PROVE  Attempted(w, p, l)'
BY DEF Attempted

\* A post that nobody has claimed is nobody's attempt.
LEMMA UnclaimedIsNone ==
  ASSUME NEW w, NEW p, NEW l, Attempted(w, p, l), status[p] \in Unclaimed
  PROVE  FALSE
BY DEF Attempted

\* Of a step one looks at the worker that takes it and at the posts.
LEMMA AttemptStep ==
  ASSUME AttemptInv, NEW w \in Workers, NEW points, Turn(w, points),
         \A v \in Workers \ {w} : pc[v] \in Working => Attempted(v, job[v].post, job[v].lease)',
         pc'[w] \in Working =>
           job'[w].post \in Posts /\ job'[w].lease \in Nat /\ Attempted(w, job[w].post, job[w].lease)'
  PROVE  AttemptInv'
BY DEF AttemptInv, Turn

\* When no post that was claimed changes, the other workers' attempts stay.
LEMMA OthersStay ==
  ASSUME AttemptInv, NEW w \in Workers, NEW points, Turn(w, points), now \in Nat, UNCHANGED now,
         \A p \in Posts : status[p] \notin Unclaimed =>
           status'[p] = status[p] /\ lease'[p] = lease[p] /\ holder'[p] = holder[p]
  PROVE  \A v \in Workers \ {w} : pc[v] \in Working => Attempted(v, job[v].post, job[v].lease)'
<1>. TAKE v \in Workers \ {w}
<1>. HAVE pc[v] \in Working
<1>1. /\ job[v].post \in Posts /\ job[v].lease \in Nat
      /\ Attempted(v, job[v].post, job[v].lease) /\ job'[v] = job[v]
  BY DEF AttemptInv, Turn
<1>2. status[job[v].post] \notin Unclaimed
  BY <1>1 DEF Attempted
<1>3. Attempted(v, job[v].post, job[v].lease)' <=>
        /\ status'[job[v].post] \notin Unclaimed
        /\ v \in Requests => holder'[job[v].post] \in Requests
        /\ v \in Schedulers =>
             \/ /\ status'[job[v].post] = "publishing" /\ holder'[job[v].post] = v
                /\ lease'[job[v].post] = job[v].lease
             \/ job[v].lease <= now' /\ (status'[job[v].post] = "publishing" => lease'[job[v].post] > job[v].lease)
  BY <1>1 DEF Attempted
<1>. QED
  BY <1>1, <1>2, <1>3 DEF Attempted

\* The same of the schedules.
LEMMA ScheduleTurns ==
  ASSUME ScheduleInv, NEW w \in Workers, NEW points, Turn(w, points), UNCHANGED now,
         \A p \in Posts : status'[p] = "absent" => status[p] = "absent" /\ due'[p] = due[p],
         \A p \in Posts : status'[p] \in {"publishing", "published", "failed"} => due'[p] <= now,
         \A p \in Posts : status[p] \notin Unclaimed => status'[p] \notin Unclaimed,
         pc'[w] \in {"recover", "claim"} => job'[w].time <= now,
         pc'[w] = "retry" =>
           job'[w].post \in Posts /\ job'[w].mode = "now" /\ status'[job'[w].post] \notin Unclaimed
  PROVE  ScheduleInv'
<1>1. \A v \in Workers : pc'[v] \in {"recover", "claim"} => job'[v].time <= now'
  BY DEF ScheduleInv, Turn
<1>2. \A v \in Workers : pc'[v] = "retry" =>
        job'[v].post \in Posts /\ job'[v].mode = "now" /\ status'[job'[v].post] \notin Unclaimed
  <2>. TAKE v \in Workers
  <2>1. CASE v = w
    BY <2>1
  <2>2. CASE v # w
    BY <2>2 DEF ScheduleInv, Turn
  <2>. QED BY <2>1, <2>2
<1>3. /\ \A p \in Posts : status'[p] = "absent" => due'[p] = 0
      /\ \A p \in Posts : status'[p] \in {"publishing", "published", "failed"} => due'[p] <= now'
  BY DEF ScheduleInv
<1>. QED
  BY <1>1, <1>2, <1>3 DEF ScheduleInv, Unclaimed

OutcomeInv == ScheduleInv /\ AttemptInv

\* At first nobody works.
LEMMA OutcomeInit == Init => OutcomeInv
BY DEF Init, OutcomeInv, ScheduleInv, AttemptInv, Working

\* A step that leaves the posts and the clock, after which its worker works only
\* if it did before.
LEMMA OutcomeTurns ==
  ASSUME TypeInv, OutcomeInv, NEW w \in Workers, NEW points, Turn(w, points),
         UNCHANGED <<status, due, lease, holder, now>>,
         pc'[w] \in Working => pc[w] \in Working /\ job'[w] = job[w],
         pc'[w] \in {"recover", "claim"} => job'[w].time <= now,
         pc'[w] = "retry" =>
           job'[w].post \in Posts /\ job'[w].mode = "now" /\ status[job'[w].post] \notin Unclaimed
  PROVE  OutcomeInv'
<1>1. now \in Nat
  BY DEF TypeInv, WorldInv
<1>2. ScheduleInv'
  BY ScheduleTurns DEF OutcomeInv, ScheduleInv
<1>3. \A v \in Workers \ {w} : pc[v] \in Working => Attempted(v, job[v].post, job[v].lease)'
  BY <1>1, OthersStay DEF OutcomeInv
<1>4. ASSUME pc'[w] \in Working
      PROVE  job'[w].post \in Posts /\ job'[w].lease \in Nat /\ Attempted(w, job[w].post, job[w].lease)'
  <2>1. /\ job[w].post \in Posts /\ job[w].lease \in Nat
        /\ Attempted(w, job[w].post, job[w].lease) /\ job'[w] = job[w]
    BY <1>4 DEF OutcomeInv, AttemptInv
  <2>. QED BY <2>1 DEF Attempted
<1>. QED BY <1>2, <1>3, <1>4, AttemptStep DEF OutcomeInv

\* A request or a pass claims a post that nobody has at the time.
LEMMA OutcomeClaim ==
  ASSUME TypeInv, OutcomeInv, NEW w \in Workers, NEW p \in Posts, NEW l \in Times, Claim(w, p, l),
         UNCHANGED <<due, now>>, due[p] <= now,
         \/ status[p] \in Unclaimed
         \/ w \in Requests /\ status[p] = "failed" /\ l > now
  PROVE  OutcomeInv'
<1>1. /\ now \in Nat /\ status \in [Posts -> Statuses] /\ lease \in [Posts -> Times]
      /\ holder \in [Posts -> Workers \cup {NoWorker}] /\ l \in Nat /\ WorkersInv
      /\ Requests \cap Schedulers = {}
  BY DEF TypeInv, WorldInv, DocsInv, HistoryInv, Times
<1>2. Turn(w, {"publish"})
  BY <1>1, ClaimTurns
<1>3. /\ status'[p] = "publishing" /\ lease'[p] = l /\ holder'[p] = w
      /\ \A q \in Posts : q # p => status'[q] = status[q] /\ lease'[q] = lease[q] /\ holder'[q] = holder[q]
  BY <1>1 DEF Claim, ClaimRow, SetStatus
<1>4. pc'[w] = "publish" /\ job'[w].post = p /\ job'[w].lease = l
  BY <1>1 DEF Claim, ClaimRow, Goto, SetJob, WorkersInv, NewJob
<1>5. ScheduleInv'
  BY <1>2, <1>3, <1>4, ScheduleTurns DEF OutcomeInv, ScheduleInv, Unclaimed
<1>6. ASSUME NEW v \in Workers \ {w}, pc[v] \in Working
      PROVE  Attempted(v, job[v].post, job[v].lease)'
  <2>1. /\ job[v].post \in Posts /\ job[v].lease \in Nat
        /\ Attempted(v, job[v].post, job[v].lease) /\ job'[v] = job[v]
    BY <1>2, <1>6 DEF OutcomeInv, AttemptInv, Turn
  <2>2. CASE job[v].post = p
    <3>1. w \in Requests /\ status[p] = "failed" /\ l > now
      BY <2>1, <2>2 DEF Attempted
    <3>2. v \in Schedulers => job[v].lease <= now
      BY <2>1, <2>2, <3>1 DEF Attempted
    <3>. QED BY <1>1, <1>3, <2>1, <2>2, <3>1, <3>2 DEF Attempted, Unclaimed
  <2>3. CASE job[v].post # p
    BY <1>1, <1>3, <2>1, <2>3 DEF Attempted
  <2>. QED BY <2>2, <2>3
<1>7. Attempted(w, job[w].post, job[w].lease)'
  BY <1>3, <1>4 DEF Attempted, Unclaimed
<1>. QED BY <1>1, <1>2, <1>4, <1>5, <1>6, <1>7, AttemptStep DEF OutcomeInv

\* A step on posts that were not claimed, or that takes one out of publishing.
LEMMA OutcomeOf ==
  ASSUME TypeInv, OutcomeInv, NEW w \in Workers, NEW points, Turn(w, points),
         points \cap (Working \cup {"recover", "claim", "retry"}) = {},
         ScheduleInv', UNCHANGED now, NEW p \in Posts,
         \A q \in Posts : q # p => status'[q] = status[q] /\ lease'[q] = lease[q] /\ holder'[q] = holder[q],
         \/ status[p] \in Unclaimed
         \/ /\ holder'[p] = holder[p]
            /\ status[p] # "publishing" \/ lease[p] <= now
               \/ \A v \in Workers \ {w} : v \in Schedulers => holder[p] # v
            /\ status'[p] \in {"published", "failed", "deleted"}
  PROVE  OutcomeInv'
<1>1. now \in Nat /\ lease \in [Posts -> Nat] /\ Requests \cap Schedulers = {}
  BY DEF TypeInv, WorldInv, DocsInv, Times
<1>2. ASSUME NEW v \in Workers \ {w}, pc[v] \in Working
      PROVE  Attempted(v, job[v].post, job[v].lease)'
  <2>1. /\ job[v].post \in Posts /\ job[v].lease \in Nat
        /\ Attempted(v, job[v].post, job[v].lease) /\ job'[v] = job[v]
    BY <1>2 DEF OutcomeInv, AttemptInv, Turn
  <2>2. CASE job[v].post = p
    BY <1>1, <2>1, <2>2 DEF Attempted, Unclaimed
  <2>3. CASE job[v].post # p
    BY <1>1, <2>1, <2>3 DEF Attempted
  <2>. QED BY <2>2, <2>3
<1>3. pc'[w] \notin Working
  BY DEF Turn
<1>. QED BY <1>2, <1>3, AttemptStep DEF OutcomeInv

\* A new post is nobody's attempt before it is made.
LEMMA OutcomeCreate ==
  ASSUME TypeInv, OutcomeInv, NEW q \in Requests, NEW p \in Posts, CreatePost(q, p)
  PROVE  OutcomeInv'
<1>1. /\ q \in Workers /\ WorkersInv /\ now \in Nat /\ now + Lease \in Times
      /\ status \in [Posts -> Statuses] /\ due \in [Posts -> Times] /\ due[p] \in Nat
  BY DEF TypeInv, WorldInv, DocsInv, Workers, Times
<1>2. status[p] = "absent" /\ due[p] = 0 /\ now' = now
  BY DEF CreatePost, OutcomeInv, ScheduleInv, Fault, clockVars
<1>3. \/ Claim(q, p, now + Lease) /\ UNCHANGED due
      \/ /\ Finish(q) /\ NoClaim
         /\ \A r \in Posts : r # p => status'[r] = status[r] /\ due'[r] = due[r]
         /\ status'[p] \in {"draft", "scheduled"} \/ UNCHANGED <<status, due>>
  BY <1>1 DEF CreatePost, SetStatus
<1>4. CASE Claim(q, p, now + Lease) /\ UNCHANGED due
  BY <1>1, <1>2, <1>4, OutcomeClaim DEF Unclaimed
<1>5. CASE /\ Finish(q) /\ NoClaim
           /\ \A r \in Posts : r # p => status'[r] = status[r] /\ due'[r] = due[r]
           /\ status'[p] \in {"draft", "scheduled"} \/ UNCHANGED <<status, due>>
  <2>1. Turn(q, {"end"})
    BY <1>1, <1>5, FinishTurns
  <2>2. pc'[q] = "end"
    BY <2>1 DEF Turn
  <2>3. ScheduleInv'
    BY <1>1, <1>2, <1>5, <2>1, <2>2, ScheduleTurns DEF OutcomeInv, ScheduleInv, Unclaimed
  <2>. QED BY <1>1, <1>2, <1>5, <2>1, <2>3, OutcomeOf DEF NoClaim, Working, Unclaimed
<1>. QED BY <1>3, <1>4, <1>5

LEMMA OutcomeCreateUnanswered ==
  ASSUME TypeInv, OutcomeInv, NEW q \in Requests, NEW p \in Posts, CreateUnanswered(q, p)
  PROVE  OutcomeInv'
<1>1. /\ q \in Workers /\ WorkersInv /\ now \in Nat /\ Turn(q, {"destroyOld"})
      /\ status \in [Posts -> Statuses] /\ due \in [Posts -> Times]
      /\ lease \in [Posts -> Times] /\ holder \in [Posts -> Workers \cup {NoWorker}]
  BY ActionTurns DEF TypeInv, WorldInv, DocsInv, HistoryInv, Workers
<1>2. status[p] = "absent" /\ due[p] = 0 /\ now' = now /\ pc'[q] = "destroyOld"
  BY <1>1 DEF CreateUnanswered, OutcomeInv, ScheduleInv, Fault, Turn
<1>3. /\ \A r \in Posts : r # p => /\ status'[r] = status[r] /\ due'[r] = due[r]
                                   /\ lease'[r] = lease[r] /\ holder'[r] = holder[r]
      /\ status'[p] \in {"draft", "scheduled"} \/ (status'[p] = "publishing" /\ UNCHANGED due)
  BY <1>1 DEF CreateUnanswered, ClaimRow, NoClaim, SetStatus
<1>4. ScheduleInv'
  BY <1>1, <1>2, <1>3, ScheduleTurns DEF OutcomeInv, ScheduleInv, Unclaimed
<1>. QED BY <1>1, <1>2, <1>3, <1>4, OutcomeOf DEF Working, Unclaimed

\* An update finds a post that nobody has claimed.
LEMMA OutcomeUpdate ==
  ASSUME TypeInv, OutcomeInv, NEW q \in Requests, UpdateSave(q)
  PROVE  OutcomeInv'
<1>1. PICK p : p = job[q].post
  OBVIOUS
<1>0. /\ q \in Workers /\ WorkersInv /\ now \in Nat
      /\ status \in [Posts -> Statuses] /\ due \in [Posts -> Times]
  BY DEF TypeInv, WorldInv, DocsInv, Workers
<1>00. job[q] \in Jobs /\ job[q].mode # "now"
  BY <1>0 DEF UpdateSave, ApplyUpdate, WorkersInv, Holds
<1>2. p \in Posts /\ job[q].mode \in {"keep", "draft", "scheduled"}
  BY <1>1, <1>00 DEF Jobs
<1>3. Turn(q, {"end", "destroyOld"})
  BY <1>0, ActionTurns
<1>4. pc'[q] \in {"end", "destroyOld"} /\ now' = now /\ UNCHANGED <<lease, holder>>
  BY <1>3 DEF Turn, UpdateSave, ApplyUpdate, UnlessOrFault, Fault, clockVars, counters, history
<1>5. \/ UNCHANGED <<status, due>>
      \/ /\ status[p] \in {"draft", "scheduled"} /\ status'[p] \in {"draft", "scheduled"}
         /\ \A r \in Posts : r # p => status'[r] = status[r] /\ due'[r] = due[r]
  BY <1>0, <1>1, <1>2 DEF UpdateSave, ApplyUpdate, Editable, SetStatus
<1>6. CASE UNCHANGED <<status, due>>
  BY <1>0, <1>3, <1>4, <1>6, OutcomeTurns DEF Working
<1>7. CASE /\ status[p] \in {"draft", "scheduled"} /\ status'[p] \in {"draft", "scheduled"}
           /\ \A r \in Posts : r # p => status'[r] = status[r] /\ due'[r] = due[r]
  <2>1. ScheduleInv'
    BY <1>0, <1>2, <1>3, <1>4, <1>7, ScheduleTurns DEF OutcomeInv, ScheduleInv, Unclaimed
  <2>. QED BY <1>0, <1>2, <1>3, <1>4, <1>7, <2>1, OutcomeOf DEF Working, Unclaimed
<1>. QED BY <1>5, <1>6, <1>7

LEMMA OutcomeUpdateUnanswered ==
  ASSUME TypeInv, OutcomeInv, NEW q \in Requests, UpdateUnanswered(q)
  PROVE  OutcomeInv'
<1>1. PICK p : p = job[q].post
  OBVIOUS
<1>2. /\ q \in Workers /\ WorkersInv /\ now \in Nat /\ Turn(q, {"destroyOld"})
      /\ status \in [Posts -> Statuses] /\ due \in [Posts -> Times]
  BY ActionTurns DEF TypeInv, WorldInv, DocsInv, Workers
<1>3. p \in Posts /\ job[q].mode \in {"keep", "draft", "scheduled"}
  BY <1>1, <1>2 DEF UpdateUnanswered, WorkersInv, Holds, Jobs
<1>4. pc'[q] = "destroyOld" /\ now' = now /\ UNCHANGED <<lease, holder>>
  BY <1>2 DEF Turn, UpdateUnanswered, Fault, counters
<1>5. /\ status[p] \in {"draft", "scheduled"} /\ status'[p] \in {"draft", "scheduled"}
      /\ \A r \in Posts : r # p => status'[r] = status[r] /\ due'[r] = due[r]
  BY <1>1, <1>2, <1>3 DEF UpdateUnanswered, ApplyUpdate, Editable, SetStatus
<1>6. ScheduleInv'
  BY <1>2, <1>3, <1>4, <1>5, ScheduleTurns DEF OutcomeInv, ScheduleInv, Unclaimed
<1>. QED BY <1>2, <1>3, <1>4, <1>5, <1>6, OutcomeOf DEF Working, Unclaimed

\* A post that is deleted is not being published.
LEMMA OutcomeCancel ==
  ASSUME TypeInv, OutcomeInv, NEW q \in Requests, NEW p \in Posts, CancelPost(q, p)
  PROVE  OutcomeInv'
<1>1. /\ q \in Workers /\ WorkersInv /\ status \in [Posts -> Statuses] /\ Turn(q, {"end", "destroyOld"})
  BY ActionTurns DEF TypeInv, DocsInv, Workers
<1>2. /\ pc'[q] \in {"end", "destroyOld"} /\ UNCHANGED <<now, due, lease, holder>>
      /\ status[p] # "publishing" /\ status'[p] = "deleted"
      /\ \A r \in Posts : r # p => status'[r] = status[r]
  BY <1>1 DEF Turn, CancelPost, SetStatus, clockVars, counters, history
<1>3. ScheduleInv'
  BY <1>1, <1>2, ScheduleTurns DEF OutcomeInv, ScheduleInv, Unclaimed
<1>. QED BY <1>1, <1>2, <1>3, OutcomeOf DEF Working

\* Whoever asks for a retry is told to publish at once.
LEMMA OutcomeRetryRead ==
  ASSUME TypeInv, OutcomeInv, NEW q \in Requests, NEW p \in Posts, RetryRead(q, p)
  PROVE  OutcomeInv'
<1>1. /\ q \in Workers /\ WorkersInv /\ Turn(q, {"retry"}) /\ now \in Nat /\ due \in [Posts -> Nat]
  BY ActionTurns DEF TypeInv, DocsInv, WorldInv, Workers, Times
<1>2. /\ status[p] = "failed" /\ due[p] <= now /\ UNCHANGED <<now, status, due, lease, holder>>
      /\ SetJob(q, [NewJob(p) EXCEPT !.mode = "now"])
  BY <1>1 DEF RetryRead, OutcomeInv, ScheduleInv, docVars, clockVars, counters, history
<1>3. job'[q].post = p /\ job'[q].mode = "now" /\ pc'[q] = "retry"
  BY <1>1, <1>2 DEF SetJob, NewJob, WorkersInv, Turn
<1>. QED BY <1>1, <1>2, <1>3, OutcomeTurns DEF Working, Unclaimed

\* A retry is of a post whose schedule is past.
LEMMA OutcomeRetrySave ==
  ASSUME TypeInv, OutcomeInv, NEW q \in Requests, RetrySave(q)
  PROVE  OutcomeInv'
<1>1. PICK p : p = job[q].post
  OBVIOUS
<1>2. /\ q \in Workers /\ WorkersInv /\ now \in Nat /\ now + Lease \in Times /\ now + Lease > now
      /\ p \in Posts /\ job[q].mode = "now" /\ now' = now /\ UNCHANGED due
  BY <1>1 DEF RetrySave, TypeInv, WorldInv, Workers, Times, OutcomeInv, ScheduleInv, UnlessOrFault,
     Fault, clockVars
<1>3. \/ status[p] = "failed" /\ Claim(q, p, now + Lease)
      \/ Finish(q) /\ NoClaim /\ UNCHANGED status
  BY <1>1, <1>2 DEF RetrySave, Retryable
<1>4. CASE status[p] = "failed" /\ Claim(q, p, now + Lease)
  <2>1. due[p] <= now
    BY <1>2, <1>4 DEF OutcomeInv, ScheduleInv
  <2>. QED BY <1>2, <1>4, <2>1, OutcomeClaim
<1>5. CASE Finish(q) /\ NoClaim /\ UNCHANGED status
  <2>1. Turn(q, {"end"}) /\ pc'[q] = "end"
    BY <1>2, <1>5, FinishTurns DEF Turn
  <2>. QED BY <1>2, <1>5, <2>1, OutcomeTurns DEF NoClaim, Working
<1>. QED BY <1>3, <1>4, <1>5

\* What a pass recovers has a lease that is over.
LEMMA OutcomeRecover ==
  ASSUME TypeInv, OutcomeInv, NEW s \in Schedulers, Recover(s)
  PROVE  OutcomeInv'
<1>0. /\ s \in Workers /\ WorkersInv /\ now \in Nat
      /\ lease \in [Posts -> Nat] /\ status \in [Posts -> Statuses] /\ pc[s] = "recover"
  BY DEF Recover, TypeInv, WorldInv, DocsInv, Workers, Times
<1>00. job[s] \in [time : 0..MaxNow] /\ job[s].time <= now
  BY <1>0 DEF WorkersInv, Holds, OutcomeInv, ScheduleInv
<1>1. /\ s \in Workers /\ WorkersInv /\ Turn(s, {"idle", "claim"}) /\ now \in Nat /\ job[s].time \in Nat
      /\ job[s].time <= now /\ lease \in [Posts -> Nat] /\ status \in [Posts -> Statuses]
      /\ now' = now /\ UNCHANGED <<due, holder>>
  BY <1>0, <1>00, ActionTurns DEF Recover, Fault, clockVars, counters, history
<1>2. \/ \E p \in Posts : /\ Expired(s, p) /\ SetStatus(p, "failed") /\ lease' = [lease EXCEPT ![p] = 0]
                          /\ Finish(s)
      \/ /\ UNCHANGED <<status, lease>>
         /\ Finish(s) \/ (Goto(s, "claim") /\ UNCHANGED job)
  BY DEF Recover, RecoveredStatus
<1>3. ASSUME NEW p \in Posts, Expired(s, p), SetStatus(p, "failed"), lease' = [lease EXCEPT ![p] = 0], Finish(s)
      PROVE  OutcomeInv'
  <2>1. Turn(s, {"idle"}) /\ pc'[s] = "idle"
    BY <1>1, <1>3, FinishTurns DEF Turn
  <2>2. /\ status[p] = "publishing" /\ lease[p] <= now /\ status'[p] = "failed"
        /\ \A q \in Posts : q # p => status'[q] = status[q] /\ lease'[q] = lease[q]
    BY <1>1, <1>3 DEF Expired, SetStatus
  <2>3. ScheduleInv'
    BY <1>1, <2>1, <2>2, ScheduleTurns DEF OutcomeInv, ScheduleInv, Unclaimed
  <2>. QED BY <1>1, <2>1, <2>2, <2>3, OutcomeOf DEF Working
<1>4. CASE /\ UNCHANGED <<status, lease>>
           /\ Finish(s) \/ (Goto(s, "claim") /\ UNCHANGED job)
  <2>1. pc'[s] \in {"idle", "claim"} /\ (pc'[s] = "claim" => job'[s] = job[s])
    BY <1>1, <1>4, FinishTurns DEF Turn
  <2>. QED BY <1>1, <1>4, <2>1, OutcomeTurns DEF Working
<1>. QED BY <1>2, <1>3, <1>4

\* A pass claims a post that nobody has claimed.
LEMMA OutcomeClaimDue ==
  ASSUME TypeInv, OutcomeInv, NEW s \in Schedulers, ClaimDue(s)
  PROVE  OutcomeInv'
<1>0. /\ s \in Workers /\ WorkersInv /\ now \in Nat /\ due \in [Posts -> Nat] /\ pc[s] = "claim"
  BY DEF ClaimDue, TypeInv, WorldInv, DocsInv, Workers, Times
<1>00. job[s] \in [time : 0..MaxNow] /\ job[s].time <= now
  BY <1>0 DEF WorkersInv, Holds, OutcomeInv, ScheduleInv
<1>1. /\ s \in Workers /\ WorkersInv /\ now \in Nat /\ job[s].time \in 0..MaxNow /\ job[s].time <= now
      /\ job[s].time + Lease \in Times /\ due \in [Posts -> Nat] /\ now' = now /\ UNCHANGED due
  BY <1>0, <1>00 DEF ClaimDue, Times, UnlessOrFault, Fault, clockVars
<1>2. \/ \E p \in Posts : Due(s, p) /\ Claim(s, p, job[s].time + Lease)
      \/ Finish(s) /\ NoClaim /\ UNCHANGED status
  BY DEF ClaimDue
<1>3. ASSUME NEW p \in Posts, Due(s, p), Claim(s, p, job[s].time + Lease)
      PROVE  OutcomeInv'
  <2>1. status[p] = "scheduled" /\ due[p] <= now
    BY <1>1, <1>3 DEF Due
  <2>. QED BY <1>1, <1>3, <2>1, OutcomeClaim DEF Unclaimed
<1>4. CASE Finish(s) /\ NoClaim /\ UNCHANGED status
  <2>1. Turn(s, {"idle"}) /\ pc'[s] = "idle"
    BY <1>1, <1>4, FinishTurns DEF Turn
  <2>. QED BY <1>1, <1>4, <2>1, OutcomeTurns DEF NoClaim, Working
<1>. QED BY <1>2, <1>3, <1>4

\* A late result of a request finds no scheduler's attempt to end, and one of a
\* scheduler only its own.
LEMMA OutcomePersist ==
  ASSUME TypeInv, OutcomeInv, NEW w \in Workers, PersistTerminal(w)
  PROVE  OutcomeInv'
<1>1. PICK p : p = job[w].post
  OBVIOUS
<1>2. /\ WorkersInv /\ p \in Posts /\ now \in Nat /\ lease \in [Posts -> Nat] /\ status \in [Posts -> Statuses]
      /\ job[w].lease \in Nat /\ Attempted(w, p, job[w].lease)
      /\ now' = now /\ UNCHANGED <<due, holder>> /\ pc[w] \in {"save", "fail"}
      /\ Requests \cap Schedulers = {}
  BY <1>1 DEF PersistTerminal, TypeInv, WorldInv, DocsInv, Times, OutcomeInv, AttemptInv, Working,
     UnlessOrFault, Fault, clockVars, counters, history
<1>3. \/ /\ MayPersist(w) /\ Finish(w) /\ lease' = [lease EXCEPT ![p] = 0]
         /\ SetStatus(p, "published") \/ SetStatus(p, "failed")
      \/ /\ UNCHANGED <<status, lease>>
         /\ Finish(w) \/ (Goto(w, "fail") /\ UNCHANGED job)
  BY <1>1 DEF PersistTerminal
<1>4. CASE /\ MayPersist(w) /\ Finish(w) /\ lease' = [lease EXCEPT ![p] = 0]
           /\ SetStatus(p, "published") \/ SetStatus(p, "failed")
  <2>1. Turn(w, {"idle", "end"}) /\ pc'[w] \in {"idle", "end"}
    BY <1>2, <1>4, FinishTurns DEF Turn
  <2>2. /\ status[p] = "publishing" /\ status'[p] \in {"published", "failed"}
        /\ \A q \in Posts : q # p => status'[q] = status[q] /\ lease'[q] = lease[q]
    BY <1>1, <1>2, <1>4 DEF MayPersist, SetStatus
  <2>3. \A v \in Workers \ {w} : v \in Schedulers => holder[p] # v
    BY <1>1, <1>2, <1>4 DEF MayPersist, Attempted, Workers
  <2>4. ScheduleInv'
    BY <1>2, <2>1, <2>2, ScheduleTurns DEF OutcomeInv, ScheduleInv, Unclaimed
  <2>. QED BY <1>2, <2>1, <2>2, <2>3, <2>4, OutcomeOf DEF Working
<1>5. CASE /\ UNCHANGED <<status, lease>>
           /\ Finish(w) \/ (Goto(w, "fail") /\ UNCHANGED job)
  <2>1. Turn(w, {"idle", "end", "fail"})
    BY ActionTurns, <1>2
  <2>2. pc'[w] \in {"idle", "end", "fail"} /\ (pc'[w] = "fail" => job'[w] = job[w])
    BY <1>2, <1>5, <2>1, FinishTurns DEF Turn
  <2>. QED BY <1>2, <1>5, <2>1, <2>2, OutcomeTurns DEF Working
<1>. QED BY <1>3, <1>4, <1>5

\* Every step keeps schedules and attempts in order.
LEMMA OutcomeStep == TypeInv /\ OutcomeInv /\ [Next]_vars => OutcomeInv'
<1>. SUFFICES ASSUME TypeInv, OutcomeInv, [Next]_vars PROVE OutcomeInv'
  OBVIOUS
<1>0. /\ WorkersInv /\ Requests \subseteq Workers /\ Schedulers \subseteq Workers /\ now \in Nat
      /\ now + 1 \in Nat /\ lease \in [Posts -> Nat]
  BY DEF TypeInv, WorldInv, DocsInv, Times, Workers
<1>1. ASSUME NEW q \in Requests, NEW p \in Posts, UpdateRead(q, p) PROVE OutcomeInv'
  <2>1. Turn(q, {"update"}) /\ pc'[q] = "update"
    BY <1>0, <1>1, ActionTurns DEF Turn
  <2>. QED BY <1>0, <1>1, <2>1, OutcomeTurns DEF UpdateRead, docVars, clockVars, counters, history, Working
<1>2. ASSUME NEW q \in Requests, DestroyOld(q) PROVE OutcomeInv'
  <2>1. Turn(q, {"end"}) /\ pc'[q] = "end"
    BY <1>0, <1>2, ActionTurns DEF Turn
  <2>. QED BY <1>0, <1>2, <2>1, OutcomeTurns DEF DestroyOld, docVars, clockVars, counters, history, Working
<1>3. ASSUME NEW s \in Schedulers, StartPass(s) PROVE OutcomeInv'
  <2>1. Turn(s, {"recover"}) /\ pc'[s] = "recover"
    BY <1>0, <1>3, ActionTurns DEF Turn
  <2>2. job'[s].time = now
    BY <1>0, <1>3 DEF StartPass, SetJob, WorkersInv
  <2>. QED BY <1>0, <1>3, <2>1, <2>2, OutcomeTurns DEF StartPass, docVars, clockVars, counters, history, Working
<1>4. ASSUME NEW w \in Workers, BeginPublish(w) \/ PublishSettles(w) PROVE OutcomeInv'
  <2>1. /\ Turn(w, {"sent", "save", "fail"}) /\ pc[w] \in {"publish", "sent"} /\ job' = job
        /\ UNCHANGED <<status, due, lease, holder, now>>
    BY <1>0, <1>4, ActionTurns DEF BeginPublish, PublishSettles, Turn, docVars, clockVars, counters, history
  <2>. QED BY <1>0, <2>1, OutcomeTurns DEF Working, Turn
<1>5. ASSUME NEW w \in Workers, Crash(w) PROVE OutcomeInv'
  <2>1. Turn(w, {"idle", "end"}) /\ pc'[w] \in {"idle", "end"}
    BY <1>0, <1>5, ActionTurns DEF Turn
  <2>. QED BY <1>0, <1>5, <2>1, OutcomeTurns DEF Crash, Fault, docVars, counters, history, Working
<1>6. CASE Tick
  <2>1. /\ now' = now + 1 /\ UNCHANGED <<status, due, lease, holder, pc, job>>
    BY <1>6 DEF Tick, docVars, counters, history
  <2>2. ScheduleInv'
    <3>1. \A p \in Posts : due[p] <= now => due[p] <= now'
      BY <1>0, <2>1 DEF TypeInv, DocsInv, Times
    <3>2. ASSUME NEW w \in Workers, pc[w] \in {"recover", "claim"} PROVE job[w].time <= now'
      <4>1. job[w] \in [time : 0..MaxNow]
        BY <1>0, <3>2 DEF WorkersInv, Holds
      <4>. QED BY <1>0, <2>1, <3>2, <4>1 DEF OutcomeInv, ScheduleInv
    <3>. QED BY <2>1, <3>1, <3>2 DEF OutcomeInv, ScheduleInv
  <2>3. ASSUME NEW w \in Workers, pc[w] \in Working PROVE Attempted(w, job[w].post, job[w].lease)'
    <3>1. job[w].lease \in Nat /\ Attempted(w, job[w].post, job[w].lease)
      BY <2>3 DEF OutcomeInv, AttemptInv
    <3>. QED BY <1>0, <2>1, <3>1 DEF Attempted
  <2>. QED BY <2>1, <2>2, <2>3 DEF OutcomeInv, AttemptInv
<1>7. CASE Land \/ UNCHANGED vars
  <2>1. UNCHANGED <<status, due, lease, holder, pc, job, now>>
    BY <1>7 DEF Land, vars, docVars, clockVars, counters, history
  <2>. QED BY <2>1 DEF OutcomeInv, ScheduleInv, AttemptInv, Attempted
<1>. QED BY <1>1, <1>2, <1>3, <1>4, <1>5, <1>6, <1>7, OutcomeCreate, OutcomeCreateUnanswered,
  OutcomeUpdate, OutcomeUpdateUnanswered, OutcomeCancel,
  OutcomeRetryRead, OutcomeRetrySave, OutcomeRecover, OutcomeClaimDue, OutcomePersist
  DEF Next, Request, RunOnce, Publish

\* Only the end of its own attempt changes what a scheduler's post is.
LEMMA EndsOwn == TypeInv /\ OutcomeInv /\ [Next]_vars => EndsOwnAttempt
<1>. SUFFICES ASSUME TypeInv, OutcomeInv, [Next]_vars, NEW s \in Schedulers, pc[s] \in {"save", "fail"},
                     pc'[s] = "idle", status'[job[s].post] # status[job[s].post]
              PROVE  holder[job[s].post] = s
  BY DEF EndsOwnAttempt
<1>0. /\ WorkersInv /\ Requests \subseteq Workers /\ s \in Workers /\ s \notin Requests
      /\ lease \in [Posts -> Nat]
  BY DEF TypeInv, DocsInv, Times, Workers
<1>1. \A w \in Workers : \A points : Turn(w, points) => w = s
  BY <1>0 DEF Turn
<1>2. \A q \in Requests : ~Request(q)
  <2>1. \A q \in Requests, p \in Posts :
          /\ ~CreatePost(q, p) /\ ~CreateUnanswered(q, p) /\ ~UpdateRead(q, p)
          /\ ~CancelPost(q, p) /\ ~RetryRead(q, p)
    BY <1>0, <1>1, ActionTurns
  <2>2. \A q \in Requests : ~UpdateSave(q) /\ ~UpdateUnanswered(q) /\ ~DestroyOld(q) /\ ~RetrySave(q)
    BY <1>0, <1>1, ActionTurns
  <2>. QED BY <2>1, <2>2 DEF Request
<1>3. \A r \in Schedulers : ~RunOnce(r)
  <2>1. \A r \in Schedulers : RunOnce(r) => r = s
    BY <1>0, <1>1, ActionTurns DEF RunOnce, Workers
  <2>. QED BY <2>1 DEF RunOnce, StartPass, Recover, ClaimDue
<1>4. UNCHANGED status \/ PersistTerminal(s)
  <2>1. ASSUME NEW w \in Workers, Publish(w) \/ Crash(w) PROVE UNCHANGED status \/ PersistTerminal(s)
    <3>1. CASE PersistTerminal(w)
      BY <1>0, <1>1, <3>1, ActionTurns
    <3>. QED BY <2>1, <3>1 DEF Publish, BeginPublish, PublishSettles, Crash, docVars
  <2>. QED BY <1>2, <1>3, <2>1 DEF Next, Land, Tick, vars, docVars
<1>5. MayPersist(s)
  BY <1>4 DEF PersistTerminal
<1>6. /\ job[s].post \in Posts /\ job[s].lease \in Nat
      /\ Attempted(s, job[s].post, job[s].lease)
  BY <1>0 DEF OutcomeInv, AttemptInv, Working
<1>. QED BY <1>0, <1>5, <1>6 DEF MayPersist, Attempted

\* What is published is only ever deleted.
LEMMA StaysPublished == TypeInv /\ [Next]_vars => PublishedStays
<1>. SUFFICES ASSUME TypeInv, [Next]_vars, NEW p \in Posts, status[p] = "published"
              PROVE  \/ status'[p] = "deleted"
                     \/ status'[p] = "published" /\ publishedId'[p] = publishedId[p]
  BY DEF PublishedStays
<1>. DEFINE Stays == \/ status'[p] = "deleted"
                     \/ status'[p] = "published" /\ publishedId'[p] = publishedId[p]
<1>0. status \in [Posts -> Statuses] /\ publishedId \in [Posts -> Nat] /\ WorkersInv
  BY DEF TypeInv, DocsInv
<1>1. ASSUME NEW q \in Requests, Request(q) PROVE Stays
  <2>1. \A r \in Posts : CreatePost(q, r) => Stays
    BY <1>0 DEF CreatePost, SetStatus, Claim, ClaimRow
  <2>2. \A r \in Posts : CancelPost(q, r) => Stays
    BY <1>0 DEF CancelPost, SetStatus
  <2>3. UpdateSave(q) => Stays
    BY <1>0 DEF UpdateSave, ApplyUpdate, Editable, SetStatus
  <2>4. RetrySave(q) => Stays
    BY <1>0 DEF RetrySave, Retryable, SetStatus, Claim, ClaimRow
  <2>6. \A r \in Posts : CreateUnanswered(q, r) => Stays
    BY <1>0 DEF CreateUnanswered, SetStatus, ClaimRow
  <2>7. UpdateUnanswered(q) => Stays
    BY <1>0 DEF UpdateUnanswered, ApplyUpdate, Editable, SetStatus
  <2>5. DestroyOld(q) \/ (\E r \in Posts : UpdateRead(q, r) \/ RetryRead(q, r)) => Stays
    BY DEF DestroyOld, UpdateRead, RetryRead, docVars
  <2>. QED BY <1>1, <2>1, <2>2, <2>3, <2>4, <2>5, <2>6, <2>7 DEF Request
<1>2. ASSUME NEW s \in Schedulers, RunOnce(s) PROVE Stays
  <2>1. Recover(s) => Stays
    BY <1>0 DEF Recover, Expired, SetStatus
  <2>2. ClaimDue(s) => Stays
    BY <1>0 DEF ClaimDue, Due, Claim, ClaimRow, SetStatus
  <2>. QED BY <1>2, <2>1, <2>2 DEF RunOnce, StartPass, docVars
<1>3. ASSUME NEW w \in Workers, Publish(w) \/ Crash(w) PROVE Stays
  <2>1. PersistTerminal(w) => Stays
    BY <1>0 DEF PersistTerminal, MayPersist, SetStatus
  <2>. QED BY <1>3, <2>1 DEF Publish, BeginPublish, PublishSettles, Crash, docVars
<1>. QED BY <1>1, <1>2, <1>3 DEF Next, Land, Tick, vars, docVars

\* A scheduler's late result ends only the attempt it claimed, and a published
\* post stays so until it is deleted, for any number of posts, requests and
\* schedulers.
THEOREM OutcomesAreRespected == Spec => OutcomeIsRespected
<1>1. TypeInv /\ OutcomeInv /\ [Next]_vars => EndsOwnAttempt /\ PublishedStays
  BY EndsOwn, StaysPublished
<1>2. [Next]_vars /\ TypeInv /\ OutcomeInv => [EndsOwnAttempt /\ PublishedStays]_vars
  BY <1>1
<1>. QED BY <1>2, TypeInit, TypeStep, OutcomeInit, OutcomeStep, PTL DEF Spec, OutcomeIsRespected
=============================================================================
