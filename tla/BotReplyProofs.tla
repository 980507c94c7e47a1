--------------------------- MODULE BotReplyProofs ---------------------------
(***************************************************************************)
(* Proofs about BotReply for every set of runs, takers and messages and    *)
(* every bound, with or without crashes and database faults.               *)
(***************************************************************************)
EXTENDS BotReply, TLAPS

USE ActorsAssumption, MessagesAssumption, BoundsAssumption

\* Every step keeps the types.
LEMMA TypeStep == TypeOK /\ [Next]_vars => TypeOK'
<1>. SUFFICES ASSUME TypeOK, [Next]_vars PROVE TypeOK'
  OBVIOUS
<1>. USE DEF TypeOK, ConversationTypeOK, ClaimTypeOK, RunTypeOK, OtherTypeOK,
            Actors, MainPoints, WorkPoints, TakerPoints
<1>1. ASSUME NEW r \in Runs, NEW m \in Messages, Lookup(r, m) PROVE TypeOK'
  BY <1>1 DEF Lookup, Goto, convVars, claimVars, takerVars, clockVars, history
<1>2. ASSUME NEW r \in Runs, CreateClaim(r) PROVE TypeOK'
  <2>1. claim' \in [Messages -> {"none", "processing", "sent", "handed_off", "failed"}]
    BY <1>2 DEF CreateClaim, SetClaim, claimVars
  <2>2. claimedBy' \in [Messages -> Runs \cup {NoActor}]
    BY <1>2 DEF CreateClaim, claimVars
  <2>3. reserved' \in [Messages -> BOOLEAN]
    BY <1>2 DEF CreateClaim, claimVars
  <2>4. pc' \in [Runs -> MainPoints]
    BY <1>2 DEF CreateClaim, Goto
  <2>. QED
    BY <1>2, <2>1, <2>2, <2>3, <2>4
    DEF CreateClaim, convVars, takerVars, clockVars, history
<1>3. ASSUME NEW r \in Runs, Reply(r) PROVE TypeOK'
  BY <1>3 DEF Reply, Goto, Handoff, convVars, claimVars, takerVars,
     clockVars, history
<1>4. ASSUME NEW r \in Runs, DeliverLookup(r) PROVE TypeOK'
  BY <1>4 DEF DeliverLookup, Goto, convVars, claimVars, takerVars,
     clockVars, history
<1>5. ASSUME NEW r \in Runs, Refuse(r) PROVE TypeOK'
  BY <1>5 DEF Refuse, Goto, MyClaim, convVars, takerVars, clockVars, history
<1>6. ASSUME NEW r \in Runs, Reserve(r) PROVE TypeOK'
  BY <1>6 DEF Reserve, Goto, MyClaim, convVars, takerVars, clockVars, history
<1>7. ASSUME NEW r \in Runs, CreateBotMessage(r) PROVE TypeOK'
  BY <1>7 DEF CreateBotMessage, Goto, convVars, claimVars, takerVars,
     clockVars, history
<1>8. ASSUME NEW r \in Runs, WorkerResult(r) PROVE TypeOK'
  BY <1>8 DEF WorkerResult, Goto, convVars, claimVars, takerVars,
     clockVars, history
<1>9. ASSUME NEW r \in Runs, OuterTimeout(r) PROVE TypeOK'
  BY <1>9 DEF OuterTimeout, Goto, TimerRuns, convVars, claimVars,
     takerVars, clockVars, history
<1>10. ASSUME NEW r \in Runs, Persist(r) PROVE TypeOK'
  BY <1>10 DEF Persist, Verdict, Goto, SetClaim, MyClaim, Handoff, Outcome, Later,
     takerVars, clockVars, history
<1>11. ASSUME NEW r \in Runs, FailClaim(r) PROVE TypeOK'
  BY <1>11 DEF FailClaim, Goto, MyClaim, convVars, takerVars, clockVars,
     history
<1>12. ASSUME NEW r \in Runs, FailMessage(r) PROVE TypeOK'
  BY <1>12 DEF FailMessage, Goto, convVars, claimVars, takerVars,
     clockVars, history
<1>13. ASSUME NEW r \in Runs, FailConversation(r) PROVE TypeOK'
  BY <1>13 DEF FailConversation, Goto, Handoff, claimVars, takerVars,
     clockVars, history
<1>14. ASSUME NEW r \in Runs, Abandon(r) PROVE TypeOK'
  BY <1>14 DEF Abandon, Goto, SetClaim, MyClaim, Handoff, takerVars,
     clockVars, history
<1>15. ASSUME NEW r \in Runs, InboundFailure(r) PROVE TypeOK'
  BY <1>15 DEF InboundFailure, Goto, claimVars, takerVars, clockVars, history
<1>16. ASSUME NEW r \in Runs, ResolveAdapter(r) PROVE TypeOK'
  BY <1>16 DEF ResolveAdapter, WorkUnchanged, Settle, convVars, claimVars,
     takerVars, clockVars
<1>17. ASSUME NEW r \in Runs, AcquireLock(r) PROVE TypeOK'
  BY <1>17 DEF AcquireLock, LockFree, WorkUnchanged, Settle, convVars,
     claimVars, takerVars, clockVars
<1>18. ASSUME NEW r \in Runs, GiveUpLock(r) PROVE TypeOK'
  BY <1>18 DEF GiveUpLock, WorkUnchanged, Settle, convVars, claimVars,
     takerVars, clockVars
<1>19. ASSUME NEW r \in Runs, ReadLatest(r) PROVE TypeOK'
  BY <1>19 DEF ReadLatest, WorkUnchanged, Settle, convVars, claimVars,
     takerVars, clockVars
<1>20. ASSUME NEW r \in Runs, CheckAndSend(r) PROVE TypeOK'
  BY <1>20 DEF CheckAndSend, MayStillSend, WorkUnchanged, Settle, convVars,
     claimVars, takerVars, clockVars
<1>21. ASSUME NEW r \in Runs, SendSettles(r) PROVE TypeOK'
  BY <1>21 DEF SendSettles, Acknowledged, WorkUnchanged, Settle, convVars,
     claimVars, takerVars, clockVars
<1>22. ASSUME NEW r \in Runs, SendTimeout(r) PROVE TypeOK'
  BY <1>22 DEF SendTimeout, WorkUnchanged, Settle, convVars, claimVars,
     takerVars, clockVars
<1>23. ASSUME NEW r \in Runs, Unlock(r) PROVE TypeOK'
  BY <1>23 DEF Unlock, Released, WorkUnchanged, Settle, convVars,
     claimVars, takerVars, clockVars
<1>24. ASSUME NEW r \in Runs, PlatformDelivers(r) PROVE TypeOK'
  BY <1>24 DEF PlatformDelivers, convVars, claimVars, runVars, takerVars,
     clockVars, history
<1>25. ASSUME NEW r \in Runs, CrashRun(r) PROVE TypeOK'
  BY <1>25 DEF CrashRun, Goto, convVars, claimVars, takerVars, clockVars,
     history
<1>26. ASSUME NEW t \in Takers, AgentSend(t) PROVE TypeOK'
  BY <1>26 DEF AgentSend, TakerUnchanged, TakerGoto, convVars, claimVars,
     runVars, clockVars
<1>27. ASSUME NEW t \in Takers, AssignAgent(t) PROVE TypeOK'
  BY <1>27 DEF AssignAgent, TakerUnchanged, TakerGoto, claimVars, runVars,
     clockVars
<1>28. ASSUME NEW t \in Takers, AssignPause(t) PROVE TypeOK'
  BY <1>28 DEF AssignPause, TakerUnchanged, TakerGoto, convVars, claimVars,
     runVars, clockVars
<1>29. ASSUME NEW t \in Takers, TakerAcquire(t) PROVE TypeOK'
  BY <1>29 DEF TakerAcquire, LockFree, TakerUnchanged, TakerGoto, convVars,
     claimVars, runVars, clockVars
<1>30. ASSUME NEW t \in Takers, TakerBusy(t) PROVE TypeOK'
  BY <1>30 DEF TakerBusy, LockTaken, TakerUnchanged, TakerGoto, convVars,
     claimVars, runVars, clockVars
<1>31. ASSUME NEW t \in Takers, CommitPause(t) PROVE TypeOK'
  BY <1>31 DEF CommitPause, Later, TakerUnchanged, TakerGoto, claimVars,
     runVars, clockVars
<1>32. ASSUME NEW t \in Takers, TakerUnlock(t) PROVE TypeOK'
  BY <1>32 DEF TakerUnlock, Released, TakerUnchanged, TakerGoto, convVars,
     claimVars, runVars, clockVars
<1>33. ASSUME NEW t \in Takers, CrashTaker(t) PROVE TypeOK'
  BY <1>33 DEF CrashTaker, TakerUnchanged, TakerGoto, convVars, claimVars,
     runVars, clockVars
<1>34. ASSUME EnableBot PROVE TypeOK'
  BY <1>34 DEF EnableBot, Edit, claimVars, runVars, takerVars
<1>35. ASSUME DisableBot PROVE TypeOK'
  <2>1. ConversationTypeOK'
    BY <1>35 DEF DisableBot, Edit, claimVars, runVars, takerVars
  <2>2. ClaimTypeOK'
    BY <1>35 DEF DisableBot, Edit, claimVars, runVars, takerVars
  <2>3. RunTypeOK'
    BY <1>35 DEF DisableBot, Edit, claimVars, runVars, takerVars
  <2>4. OtherTypeOK'
    BY <1>35 DEF DisableBot, Edit, claimVars, runVars, takerVars
  <2>. QED BY <2>1, <2>2, <2>3, <2>4
<1>36. ASSUME DeleteConversation PROVE TypeOK'
  <2>1. ConversationTypeOK'
    BY <1>36 DEF DeleteConversation, Edit, runVars, takerVars
  <2>2. ClaimTypeOK'
    BY <1>36 DEF DeleteConversation, Edit, runVars, takerVars
  <2>3. RunTypeOK'
    BY <1>36 DEF DeleteConversation, Edit, runVars, takerVars
  <2>4. OtherTypeOK'
    BY <1>36 DEF DeleteConversation, Edit, runVars, takerVars
  <2>. QED BY <2>1, <2>2, <2>3, <2>4
<1>37. ASSUME Tick PROVE TypeOK'
  BY <1>37 DEF Tick, convVars, claimVars, runVars, takerVars, history
<1>38. CASE UNCHANGED vars
  BY <1>38 DEF vars, convVars, claimVars, runVars, takerVars, clockVars,
     history
<1>. QED BY <1>1, <1>2, <1>3, <1>4, <1>5, <1>6, <1>7, <1>8, <1>9, <1>10,
  <1>11, <1>12, <1>13, <1>14, <1>15, <1>16, <1>17, <1>18, <1>19, <1>20,
  <1>21, <1>22, <1>23, <1>24, <1>25, <1>26, <1>27, <1>28, <1>29, <1>30,
  <1>31, <1>32, <1>33, <1>34, <1>35, <1>36, <1>37, <1>38
  DEF Next, Orchestrate, Deliver, Work, TakeOver

LEMMA TypeInit == Init => TypeOK
  BY DEF Init, TypeOK, ConversationTypeOK, ClaimTypeOK, RunTypeOK,
         OtherTypeOK, Actors, MainPoints, WorkPoints, TakerPoints

\* Every variable keeps its type in every reachable state.
THEOREM TypeCorrect == Spec => []TypeOK
<1>1. Init => TypeOK
  BY TypeInit
<1>2. TypeOK /\ [Next]_vars => TypeOK'
  BY TypeStep
<1>. QED BY <1>1, <1>2, PTL DEF Spec

\* No step lets a second actor into the critical section.
LEMMA LockStep == TypeOK /\ SendLockExcludes /\ [Next]_vars => SendLockExcludes'
<1>. SUFFICES ASSUME TypeOK, SendLockExcludes, [Next]_vars PROVE SendLockExcludes'
  OBVIOUS
<1>. USE DEF SendLockExcludes, InCriticalSection, Actors, TypeOK, ConversationTypeOK, ClaimTypeOK, RunTypeOK, OtherTypeOK,
            WorkPoints, TakerPoints
<1>1. ASSUME NEW r \in Runs, NEW m \in Messages, Lookup(r, m) PROVE SendLockExcludes'
  BY <1>1 DEF Lookup, Goto, convVars, claimVars, takerVars, clockVars, history
<1>2. ASSUME NEW r \in Runs, CreateClaim(r) PROVE SendLockExcludes'
  BY <1>2 DEF CreateClaim, Goto, SetClaim, ClaimFree, convVars, claimVars,
     takerVars, clockVars, history
<1>3. ASSUME NEW r \in Runs, Reply(r) PROVE SendLockExcludes'
  BY <1>3 DEF Reply, Goto, Handoff, convVars, claimVars, takerVars,
     clockVars, history
<1>4. ASSUME NEW r \in Runs, DeliverLookup(r) PROVE SendLockExcludes'
  BY <1>4 DEF DeliverLookup, Goto, convVars, claimVars, takerVars,
     clockVars, history
<1>5. ASSUME NEW r \in Runs, Refuse(r) PROVE SendLockExcludes'
  BY <1>5 DEF Refuse, Goto, MyClaim, convVars, takerVars, clockVars, history
<1>6. ASSUME NEW r \in Runs, Reserve(r) PROVE SendLockExcludes'
  BY <1>6 DEF Reserve, Goto, MyClaim, convVars, takerVars, clockVars, history
<1>7. ASSUME NEW r \in Runs, CreateBotMessage(r) PROVE SendLockExcludes'
  BY <1>7 DEF CreateBotMessage, Goto, convVars, claimVars, takerVars,
     clockVars, history
<1>8. ASSUME NEW r \in Runs, WorkerResult(r) PROVE SendLockExcludes'
  BY <1>8 DEF WorkerResult, Goto, convVars, claimVars, takerVars,
     clockVars, history
<1>9. ASSUME NEW r \in Runs, OuterTimeout(r) PROVE SendLockExcludes'
  BY <1>9 DEF OuterTimeout, Goto, TimerRuns, convVars, claimVars,
     takerVars, clockVars, history
<1>10. ASSUME NEW r \in Runs, Persist(r) PROVE SendLockExcludes'
  BY <1>10 DEF Persist, Verdict, Goto, SetClaim, MyClaim, Handoff, Outcome, Later,
     takerVars, clockVars, history
<1>11. ASSUME NEW r \in Runs, FailClaim(r) PROVE SendLockExcludes'
  BY <1>11 DEF FailClaim, Goto, MyClaim, convVars, takerVars, clockVars,
     history
<1>12. ASSUME NEW r \in Runs, FailMessage(r) PROVE SendLockExcludes'
  BY <1>12 DEF FailMessage, Goto, convVars, claimVars, takerVars,
     clockVars, history
<1>13. ASSUME NEW r \in Runs, FailConversation(r) PROVE SendLockExcludes'
  BY <1>13 DEF FailConversation, Goto, Handoff, claimVars, takerVars,
     clockVars, history
<1>14. ASSUME NEW r \in Runs, Abandon(r) PROVE SendLockExcludes'
  BY <1>14 DEF Abandon, Goto, SetClaim, MyClaim, Handoff, takerVars,
     clockVars, history
<1>15. ASSUME NEW r \in Runs, InboundFailure(r) PROVE SendLockExcludes'
  BY <1>15 DEF InboundFailure, Goto, claimVars, takerVars, clockVars, history
<1>16. ASSUME NEW r \in Runs, ResolveAdapter(r) PROVE SendLockExcludes'
  BY <1>16 DEF ResolveAdapter, WorkUnchanged, Settle, convVars, claimVars,
     takerVars, clockVars
<1>17. ASSUME NEW r \in Runs, AcquireLock(r) PROVE SendLockExcludes'
  BY <1>17 DEF AcquireLock, LockFree, WorkUnchanged, Settle, convVars,
     claimVars, takerVars, clockVars
<1>18. ASSUME NEW r \in Runs, GiveUpLock(r) PROVE SendLockExcludes'
  BY <1>18 DEF GiveUpLock, WorkUnchanged, Settle, convVars, claimVars,
     takerVars, clockVars
<1>19. ASSUME NEW r \in Runs, ReadLatest(r) PROVE SendLockExcludes'
  BY <1>19 DEF ReadLatest, WorkUnchanged, Settle, convVars, claimVars,
     takerVars, clockVars
<1>20. ASSUME NEW r \in Runs, CheckAndSend(r) PROVE SendLockExcludes'
  BY <1>20 DEF CheckAndSend, MayStillSend, WorkUnchanged, Settle, convVars,
     claimVars, takerVars, clockVars
<1>21. ASSUME NEW r \in Runs, SendSettles(r) PROVE SendLockExcludes'
  BY <1>21 DEF SendSettles, Acknowledged, WorkUnchanged, Settle, convVars,
     claimVars, takerVars, clockVars
<1>22. ASSUME NEW r \in Runs, SendTimeout(r) PROVE SendLockExcludes'
  BY <1>22 DEF SendTimeout, WorkUnchanged, Settle, convVars, claimVars,
     takerVars, clockVars
<1>23. ASSUME NEW r \in Runs, Unlock(r) PROVE SendLockExcludes'
  BY <1>23 DEF Unlock, Released, WorkUnchanged, Settle, convVars,
     claimVars, takerVars, clockVars
<1>24. ASSUME NEW r \in Runs, PlatformDelivers(r) PROVE SendLockExcludes'
  BY <1>24 DEF PlatformDelivers, convVars, claimVars, runVars, takerVars,
     clockVars, history
<1>25. ASSUME NEW r \in Runs, CrashRun(r) PROVE SendLockExcludes'
  BY <1>25 DEF CrashRun, Goto, convVars, claimVars, takerVars, clockVars,
     history
<1>26. ASSUME NEW t \in Takers, AgentSend(t) PROVE SendLockExcludes'
  BY <1>26 DEF AgentSend, TakerUnchanged, TakerGoto, convVars, claimVars,
     runVars, clockVars
<1>27. ASSUME NEW t \in Takers, AssignAgent(t) PROVE SendLockExcludes'
  BY <1>27 DEF AssignAgent, TakerUnchanged, TakerGoto, claimVars, runVars,
     clockVars
<1>28. ASSUME NEW t \in Takers, AssignPause(t) PROVE SendLockExcludes'
  BY <1>28 DEF AssignPause, TakerUnchanged, TakerGoto, convVars, claimVars,
     runVars, clockVars
<1>29. ASSUME NEW t \in Takers, TakerAcquire(t) PROVE SendLockExcludes'
  BY <1>29 DEF TakerAcquire, LockFree, TakerUnchanged, TakerGoto, convVars,
     claimVars, runVars, clockVars
<1>30. ASSUME NEW t \in Takers, TakerBusy(t) PROVE SendLockExcludes'
  BY <1>30 DEF TakerBusy, LockTaken, TakerUnchanged, TakerGoto, convVars,
     claimVars, runVars, clockVars
<1>31. ASSUME NEW t \in Takers, CommitPause(t) PROVE SendLockExcludes'
  BY <1>31 DEF CommitPause, Later, TakerUnchanged, TakerGoto, claimVars,
     runVars, clockVars
<1>32. ASSUME NEW t \in Takers, TakerUnlock(t) PROVE SendLockExcludes'
  BY <1>32 DEF TakerUnlock, Released, TakerUnchanged, TakerGoto, convVars,
     claimVars, runVars, clockVars
<1>33. ASSUME NEW t \in Takers, CrashTaker(t) PROVE SendLockExcludes'
  BY <1>33 DEF CrashTaker, TakerUnchanged, TakerGoto, convVars, claimVars,
     runVars, clockVars
<1>34. ASSUME EnableBot PROVE SendLockExcludes'
  BY <1>34 DEF EnableBot, Edit, claimVars, runVars, takerVars
<1>35. ASSUME DisableBot PROVE SendLockExcludes'
  BY <1>35 DEF DisableBot, Edit, claimVars, runVars, takerVars
<1>36. ASSUME DeleteConversation PROVE SendLockExcludes'
  BY <1>36 DEF DeleteConversation, Edit, runVars, takerVars
<1>37. ASSUME Tick PROVE SendLockExcludes'
  BY <1>37 DEF Tick, convVars, claimVars, runVars, takerVars, history
<1>38. CASE UNCHANGED vars
  BY <1>38 DEF vars, convVars, claimVars, runVars, takerVars, clockVars,
     history
<1>. QED BY <1>1, <1>2, <1>3, <1>4, <1>5, <1>6, <1>7, <1>8, <1>9, <1>10,
  <1>11, <1>12, <1>13, <1>14, <1>15, <1>16, <1>17, <1>18, <1>19, <1>20,
  <1>21, <1>22, <1>23, <1>24, <1>25, <1>26, <1>27, <1>28, <1>29, <1>30,
  <1>31, <1>32, <1>33, <1>34, <1>35, <1>36, <1>37, <1>38
  DEF Next, Orchestrate, Deliver, Work, TakeOver

\* No takeover is committed between a run's last read and its send.
LEMMA TakeoverStep == TypeOK /\ SendLockExcludes /\ TakeoverInv /\ [Next]_vars => TakeoverInv'
<1>. SUFFICES ASSUME TypeOK, SendLockExcludes, TakeoverInv, [Next]_vars PROVE TakeoverInv'
  OBVIOUS
<1>. USE DEF TakeoverInv, TypeOK, ConversationTypeOK, ClaimTypeOK, RunTypeOK, OtherTypeOK,
            WorkPoints, TakerPoints, SendLockExcludes, InCriticalSection, Actors
<1>1. ASSUME NEW r \in Runs, NEW m \in Messages, Lookup(r, m) PROVE TakeoverInv'
  BY <1>1 DEF Lookup, Goto, convVars, claimVars, takerVars, clockVars, history
<1>2. ASSUME NEW r \in Runs, CreateClaim(r) PROVE TakeoverInv'
  BY <1>2 DEF CreateClaim, Goto, SetClaim, ClaimFree, convVars, claimVars,
     takerVars, clockVars, history
<1>3. ASSUME NEW r \in Runs, Reply(r) PROVE TakeoverInv'
  BY <1>3 DEF Reply, Goto, Handoff, convVars, claimVars, takerVars,
     clockVars, history
<1>4. ASSUME NEW r \in Runs, DeliverLookup(r) PROVE TakeoverInv'
  BY <1>4 DEF DeliverLookup, Goto, convVars, claimVars, takerVars,
     clockVars, history
<1>5. ASSUME NEW r \in Runs, Refuse(r) PROVE TakeoverInv'
  BY <1>5 DEF Refuse, Goto, MyClaim, convVars, takerVars, clockVars, history
<1>6. ASSUME NEW r \in Runs, Reserve(r) PROVE TakeoverInv'
  BY <1>6 DEF Reserve, Goto, MyClaim, convVars, takerVars, clockVars, history
<1>7. ASSUME NEW r \in Runs, CreateBotMessage(r) PROVE TakeoverInv'
  BY <1>7 DEF CreateBotMessage, Goto, convVars, claimVars, takerVars,
     clockVars, history
<1>8. ASSUME NEW r \in Runs, WorkerResult(r) PROVE TakeoverInv'
  BY <1>8 DEF WorkerResult, Goto, convVars, claimVars, takerVars,
     clockVars, history
<1>9. ASSUME NEW r \in Runs, OuterTimeout(r) PROVE TakeoverInv'
  BY <1>9 DEF OuterTimeout, Goto, TimerRuns, convVars, claimVars,
     takerVars, clockVars, history
<1>10. ASSUME NEW r \in Runs, Persist(r) PROVE TakeoverInv'
  BY <1>10 DEF Persist, Verdict, Goto, SetClaim, MyClaim, Handoff, Outcome, Later,
     takerVars, clockVars, history
<1>11. ASSUME NEW r \in Runs, FailClaim(r) PROVE TakeoverInv'
  BY <1>11 DEF FailClaim, Goto, MyClaim, convVars, takerVars, clockVars,
     history
<1>12. ASSUME NEW r \in Runs, FailMessage(r) PROVE TakeoverInv'
  BY <1>12 DEF FailMessage, Goto, convVars, claimVars, takerVars,
     clockVars, history
<1>13. ASSUME NEW r \in Runs, FailConversation(r) PROVE TakeoverInv'
  BY <1>13 DEF FailConversation, Goto, Handoff, claimVars, takerVars,
     clockVars, history
<1>14. ASSUME NEW r \in Runs, Abandon(r) PROVE TakeoverInv'
  BY <1>14 DEF Abandon, Goto, SetClaim, MyClaim, Handoff, takerVars,
     clockVars, history
<1>15. ASSUME NEW r \in Runs, InboundFailure(r) PROVE TakeoverInv'
  BY <1>15 DEF InboundFailure, Goto, claimVars, takerVars, clockVars, history
<1>16. ASSUME NEW r \in Runs, ResolveAdapter(r) PROVE TakeoverInv'
  BY <1>16 DEF ResolveAdapter, WorkUnchanged, Settle, convVars, claimVars,
     takerVars, clockVars
<1>17. ASSUME NEW r \in Runs, AcquireLock(r) PROVE TakeoverInv'
  BY <1>17 DEF AcquireLock, LockFree, WorkUnchanged, Settle, convVars,
     claimVars, takerVars, clockVars
<1>18. ASSUME NEW r \in Runs, GiveUpLock(r) PROVE TakeoverInv'
  BY <1>18 DEF GiveUpLock, WorkUnchanged, Settle, convVars, claimVars,
     takerVars, clockVars
<1>19. ASSUME NEW r \in Runs, ReadLatest(r) PROVE TakeoverInv'
  BY <1>19 DEF ReadLatest, WorkUnchanged, Settle, convVars, claimVars,
     takerVars, clockVars
<1>20. ASSUME NEW r \in Runs, CheckAndSend(r) PROVE TakeoverInv'
  BY <1>20 DEF CheckAndSend, MayStillSend, WorkUnchanged, Settle, convVars,
     claimVars, takerVars, clockVars
<1>21. ASSUME NEW r \in Runs, SendSettles(r) PROVE TakeoverInv'
  BY <1>21 DEF SendSettles, Acknowledged, WorkUnchanged, Settle, convVars,
     claimVars, takerVars, clockVars
<1>22. ASSUME NEW r \in Runs, SendTimeout(r) PROVE TakeoverInv'
  BY <1>22 DEF SendTimeout, WorkUnchanged, Settle, convVars, claimVars,
     takerVars, clockVars
<1>23. ASSUME NEW r \in Runs, Unlock(r) PROVE TakeoverInv'
  BY <1>23 DEF Unlock, Released, WorkUnchanged, Settle, convVars,
     claimVars, takerVars, clockVars
<1>24. ASSUME NEW r \in Runs, PlatformDelivers(r) PROVE TakeoverInv'
  BY <1>24 DEF PlatformDelivers, convVars, claimVars, runVars, takerVars,
     clockVars, history
<1>25. ASSUME NEW r \in Runs, CrashRun(r) PROVE TakeoverInv'
  BY <1>25 DEF CrashRun, Goto, convVars, claimVars, takerVars, clockVars,
     history
<1>26. ASSUME NEW t \in Takers, AgentSend(t) PROVE TakeoverInv'
  BY <1>26 DEF AgentSend, TakerUnchanged, TakerGoto, convVars, claimVars,
     runVars, clockVars
<1>27. ASSUME NEW t \in Takers, AssignAgent(t) PROVE TakeoverInv'
  BY <1>27 DEF AssignAgent, TakerUnchanged, TakerGoto, claimVars, runVars,
     clockVars
<1>28. ASSUME NEW t \in Takers, AssignPause(t) PROVE TakeoverInv'
  BY <1>28 DEF AssignPause, TakerUnchanged, TakerGoto, convVars, claimVars,
     runVars, clockVars
<1>29. ASSUME NEW t \in Takers, TakerAcquire(t) PROVE TakeoverInv'
  BY <1>29 DEF TakerAcquire, LockFree, TakerUnchanged, TakerGoto, convVars,
     claimVars, runVars, clockVars
<1>30. ASSUME NEW t \in Takers, TakerBusy(t) PROVE TakeoverInv'
  BY <1>30 DEF TakerBusy, LockTaken, TakerUnchanged, TakerGoto, convVars,
     claimVars, runVars, clockVars
<1>31. ASSUME NEW t \in Takers, CommitPause(t) PROVE TakeoverInv'
  BY <1>31 DEF CommitPause, Later, TakerUnchanged, TakerGoto, claimVars,
     runVars, clockVars
<1>32. ASSUME NEW t \in Takers, TakerUnlock(t) PROVE TakeoverInv'
  BY <1>32 DEF TakerUnlock, Released, TakerUnchanged, TakerGoto, convVars,
     claimVars, runVars, clockVars
<1>33. ASSUME NEW t \in Takers, CrashTaker(t) PROVE TakeoverInv'
  BY <1>33 DEF CrashTaker, TakerUnchanged, TakerGoto, convVars, claimVars,
     runVars, clockVars
<1>34. ASSUME EnableBot PROVE TakeoverInv'
  BY <1>34 DEF EnableBot, Edit, claimVars, runVars, takerVars
<1>35. ASSUME DisableBot PROVE TakeoverInv'
  BY <1>35 DEF DisableBot, Edit, claimVars, runVars, takerVars
<1>36. ASSUME DeleteConversation PROVE TakeoverInv'
  BY <1>36 DEF DeleteConversation, Edit, runVars, takerVars
<1>37. ASSUME Tick PROVE TakeoverInv'
  BY <1>37 DEF Tick, convVars, claimVars, runVars, takerVars, history
<1>38. CASE UNCHANGED vars
  BY <1>38 DEF vars, convVars, claimVars, runVars, takerVars, clockVars,
     history
<1>. QED BY <1>1, <1>2, <1>3, <1>4, <1>5, <1>6, <1>7, <1>8, <1>9, <1>10,
  <1>11, <1>12, <1>13, <1>14, <1>15, <1>16, <1>17, <1>18, <1>19, <1>20,
  <1>21, <1>22, <1>23, <1>24, <1>25, <1>26, <1>27, <1>28, <1>29, <1>30,
  <1>31, <1>32, <1>33, <1>34, <1>35, <1>36, <1>37, <1>38
  DEF Next, Orchestrate, Deliver, Work, TakeOver

\* No step takes an undecided claim from the run that owns it.
LEMMA OwnershipStep == TypeOK /\ OwnershipInv /\ [Next]_vars => OwnershipInv'
<1>. SUFFICES ASSUME TypeOK, OwnershipInv, [Next]_vars PROVE OwnershipInv'
  OBVIOUS
<1>. USE DEF OwnershipInv, BeforeWork, MyClaim, TypeOK, ConversationTypeOK, ClaimTypeOK, RunTypeOK, OtherTypeOK,
            MainPoints, WorkPoints
<1>1. ASSUME NEW r \in Runs, NEW m \in Messages, Lookup(r, m) PROVE OwnershipInv'
  BY <1>1 DEF Lookup, Goto, convVars, claimVars, takerVars, clockVars, history
<1>2. ASSUME NEW r \in Runs, CreateClaim(r) PROVE OwnershipInv'
  BY <1>2 DEF CreateClaim, Goto, SetClaim, ClaimFree, convVars, claimVars,
     takerVars, clockVars, history
<1>3. ASSUME NEW r \in Runs, Reply(r) PROVE OwnershipInv'
  BY <1>3 DEF Reply, Goto, Handoff, convVars, claimVars, takerVars,
     clockVars, history
<1>4. ASSUME NEW r \in Runs, DeliverLookup(r) PROVE OwnershipInv'
  BY <1>4 DEF DeliverLookup, Goto, convVars, claimVars, takerVars,
     clockVars, history
<1>5. ASSUME NEW r \in Runs, Refuse(r) PROVE OwnershipInv'
  BY <1>5 DEF Refuse, Goto, MyClaim, convVars, takerVars, clockVars, history
<1>6. ASSUME NEW r \in Runs, Reserve(r) PROVE OwnershipInv'
  BY <1>6 DEF Reserve, Goto, MyClaim, convVars, takerVars, clockVars, history
<1>7. ASSUME NEW r \in Runs, CreateBotMessage(r) PROVE OwnershipInv'
  BY <1>7 DEF CreateBotMessage, Goto, convVars, claimVars, takerVars,
     clockVars, history
<1>8. ASSUME NEW r \in Runs, WorkerResult(r) PROVE OwnershipInv'
  BY <1>8 DEF WorkerResult, Goto, convVars, claimVars, takerVars,
     clockVars, history
<1>9. ASSUME NEW r \in Runs, OuterTimeout(r) PROVE OwnershipInv'
  BY <1>9 DEF OuterTimeout, Goto, TimerRuns, convVars, claimVars,
     takerVars, clockVars, history
<1>10. ASSUME NEW r \in Runs, Persist(r) PROVE OwnershipInv'
  BY <1>10 DEF Persist, Verdict, Goto, SetClaim, MyClaim, Handoff, Outcome, Later,
     takerVars, clockVars, history
<1>11. ASSUME NEW r \in Runs, FailClaim(r) PROVE OwnershipInv'
  BY <1>11 DEF FailClaim, Goto, MyClaim, convVars, takerVars, clockVars,
     history
<1>12. ASSUME NEW r \in Runs, FailMessage(r) PROVE OwnershipInv'
  BY <1>12 DEF FailMessage, Goto, convVars, claimVars, takerVars,
     clockVars, history
<1>13. ASSUME NEW r \in Runs, FailConversation(r) PROVE OwnershipInv'
  BY <1>13 DEF FailConversation, Goto, Handoff, claimVars, takerVars,
     clockVars, history
<1>14. ASSUME NEW r \in Runs, Abandon(r) PROVE OwnershipInv'
  BY <1>14 DEF Abandon, Goto, SetClaim, MyClaim, Handoff, takerVars,
     clockVars, history
<1>15. ASSUME NEW r \in Runs, InboundFailure(r) PROVE OwnershipInv'
  BY <1>15 DEF InboundFailure, Goto, claimVars, takerVars, clockVars, history
<1>16. ASSUME NEW r \in Runs, ResolveAdapter(r) PROVE OwnershipInv'
  BY <1>16 DEF ResolveAdapter, WorkUnchanged, Settle, convVars, claimVars,
     takerVars, clockVars
<1>17. ASSUME NEW r \in Runs, AcquireLock(r) PROVE OwnershipInv'
  BY <1>17 DEF AcquireLock, LockFree, WorkUnchanged, Settle, convVars,
     claimVars, takerVars, clockVars
<1>18. ASSUME NEW r \in Runs, GiveUpLock(r) PROVE OwnershipInv'
  BY <1>18 DEF GiveUpLock, WorkUnchanged, Settle, convVars, claimVars,
     takerVars, clockVars
<1>19. ASSUME NEW r \in Runs, ReadLatest(r) PROVE OwnershipInv'
  BY <1>19 DEF ReadLatest, WorkUnchanged, Settle, convVars, claimVars,
     takerVars, clockVars
<1>20. ASSUME NEW r \in Runs, CheckAndSend(r) PROVE OwnershipInv'
  BY <1>20 DEF CheckAndSend, MayStillSend, WorkUnchanged, Settle, convVars,
     claimVars, takerVars, clockVars
<1>21. ASSUME NEW r \in Runs, SendSettles(r) PROVE OwnershipInv'
  BY <1>21 DEF SendSettles, Acknowledged, WorkUnchanged, Settle, convVars,
     claimVars, takerVars, clockVars
<1>22. ASSUME NEW r \in Runs, SendTimeout(r) PROVE OwnershipInv'
  BY <1>22 DEF SendTimeout, WorkUnchanged, Settle, convVars, claimVars,
     takerVars, clockVars
<1>23. ASSUME NEW r \in Runs, Unlock(r) PROVE OwnershipInv'
  BY <1>23 DEF Unlock, Released, WorkUnchanged, Settle, convVars,
     claimVars, takerVars, clockVars
<1>24. ASSUME NEW r \in Runs, PlatformDelivers(r) PROVE OwnershipInv'
  BY <1>24 DEF PlatformDelivers, convVars, claimVars, runVars, takerVars,
     clockVars, history
<1>25. ASSUME NEW r \in Runs, CrashRun(r) PROVE OwnershipInv'
  BY <1>25 DEF CrashRun, Goto, convVars, claimVars, takerVars, clockVars,
     history
<1>26. ASSUME NEW t \in Takers, AgentSend(t) PROVE OwnershipInv'
  BY <1>26 DEF AgentSend, TakerUnchanged, TakerGoto, convVars, claimVars,
     runVars, clockVars
<1>27. ASSUME NEW t \in Takers, AssignAgent(t) PROVE OwnershipInv'
  BY <1>27 DEF AssignAgent, TakerUnchanged, TakerGoto, claimVars, runVars,
     clockVars
<1>28. ASSUME NEW t \in Takers, AssignPause(t) PROVE OwnershipInv'
  BY <1>28 DEF AssignPause, TakerUnchanged, TakerGoto, convVars, claimVars,
     runVars, clockVars
<1>29. ASSUME NEW t \in Takers, TakerAcquire(t) PROVE OwnershipInv'
  BY <1>29 DEF TakerAcquire, LockFree, TakerUnchanged, TakerGoto, convVars,
     claimVars, runVars, clockVars
<1>30. ASSUME NEW t \in Takers, TakerBusy(t) PROVE OwnershipInv'
  BY <1>30 DEF TakerBusy, LockTaken, TakerUnchanged, TakerGoto, convVars,
     claimVars, runVars, clockVars
<1>31. ASSUME NEW t \in Takers, CommitPause(t) PROVE OwnershipInv'
  BY <1>31 DEF CommitPause, Later, TakerUnchanged, TakerGoto, claimVars,
     runVars, clockVars
<1>32. ASSUME NEW t \in Takers, TakerUnlock(t) PROVE OwnershipInv'
  BY <1>32 DEF TakerUnlock, Released, TakerUnchanged, TakerGoto, convVars,
     claimVars, runVars, clockVars
<1>33. ASSUME NEW t \in Takers, CrashTaker(t) PROVE OwnershipInv'
  BY <1>33 DEF CrashTaker, TakerUnchanged, TakerGoto, convVars, claimVars,
     runVars, clockVars
<1>34. ASSUME EnableBot PROVE OwnershipInv'
  BY <1>34 DEF EnableBot, Edit, claimVars, runVars, takerVars
<1>35. ASSUME DisableBot PROVE OwnershipInv'
  BY <1>35 DEF DisableBot, Edit, claimVars, runVars, takerVars
<1>36. ASSUME DeleteConversation PROVE OwnershipInv'
  BY <1>36 DEF DeleteConversation, Edit, runVars, takerVars
<1>37. ASSUME Tick PROVE OwnershipInv'
  BY <1>37 DEF Tick, convVars, claimVars, runVars, takerVars, history
<1>38. CASE UNCHANGED vars
  BY <1>38 DEF vars, convVars, claimVars, runVars, takerVars, clockVars,
     history
<1>. QED BY <1>1, <1>2, <1>3, <1>4, <1>5, <1>6, <1>7, <1>8, <1>9, <1>10,
  <1>11, <1>12, <1>13, <1>14, <1>15, <1>16, <1>17, <1>18, <1>19, <1>20,
  <1>21, <1>22, <1>23, <1>24, <1>25, <1>26, <1>27, <1>28, <1>29, <1>30,
  <1>31, <1>32, <1>33, <1>34, <1>35, <1>36, <1>37, <1>38
  DEF Next, Orchestrate, Deliver, Work, TakeOver

\* A run that may still send works on a message nobody has answered.
LEMMA SendStep == TypeOK /\ SendLockExcludes /\ OwnershipInv /\ SendInv /\ [Next]_vars => SendInv'
<1>. SUFFICES ASSUME TypeOK, SendLockExcludes, OwnershipInv, SendInv, [Next]_vars PROVE SendInv'
  OBVIOUS
<1>. USE DEF SendInv, AtMostOneSend, CanSend, OwnershipInv, BeforeWork, MyClaim,
            TypeOK, ConversationTypeOK, ClaimTypeOK, RunTypeOK, OtherTypeOK,
            MainPoints, WorkPoints
<1>1. ASSUME NEW r \in Runs, NEW m \in Messages, Lookup(r, m) PROVE SendInv'
  BY <1>1 DEF Lookup, Goto, convVars, claimVars, takerVars, clockVars, history
<1>2. ASSUME NEW r \in Runs, CreateClaim(r) PROVE SendInv'
  BY <1>2 DEF CreateClaim, Goto, SetClaim, ClaimFree, convVars, claimVars,
     takerVars, clockVars, history
<1>3. ASSUME NEW r \in Runs, Reply(r) PROVE SendInv'
  BY <1>3 DEF Reply, Goto, Handoff, convVars, claimVars, takerVars,
     clockVars, history
<1>4. ASSUME NEW r \in Runs, DeliverLookup(r) PROVE SendInv'
  BY <1>4 DEF DeliverLookup, Goto, convVars, claimVars, takerVars,
     clockVars, history
<1>5. ASSUME NEW r \in Runs, Refuse(r) PROVE SendInv'
  BY <1>5 DEF Refuse, Goto, MyClaim, convVars, takerVars, clockVars, history
<1>6. ASSUME NEW r \in Runs, Reserve(r) PROVE SendInv'
  BY <1>6 DEF Reserve, Goto, MyClaim, convVars, takerVars, clockVars, history
<1>7. ASSUME NEW r \in Runs, CreateBotMessage(r) PROVE SendInv'
  BY <1>7 DEF CreateBotMessage, Goto, convVars, claimVars, takerVars,
     clockVars, history
<1>8. ASSUME NEW r \in Runs, WorkerResult(r) PROVE SendInv'
  BY <1>8 DEF WorkerResult, Goto, convVars, claimVars, takerVars,
     clockVars, history
<1>9. ASSUME NEW r \in Runs, OuterTimeout(r) PROVE SendInv'
  BY <1>9 DEF OuterTimeout, Goto, TimerRuns, convVars, claimVars,
     takerVars, clockVars, history
<1>10. ASSUME NEW r \in Runs, Persist(r) PROVE SendInv'
  BY <1>10 DEF Persist, Verdict, Goto, SetClaim, MyClaim, Handoff, Outcome, Later,
     takerVars, clockVars, history
<1>11. ASSUME NEW r \in Runs, FailClaim(r) PROVE SendInv'
  BY <1>11 DEF FailClaim, Goto, MyClaim, convVars, takerVars, clockVars,
     history
<1>12. ASSUME NEW r \in Runs, FailMessage(r) PROVE SendInv'
  BY <1>12 DEF FailMessage, Goto, convVars, claimVars, takerVars,
     clockVars, history
<1>13. ASSUME NEW r \in Runs, FailConversation(r) PROVE SendInv'
  BY <1>13 DEF FailConversation, Goto, Handoff, claimVars, takerVars,
     clockVars, history
<1>14. ASSUME NEW r \in Runs, Abandon(r) PROVE SendInv'
  BY <1>14 DEF Abandon, Goto, SetClaim, MyClaim, Handoff, takerVars,
     clockVars, history
<1>15. ASSUME NEW r \in Runs, InboundFailure(r) PROVE SendInv'
  BY <1>15 DEF InboundFailure, Goto, claimVars, takerVars, clockVars, history
<1>16. ASSUME NEW r \in Runs, ResolveAdapter(r) PROVE SendInv'
  BY <1>16 DEF ResolveAdapter, WorkUnchanged, Settle, convVars, claimVars,
     takerVars, clockVars
<1>17. ASSUME NEW r \in Runs, AcquireLock(r) PROVE SendInv'
  BY <1>17 DEF AcquireLock, LockFree, WorkUnchanged, Settle, convVars,
     claimVars, takerVars, clockVars
<1>18. ASSUME NEW r \in Runs, GiveUpLock(r) PROVE SendInv'
  BY <1>18 DEF GiveUpLock, WorkUnchanged, Settle, convVars, claimVars,
     takerVars, clockVars
<1>19. ASSUME NEW r \in Runs, ReadLatest(r) PROVE SendInv'
  BY <1>19 DEF ReadLatest, WorkUnchanged, Settle, convVars, claimVars,
     takerVars, clockVars
<1>20. ASSUME NEW r \in Runs, CheckAndSend(r) PROVE SendInv'
  <2>. USE DEF CheckAndSend, Settle, WorkUnchanged, convVars, claimVars, takerVars, clockVars
  <2>1. CASE ~MayStillSend(r)
    BY <1>20, <2>1
  <2>2. CASE MayStillSend(r)
    <3>1. work[r] = "check" /\ ~aborted[r] /\ CanSend(r)
      BY <1>20, <2>2 DEF MayStillSend
    <3>2. msg[r] \in Messages /\ sends[msg[r]] = 0
      BY <3>1
    <3>3. sends' = [sends EXCEPT ![msg[r]] = 1]
      BY <1>20, <2>2, <3>2
    <3>4. ASSUME NEW q \in Runs, q # r, CanSend(q) PROVE msg[q] # msg[r]
      <4>1. CASE exists
        <5>1. pc[r] = "await" /\ pc[q] = "await"
          BY <3>1, <3>4
        <5>2. claimedBy[msg[r]] = r /\ claimedBy[msg[q]] = q
          BY <4>1, <5>1
        <5>. QED BY <3>4, <5>2
      <4>2. CASE ~exists
        BY <3>1, <3>4, <4>2 DEF SendLockExcludes, InCriticalSection, Actors
      <4>. QED BY <4>1, <4>2
    <3>5. ASSUME NEW q \in Runs, CanSend(q)' PROVE q # r /\ CanSend(q)
      BY <1>20, <2>2, <3>5
    <3>6. \A q \in Runs : CanSend(q)' => sends'[msg'[q]] = 0
      BY <1>20, <3>2, <3>3, <3>4, <3>5
    <3>7. ASSUME NEW q \in Runs, exists, pc[q] \in BeforeWork \ {"idle", "found"}
          PROVE  msg[q] # msg[r]
      <4>1. claimedBy[msg[q]] = q
        BY <3>7
      <4>2. pc[r] = "await" /\ claimedBy[msg[r]] = r
        BY <3>1, <3>7
      <4>. QED BY <3>7, <4>1, <4>2
    <3>8. \A q \in Runs : exists' /\ pc'[q] \in BeforeWork \ {"idle", "found"}
                            => sends'[msg'[q]] = 0
      BY <1>20, <3>2, <3>3, <3>7
    <3>9. AtMostOneSend'
      BY <3>2, <3>3
    <3>10. \A m \in Messages : exists' /\ claim'[m] = "none" => sends'[m] = 0
      BY <1>20, <3>1, <3>2, <3>3
    <3>. QED BY <3>6, <3>8, <3>9, <3>10
  <2>. QED BY <2>1, <2>2
<1>21. ASSUME NEW r \in Runs, SendSettles(r) PROVE SendInv'
  BY <1>21 DEF SendSettles, Acknowledged, WorkUnchanged, Settle, convVars,
     claimVars, takerVars, clockVars
<1>22. ASSUME NEW r \in Runs, SendTimeout(r) PROVE SendInv'
  BY <1>22 DEF SendTimeout, WorkUnchanged, Settle, convVars, claimVars,
     takerVars, clockVars
<1>23. ASSUME NEW r \in Runs, Unlock(r) PROVE SendInv'
  BY <1>23 DEF Unlock, Released, WorkUnchanged, Settle, convVars,
     claimVars, takerVars, clockVars
<1>24. ASSUME NEW r \in Runs, PlatformDelivers(r) PROVE SendInv'
  BY <1>24 DEF PlatformDelivers, convVars, claimVars, runVars, takerVars,
     clockVars, history
<1>25. ASSUME NEW r \in Runs, CrashRun(r) PROVE SendInv'
  BY <1>25 DEF CrashRun, Goto, convVars, claimVars, takerVars, clockVars,
     history
<1>26. ASSUME NEW t \in Takers, AgentSend(t) PROVE SendInv'
  BY <1>26 DEF AgentSend, TakerUnchanged, TakerGoto, convVars, claimVars,
     runVars, clockVars
<1>27. ASSUME NEW t \in Takers, AssignAgent(t) PROVE SendInv'
  BY <1>27 DEF AssignAgent, TakerUnchanged, TakerGoto, claimVars, runVars,
     clockVars
<1>28. ASSUME NEW t \in Takers, AssignPause(t) PROVE SendInv'
  BY <1>28 DEF AssignPause, TakerUnchanged, TakerGoto, convVars, claimVars,
     runVars, clockVars
<1>29. ASSUME NEW t \in Takers, TakerAcquire(t) PROVE SendInv'
  BY <1>29 DEF TakerAcquire, LockFree, TakerUnchanged, TakerGoto, convVars,
     claimVars, runVars, clockVars
<1>30. ASSUME NEW t \in Takers, TakerBusy(t) PROVE SendInv'
  BY <1>30 DEF TakerBusy, LockTaken, TakerUnchanged, TakerGoto, convVars,
     claimVars, runVars, clockVars
<1>31. ASSUME NEW t \in Takers, CommitPause(t) PROVE SendInv'
  BY <1>31 DEF CommitPause, Later, TakerUnchanged, TakerGoto, claimVars,
     runVars, clockVars
<1>32. ASSUME NEW t \in Takers, TakerUnlock(t) PROVE SendInv'
  BY <1>32 DEF TakerUnlock, Released, TakerUnchanged, TakerGoto, convVars,
     claimVars, runVars, clockVars
<1>33. ASSUME NEW t \in Takers, CrashTaker(t) PROVE SendInv'
  BY <1>33 DEF CrashTaker, TakerUnchanged, TakerGoto, convVars, claimVars,
     runVars, clockVars
<1>34. ASSUME EnableBot PROVE SendInv'
  BY <1>34 DEF EnableBot, Edit, claimVars, runVars, takerVars
<1>35. ASSUME DisableBot PROVE SendInv'
  BY <1>35 DEF DisableBot, Edit, claimVars, runVars, takerVars
<1>36. ASSUME DeleteConversation PROVE SendInv'
  BY <1>36 DEF DeleteConversation, Edit, runVars, takerVars
<1>37. ASSUME Tick PROVE SendInv'
  BY <1>37 DEF Tick, convVars, claimVars, runVars, takerVars, history
<1>38. CASE UNCHANGED vars
  BY <1>38 DEF vars, convVars, claimVars, runVars, takerVars, clockVars,
     history
<1>. QED BY <1>1, <1>2, <1>3, <1>4, <1>5, <1>6, <1>7, <1>8, <1>9, <1>10,
  <1>11, <1>12, <1>13, <1>14, <1>15, <1>16, <1>17, <1>18, <1>19, <1>20,
  <1>21, <1>22, <1>23, <1>24, <1>25, <1>26, <1>27, <1>28, <1>29, <1>30,
  <1>31, <1>32, <1>33, <1>34, <1>35, <1>36, <1>37, <1>38
  DEF Next, Orchestrate, Deliver, Work, TakeOver

\* Nothing after a positive verdict can falsify it.
LEMMA VerdictStep == TypeOK /\ OwnershipInv /\ VerdictInv /\ [Next]_vars => VerdictInv'
<1>. SUFFICES ASSUME TypeOK, OwnershipInv, VerdictInv, [Next]_vars PROVE VerdictInv'
  OBVIOUS
<1>. USE DEF VerdictInv, OwnershipInv, BeforeWork, MyClaim,
            TypeOK, ConversationTypeOK, ClaimTypeOK, RunTypeOK, OtherTypeOK,
            MainPoints, WorkPoints
<1>1. ASSUME NEW r \in Runs, NEW m \in Messages, Lookup(r, m) PROVE VerdictInv'
  BY <1>1 DEF Lookup, Goto, convVars, claimVars, takerVars, clockVars, history
<1>2. ASSUME NEW r \in Runs, CreateClaim(r) PROVE VerdictInv'
  BY <1>2 DEF CreateClaim, Goto, SetClaim, ClaimFree, convVars, claimVars,
     takerVars, clockVars, history
<1>3. ASSUME NEW r \in Runs, Reply(r) PROVE VerdictInv'
  BY <1>3 DEF Reply, Goto, Handoff, convVars, claimVars, takerVars,
     clockVars, history
<1>4. ASSUME NEW r \in Runs, DeliverLookup(r) PROVE VerdictInv'
  BY <1>4 DEF DeliverLookup, Goto, convVars, claimVars, takerVars,
     clockVars, history
<1>5. ASSUME NEW r \in Runs, Refuse(r) PROVE VerdictInv'
  BY <1>5 DEF Refuse, Goto, MyClaim, convVars, takerVars, clockVars, history
<1>6. ASSUME NEW r \in Runs, Reserve(r) PROVE VerdictInv'
  BY <1>6 DEF Reserve, Goto, MyClaim, convVars, takerVars, clockVars, history
<1>7. ASSUME NEW r \in Runs, CreateBotMessage(r) PROVE VerdictInv'
  BY <1>7 DEF CreateBotMessage, Goto, convVars, claimVars, takerVars,
     clockVars, history
<1>8. ASSUME NEW r \in Runs, WorkerResult(r) PROVE VerdictInv'
  BY <1>8 DEF WorkerResult, Goto, convVars, claimVars, takerVars,
     clockVars, history
<1>9. ASSUME NEW r \in Runs, OuterTimeout(r) PROVE VerdictInv'
  BY <1>9 DEF OuterTimeout, Goto, TimerRuns, convVars, claimVars,
     takerVars, clockVars, history
<1>10. ASSUME NEW r \in Runs, Persist(r) PROVE VerdictInv'
  <2>. USE DEF Persist, Verdict, Goto, SetClaim, MyClaim, Handoff, takerVars, clockVars, history
  <2>1. CASE Goto(r, "failClaim") /\ UNCHANGED <<botMsg, claim>>
    BY <1>10, <2>1
  <2>2. CASE ~(Goto(r, "failClaim") /\ UNCHANGED <<botMsg, claim>>)
    <3>1. claim[msg[r]] = "processing" /\ claimedBy[msg[r]] = r /\ pc[r] = "persist"
      BY <1>10, <2>2
    <3>2. Outcome(r) # "error" => net[r] = "arrived"
      BY <3>1 DEF Outcome
    <3>3. botMsg' = [botMsg EXCEPT ![r] = IF Outcome(r) = "error" THEN "failed" ELSE "sent"]
      BY <1>10, <2>2
    <3>4. claim' = [claim EXCEPT ![msg[r]] = IF Outcome(r) = "error" THEN "failed"
                       ELSE IF Handoff(r) THEN "handed_off" ELSE "sent"]
      BY <1>10, <2>2
    <3>5. pc' = [pc EXCEPT ![r] = IF Outcome(r) = "error" THEN "inbound" ELSE "end"]
      BY <1>10, <2>2
    <3>6. \A q \in Runs : botMsg'[q] = "sent" => net'[q] = "arrived"
      BY <1>10, <3>2, <3>3
    <3>7. ASSUME NEW m \in Messages, claim'[m] \in {"sent", "handed_off"}
          PROVE  /\ claimedBy'[m] \in Runs
                 /\ botMsg'[claimedBy'[m]] = "sent"
                 /\ pc'[claimedBy'[m]] \in {"end", "crashed"}
      <4>1. CASE m = msg[r]
        BY <1>10, <3>1, <3>3, <3>4, <3>5, <3>7, <4>1
      <4>2. CASE m # msg[r]
        <5>1. claim[m] \in {"sent", "handed_off"} /\ claimedBy[m] # r
          BY <3>1, <3>4, <3>7, <4>2
        <5>. QED BY <1>10, <3>3, <3>5, <5>1
      <4>. QED BY <4>1, <4>2
    <3>8. \A q \in Runs :
            work'[q] \in {"unlock", "done"} \/ (pc'[q] = "persist" /\ ~aborted'[q])
              => result'[q] \in {"ok", "error"}
      BY <1>10, <3>5
    <3>. QED BY <1>10, <3>6, <3>7, <3>8
  <2>. QED BY <2>1, <2>2
<1>11. ASSUME NEW r \in Runs, FailClaim(r) PROVE VerdictInv'
  BY <1>11 DEF FailClaim, Goto, MyClaim, convVars, takerVars, clockVars,
     history
<1>12. ASSUME NEW r \in Runs, FailMessage(r) PROVE VerdictInv'
  BY <1>12 DEF FailMessage, Goto, convVars, claimVars, takerVars,
     clockVars, history
<1>13. ASSUME NEW r \in Runs, FailConversation(r) PROVE VerdictInv'
  BY <1>13 DEF FailConversation, Goto, Handoff, claimVars, takerVars,
     clockVars, history
<1>14. ASSUME NEW r \in Runs, Abandon(r) PROVE VerdictInv'
  BY <1>14 DEF Abandon, Goto, SetClaim, MyClaim, Handoff, takerVars,
     clockVars, history
<1>15. ASSUME NEW r \in Runs, InboundFailure(r) PROVE VerdictInv'
  BY <1>15 DEF InboundFailure, Goto, claimVars, takerVars, clockVars, history
<1>16. ASSUME NEW r \in Runs, ResolveAdapter(r) PROVE VerdictInv'
  BY <1>16 DEF ResolveAdapter, WorkUnchanged, Settle, convVars, claimVars,
     takerVars, clockVars
<1>17. ASSUME NEW r \in Runs, AcquireLock(r) PROVE VerdictInv'
  BY <1>17 DEF AcquireLock, LockFree, WorkUnchanged, Settle, convVars,
     claimVars, takerVars, clockVars
<1>18. ASSUME NEW r \in Runs, GiveUpLock(r) PROVE VerdictInv'
  BY <1>18 DEF GiveUpLock, WorkUnchanged, Settle, convVars, claimVars,
     takerVars, clockVars
<1>19. ASSUME NEW r \in Runs, ReadLatest(r) PROVE VerdictInv'
  BY <1>19 DEF ReadLatest, WorkUnchanged, Settle, convVars, claimVars,
     takerVars, clockVars
<1>20. ASSUME NEW r \in Runs, CheckAndSend(r) PROVE VerdictInv'
  <2>. USE DEF CheckAndSend, Settle, WorkUnchanged
  <2>1. work[r] = "check" /\ net[r] = "none" /\ botMsg[r] # "sent"
    BY <1>20
  <2>2. UNCHANGED <<claim, claimedBy, botMsg, pc, aborted>>
    BY <1>20 DEF claimVars
  <2>3. \A q \in Runs : net[q] = "arrived" => net'[q] = "arrived"
    BY <1>20, <2>1
  <2>4. \A q \in Runs \ {r} : work'[q] = work[q] /\ result'[q] = result[q]
    BY <1>20
  <2>5. /\ result'[r] \in {"none", "error"}
        /\ work'[r] = "unlock" => result'[r] = "error"
        /\ work'[r] # "done"
    BY <1>20
  <2>6. pc[r] = "persist" => aborted[r]
    BY <2>1
  <2>. QED BY <2>1, <2>2, <2>3, <2>4, <2>5, <2>6
<1>21. ASSUME NEW r \in Runs, SendSettles(r) PROVE VerdictInv'
  BY <1>21 DEF SendSettles, Acknowledged, WorkUnchanged, Settle, convVars,
     claimVars, takerVars, clockVars
<1>22. ASSUME NEW r \in Runs, SendTimeout(r) PROVE VerdictInv'
  BY <1>22 DEF SendTimeout, WorkUnchanged, Settle, convVars, claimVars,
     takerVars, clockVars
<1>23. ASSUME NEW r \in Runs, Unlock(r) PROVE VerdictInv'
  BY <1>23 DEF Unlock, Released, WorkUnchanged, Settle, convVars,
     claimVars, takerVars, clockVars
<1>24. ASSUME NEW r \in Runs, PlatformDelivers(r) PROVE VerdictInv'
  BY <1>24 DEF PlatformDelivers, convVars, claimVars, runVars, takerVars,
     clockVars, history
<1>25. ASSUME NEW r \in Runs, CrashRun(r) PROVE VerdictInv'
  BY <1>25 DEF CrashRun, Goto, convVars, claimVars, takerVars, clockVars,
     history
<1>26. ASSUME NEW t \in Takers, AgentSend(t) PROVE VerdictInv'
  BY <1>26 DEF AgentSend, TakerUnchanged, TakerGoto, convVars, claimVars,
     runVars, clockVars
<1>27. ASSUME NEW t \in Takers, AssignAgent(t) PROVE VerdictInv'
  BY <1>27 DEF AssignAgent, TakerUnchanged, TakerGoto, claimVars, runVars,
     clockVars
<1>28. ASSUME NEW t \in Takers, AssignPause(t) PROVE VerdictInv'
  BY <1>28 DEF AssignPause, TakerUnchanged, TakerGoto, convVars, claimVars,
     runVars, clockVars
<1>29. ASSUME NEW t \in Takers, TakerAcquire(t) PROVE VerdictInv'
  BY <1>29 DEF TakerAcquire, LockFree, TakerUnchanged, TakerGoto, convVars,
     claimVars, runVars, clockVars
<1>30. ASSUME NEW t \in Takers, TakerBusy(t) PROVE VerdictInv'
  BY <1>30 DEF TakerBusy, LockTaken, TakerUnchanged, TakerGoto, convVars,
     claimVars, runVars, clockVars
<1>31. ASSUME NEW t \in Takers, CommitPause(t) PROVE VerdictInv'
  BY <1>31 DEF CommitPause, Later, TakerUnchanged, TakerGoto, claimVars,
     runVars, clockVars
<1>32. ASSUME NEW t \in Takers, TakerUnlock(t) PROVE VerdictInv'
  BY <1>32 DEF TakerUnlock, Released, TakerUnchanged, TakerGoto, convVars,
     claimVars, runVars, clockVars
<1>33. ASSUME NEW t \in Takers, CrashTaker(t) PROVE VerdictInv'
  BY <1>33 DEF CrashTaker, TakerUnchanged, TakerGoto, convVars, claimVars,
     runVars, clockVars
<1>34. ASSUME EnableBot PROVE VerdictInv'
  BY <1>34 DEF EnableBot, Edit, claimVars, runVars, takerVars
<1>35. ASSUME DisableBot PROVE VerdictInv'
  BY <1>35 DEF DisableBot, Edit, claimVars, runVars, takerVars
<1>36. ASSUME DeleteConversation PROVE VerdictInv'
  BY <1>36 DEF DeleteConversation, Edit, runVars, takerVars
<1>37. ASSUME Tick PROVE VerdictInv'
  BY <1>37 DEF Tick, convVars, claimVars, runVars, takerVars, history
<1>38. CASE UNCHANGED vars
  BY <1>38 DEF vars, convVars, claimVars, runVars, takerVars, clockVars,
     history
<1>. QED BY <1>1, <1>2, <1>3, <1>4, <1>5, <1>6, <1>7, <1>8, <1>9, <1>10,
  <1>11, <1>12, <1>13, <1>14, <1>15, <1>16, <1>17, <1>18, <1>19, <1>20,
  <1>21, <1>22, <1>23, <1>24, <1>25, <1>26, <1>27, <1>28, <1>29, <1>30,
  <1>31, <1>32, <1>33, <1>34, <1>35, <1>36, <1>37, <1>38
  DEF Next, Orchestrate, Deliver, Work, TakeOver

-----------------------------------------------------------------------------
(* What the other steps leave alone.                                        *)

Quiet == UNCHANGED <<exists, pausedUntil, claim, sends, msg, net>>

\* The steps that change a claim, the pause, or what is on its way to the
\* customer.
Loud ==
  \/ \E r \in Runs : \/ \E m \in Messages : Lookup(r, m)
                     \/ CreateClaim(r) \/ Refuse(r) \/ Persist(r)
                     \/ FailClaim(r) \/ Abandon(r) \/ CheckAndSend(r)
                     \/ PlatformDelivers(r)
  \/ \E t \in Takers : CommitPause(t)
  \/ EnableBot \/ DeleteConversation

LEMMA StepIsQuietOrLoud == [Next]_vars => Quiet \/ Loud
<1>. SUFFICES ASSUME [Next]_vars, ~Loud PROVE Quiet
  OBVIOUS
<1>. USE DEF Quiet, Loud
<1>1. ASSUME NEW r \in Runs, Reply(r) PROVE Quiet
  BY <1>1 DEF Reply, Goto, Handoff, convVars, claimVars, takerVars,
     clockVars, history
<1>2. ASSUME NEW r \in Runs, DeliverLookup(r) PROVE Quiet
  BY <1>2 DEF DeliverLookup, Goto, convVars, claimVars, takerVars,
     clockVars, history
<1>3. ASSUME NEW r \in Runs, Reserve(r) PROVE Quiet
  BY <1>3 DEF Reserve, Goto, MyClaim, convVars, takerVars, clockVars, history
<1>4. ASSUME NEW r \in Runs, CreateBotMessage(r) PROVE Quiet
  BY <1>4 DEF CreateBotMessage, Goto, convVars, claimVars, takerVars,
     clockVars, history
<1>5. ASSUME NEW r \in Runs, WorkerResult(r) PROVE Quiet
  BY <1>5 DEF WorkerResult, Goto, convVars, claimVars, takerVars,
     clockVars, history
<1>6. ASSUME NEW r \in Runs, OuterTimeout(r) PROVE Quiet
  BY <1>6 DEF OuterTimeout, Goto, TimerRuns, convVars, claimVars,
     takerVars, clockVars, history
<1>7. ASSUME NEW r \in Runs, FailMessage(r) PROVE Quiet
  BY <1>7 DEF FailMessage, Goto, convVars, claimVars, takerVars, clockVars,
     history
<1>8. ASSUME NEW r \in Runs, FailConversation(r) PROVE Quiet
  BY <1>8 DEF FailConversation, Goto, Handoff, claimVars, takerVars,
     clockVars, history
<1>9. ASSUME NEW r \in Runs, InboundFailure(r) PROVE Quiet
  BY <1>9 DEF InboundFailure, Goto, claimVars, takerVars, clockVars, history
<1>10. ASSUME NEW r \in Runs, ResolveAdapter(r) PROVE Quiet
  BY <1>10 DEF ResolveAdapter, WorkUnchanged, Settle, convVars, claimVars,
     takerVars, clockVars
<1>11. ASSUME NEW r \in Runs, AcquireLock(r) PROVE Quiet
  BY <1>11 DEF AcquireLock, LockFree, WorkUnchanged, Settle, convVars,
     claimVars, takerVars, clockVars
<1>12. ASSUME NEW r \in Runs, GiveUpLock(r) PROVE Quiet
  BY <1>12 DEF GiveUpLock, WorkUnchanged, Settle, convVars, claimVars,
     takerVars, clockVars
<1>13. ASSUME NEW r \in Runs, ReadLatest(r) PROVE Quiet
  BY <1>13 DEF ReadLatest, WorkUnchanged, Settle, convVars, claimVars,
     takerVars, clockVars
<1>14. ASSUME NEW r \in Runs, SendSettles(r) PROVE Quiet
  BY <1>14 DEF SendSettles, Acknowledged, WorkUnchanged, Settle, convVars,
     claimVars, takerVars, clockVars
<1>15. ASSUME NEW r \in Runs, SendTimeout(r) PROVE Quiet
  BY <1>15 DEF SendTimeout, WorkUnchanged, Settle, convVars, claimVars,
     takerVars, clockVars
<1>16. ASSUME NEW r \in Runs, Unlock(r) PROVE Quiet
  BY <1>16 DEF Unlock, Released, WorkUnchanged, Settle, convVars,
     claimVars, takerVars, clockVars
<1>17. ASSUME NEW r \in Runs, CrashRun(r) PROVE Quiet
  BY <1>17 DEF CrashRun, Goto, convVars, claimVars, takerVars, clockVars,
     history
<1>18. ASSUME NEW t \in Takers, AgentSend(t) PROVE Quiet
  BY <1>18 DEF AgentSend, TakerUnchanged, TakerGoto, convVars, claimVars,
     runVars, clockVars
<1>19. ASSUME NEW t \in Takers, AssignAgent(t) PROVE Quiet
  BY <1>19 DEF AssignAgent, TakerUnchanged, TakerGoto, claimVars, runVars,
     clockVars
<1>20. ASSUME NEW t \in Takers, AssignPause(t) PROVE Quiet
  BY <1>20 DEF AssignPause, TakerUnchanged, TakerGoto, convVars, claimVars,
     runVars, clockVars
<1>21. ASSUME NEW t \in Takers, TakerAcquire(t) PROVE Quiet
  BY <1>21 DEF TakerAcquire, LockFree, TakerUnchanged, TakerGoto, convVars,
     claimVars, runVars, clockVars
<1>22. ASSUME NEW t \in Takers, TakerBusy(t) PROVE Quiet
  BY <1>22 DEF TakerBusy, LockTaken, TakerUnchanged, TakerGoto, convVars,
     claimVars, runVars, clockVars
<1>23. ASSUME NEW t \in Takers, TakerUnlock(t) PROVE Quiet
  BY <1>23 DEF TakerUnlock, Released, TakerUnchanged, TakerGoto, convVars,
     claimVars, runVars, clockVars
<1>24. ASSUME NEW t \in Takers, CrashTaker(t) PROVE Quiet
  BY <1>24 DEF CrashTaker, TakerUnchanged, TakerGoto, convVars, claimVars,
     runVars, clockVars
<1>25. ASSUME DisableBot PROVE Quiet
  BY <1>25 DEF DisableBot, Edit, claimVars, runVars, takerVars
<1>26. ASSUME Tick PROVE Quiet
  BY <1>26 DEF Tick, convVars, claimVars, runVars, takerVars, history
<1>27. CASE UNCHANGED vars
  BY <1>27 DEF vars, convVars, claimVars, runVars, takerVars, clockVars,
     history
<1>. QED BY <1>1, <1>2, <1>3, <1>4, <1>5, <1>6, <1>7, <1>8, <1>9, <1>10,
  <1>11, <1>12, <1>13, <1>14, <1>15, <1>16, <1>17, <1>18, <1>19, <1>20,
  <1>21, <1>22, <1>23, <1>24, <1>25, <1>26, <1>27
  DEF Next, Orchestrate, Deliver, Work, TakeOver

-----------------------------------------------------------------------------
(* The theorems.                                                            *)

LEMMA InductiveInit == Init => IInv
<1>. SUFFICES ASSUME Init PROVE IInv
  OBVIOUS
<1>1. TypeOK
  BY TypeInit
<1>2. SendLockExcludes
  BY DEF Init, SendLockExcludes, InCriticalSection
<1>3. TakeoverInv
  BY DEF Init, TakeoverInv
<1>4. OwnershipInv
  BY DEF Init, OwnershipInv, BeforeWork
<1>5. SendInv
  BY DEF Init, SendInv, AtMostOneSend, CanSend
<1>6. VerdictInv
  BY DEF Init, VerdictInv
<1>. QED BY <1>1, <1>2, <1>3, <1>4, <1>5, <1>6 DEF IInv

LEMMA InductiveStep == IInv /\ [Next]_vars => IInv'
  BY TypeStep, LockStep, TakeoverStep, OwnershipStep, SendStep, VerdictStep
  DEF IInv

\* The inductive invariant holds in every reachable state.
THEOREM Inductive == Spec => []IInv
<1>. QED BY InductiveInit, InductiveStep, PTL DEF Spec

\* No customer message is ever answered twice.
THEOREM AnsweredAtMostOnce == Spec => []AtMostOneSend
<1>1. IInv => AtMostOneSend
  BY DEF IInv, SendInv
<1>. QED BY <1>1, Inductive, PTL

\* The conversation send lock excludes.
THEOREM LockExcludes == Spec => []SendLockExcludes
<1>1. IInv => SendLockExcludes
  BY DEF IInv
<1>. QED BY <1>1, Inductive, PTL

\* A claim or bot message never claims a delivery that did not happen.
THEOREM VerdictsAreTrue == Spec => []VerdictIsTrue
<1>1. IInv => VerdictIsTrue
  BY DEF IInv, VerdictInv, VerdictIsTrue
<1>. QED BY <1>1, Inductive, PTL

\* Only CheckAndSend begins a send, and only under these conditions.
LEMMA SendStepBegins ==
  ASSUME IInv, [Next]_vars, NEW m \in Messages, sends'[m] # sends[m]
  PROVE  \E r \in Runs : /\ work[r] = "check"
                         /\ MayStillSend(r)
                         /\ msg[r] = m
<1>1. Loud
  BY StepIsQuietOrLoud DEF Quiet
<1>2. \E r \in Runs : CheckAndSend(r)
  BY <1>1 DEF Loud, Lookup, CreateClaim, Refuse, Persist, Verdict, FailClaim, Abandon,
     PlatformDelivers, CommitPause, TakerUnchanged, EnableBot, Edit,
     DeleteConversation, history
<1>3. PICK r \in Runs : CheckAndSend(r)
  BY <1>2
<1>4. msg[r] = m /\ MayStillSend(r)
  BY <1>3 DEF CheckAndSend, IInv, TypeOK, OtherTypeOK
<1>. QED BY <1>3, <1>4 DEF CheckAndSend

\* No bot send begins while a committed staff takeover is in force.
THEOREM TakeoverIsRespected == Spec => NoSendAfterTakeover
<1>1. IInv /\ [Next]_vars => TakeoverRespected
  <2>. SUFFICES ASSUME IInv, [Next]_vars, NEW m \in Messages,
                       sends'[m] # sends[m]
                PROVE  takeoverUntil <= now
    BY DEF TakeoverRespected
  <2>1. PICK r \in Runs : work[r] = "check" /\ MayStillSend(r)
    BY SendStepBegins
  <2>. QED BY <2>1 DEF IInv, TakeoverInv, MayStillSend, TypeOK, OtherTypeOK,
         RunTypeOK
<1>. QED BY <1>1, Inductive, PTL DEF Spec, NoSendAfterTakeover

\* No bot send begins after the verdict on its message.
THEOREM VerdictIsRespected == Spec => NoSendAfterVerdict
<1>1. IInv /\ [Next]_vars => VerdictRespected
  <2>. SUFFICES ASSUME IInv, [Next]_vars, NEW m \in Messages,
                       sends'[m] # sends[m], exists
                PROVE  claim[m] = "processing" /\ reserved[m]
    BY DEF VerdictRespected
  <2>1. PICK r \in Runs : work[r] = "check" /\ MayStillSend(r) /\ msg[r] = m
    BY SendStepBegins
  <2>2. pc[r] = "await"
    BY <2>1 DEF IInv, OwnershipInv, MayStillSend
  <2>. QED BY <2>1, <2>2 DEF IInv, OwnershipInv, MyClaim
<1>. QED BY <1>1, Inductive, PTL DEF Spec, NoSendAfterVerdict

\* A decided claim is never decided again.
THEOREM DecisionsAreFinal == Spec => ClaimIsFinal
<1>1. IInv /\ [Next]_vars => DecidedStays
  <2>. SUFFICES ASSUME IInv, [Next]_vars, NEW m \in Messages,
                       claim[m] \in {"sent", "handed_off", "failed"}
                PROVE  claim'[m] = claim[m] \/ ~exists'
    BY DEF DecidedStays
  <2>1. CASE Quiet
    BY <2>1 DEF Quiet
  <2>2. CASE Loud
    <3>. USE DEF IInv, TypeOK, ClaimTypeOK
    <3>1. ASSUME NEW r \in Runs, CreateClaim(r) PROVE claim'[m] = claim[m]
      BY <3>1 DEF CreateClaim, ClaimFree, SetClaim, claimVars
    <3>2. ASSUME NEW r \in Runs, Refuse(r) PROVE claim'[m] = claim[m]
      BY <3>2 DEF Refuse, MyClaim
    <3>3. ASSUME NEW r \in Runs, Persist(r) PROVE claim'[m] = claim[m]
      BY <3>3 DEF Persist, Verdict, MyClaim, SetClaim
    <3>4. ASSUME NEW r \in Runs, FailClaim(r) PROVE claim'[m] = claim[m]
      BY <3>4 DEF FailClaim, MyClaim
    <3>5. ASSUME NEW r \in Runs, Abandon(r) PROVE claim'[m] = claim[m]
      BY <3>5 DEF Abandon, MyClaim, SetClaim
    <3>6. CASE DeleteConversation
      BY <3>6 DEF DeleteConversation
    <3>. QED BY <2>2, <3>1, <3>2, <3>3, <3>4, <3>5, <3>6
         DEF Loud, Lookup, CheckAndSend, WorkUnchanged, PlatformDelivers,
             CommitPause, TakerUnchanged, EnableBot, claimVars
  <2>. QED BY <2>1, <2>2, StepIsQuietOrLoud
<1>. QED BY <1>1, Inductive, PTL DEF Spec, ClaimIsFinal

\* Pauses are only extended, unless the bot is re-enabled.
THEOREM PausesOnlyGrow == Spec => PauseOnlyGrows
<1>1. IInv /\ [Next]_vars => PauseGrows
  <2>. SUFFICES ASSUME IInv, [Next]_vars PROVE PauseGrows
    OBVIOUS
  <2>. USE DEF IInv, TypeOK, ConversationTypeOK, OtherTypeOK, PauseGrows
  <2>1. CASE Quiet
    BY <2>1 DEF Quiet
  <2>2. ASSUME NEW r \in Runs, Persist(r) PROVE PauseGrows
    BY <2>2 DEF Persist, Verdict, Later
  <2>3. ASSUME NEW t \in Takers, CommitPause(t) PROVE PauseGrows
    BY <2>3 DEF CommitPause, Later
  <2>4. CASE EnableBot
    BY <2>4 DEF EnableBot
  <2>. QED BY <2>1, <2>2, <2>3, <2>4, StepIsQuietOrLoud
       DEF Loud, Lookup, CreateClaim, Refuse, FailClaim, Abandon, CheckAndSend,
           WorkUnchanged, PlatformDelivers, DeleteConversation, convVars
<1>. QED BY <1>1, Inductive, PTL DEF Spec, PauseOnlyGrows

-----------------------------------------------------------------------------
(* BotReply implements CustomerReply.                                       *)

\* What a customer can receive was sent for the message of its run.
NetInv ==
  \A r \in Runs : net[r] # "none" => msg[r] \in Messages /\ sends[msg[r]] = 1

-----------------------------------------------------------------------------
\* A write to one claim is a write to one verdict.
LEMMA VerdictStepOfClaim ==
  ASSUME TypeOK, NEW m \in Messages, NEW s \in {"processing", "sent", "handed_off", "failed"},
         claim' = [claim EXCEPT ![m] = s]
  PROVE  AbsVerdict' = [AbsVerdict EXCEPT ![m] =
           IF s = "processing" THEN "working"
           ELSE IF s = "sent" \/ s = "handed_off" THEN "delivered" ELSE "failed"]
<1>. USE DEF TypeOK, ClaimTypeOK
<1>1. ASSUME NEW n \in Messages, n # m PROVE AbsVerdict'[n] = AbsVerdict[n]
  <2>1. claim'[n] = claim[n]
    BY <1>1
  <2>. QED BY <2>1 DEF AbsVerdict
<1>2. claim'[m] = s
  OBVIOUS
<1>3. AbsVerdict'[m] = IF s = "processing" THEN "working"
        ELSE IF s = "sent" \/ s = "handed_off" THEN "delivered" ELSE "failed"
  BY <1>2 DEF AbsVerdict
<1>. QED BY <1>1, <1>3 DEF AbsVerdict

-----------------------------------------------------------------------------
LEMMA NetInvInit == Init => NetInv
  BY DEF Init, NetInv

LEMMA NetInvStep == IInv /\ NetInv /\ [Next]_vars => NetInv'
<1>. SUFFICES ASSUME IInv, NetInv, [Next]_vars PROVE NetInv'
  OBVIOUS
<1>. USE DEF NetInv, IInv, TypeOK, RunTypeOK, OtherTypeOK
<1>1. CASE Quiet
  BY <1>1 DEF Quiet
<1>2. ASSUME NEW r \in Runs, NEW m \in Messages, Lookup(r, m) PROVE NetInv'
  <2>1. net[r] = "none"
    BY <1>2 DEF Lookup, OwnershipInv, BeforeWork
  <2>. QED BY <1>2, <2>1 DEF Lookup, history
<1>3. ASSUME NEW r \in Runs, CheckAndSend(r) PROVE NetInv'
  <2>1. CASE ~MayStillSend(r)
    BY <1>3, <2>1 DEF CheckAndSend, WorkUnchanged
  <2>2. CASE MayStillSend(r)
    <3>1. ~aborted[r] /\ pc[r] = "await" /\ msg[r] \in Messages
      BY <1>3, <2>2 DEF CheckAndSend, MayStillSend, OwnershipInv
    <3>2. sends[msg[r]] = 0
      BY <1>3, <3>1 DEF CheckAndSend, SendInv, CanSend
    <3>3. /\ net' = [net EXCEPT ![r] = "flying"]
          /\ sends' = [sends EXCEPT ![msg[r]] = @ + 1]
          /\ msg' = msg
      BY <1>3, <2>2 DEF CheckAndSend, WorkUnchanged
    <3>. QED BY <3>1, <3>2, <3>3
  <2>. QED BY <2>1, <2>2
<1>4. ASSUME NEW r \in Runs, PlatformDelivers(r) PROVE NetInv'
  BY <1>4 DEF PlatformDelivers, runVars, history
<1>5. CASE DeleteConversation
  BY <1>5 DEF DeleteConversation, Edit, runVars
<1>6. CASE EnableBot
  BY <1>6 DEF EnableBot, Edit, runVars
<1>7. ASSUME NEW t \in Takers, CommitPause(t) PROVE NetInv'
  BY <1>7 DEF CommitPause, TakerUnchanged, runVars
<1>. QED BY <1>1, <1>2, <1>3, <1>4, <1>5, <1>6, <1>7, StepIsQuietOrLoud
     DEF Loud, CreateClaim, Refuse, Persist, Verdict, FailClaim, Abandon, history

-----------------------------------------------------------------------------
ContractStep == [ReplyContract!Next]_ReplyContract!vars

LEMMA ContractInit == Init => ReplyContract!Init
<1>. SUFFICES ASSUME Init PROVE ReplyContract!Init
  OBVIOUS
<1>1. \A m \in Messages : claim[m] = "none"
  BY DEF Init
<1>2. AbsVerdict = [m \in Messages |-> "none"]
  BY <1>1 DEF AbsVerdict
<1>3. AbsReceived = {}
  BY DEF Init, AbsReceived
<1>. QED BY <1>2, <1>3 DEF Init, ReplyContract!Init, AbsVerdict, AbsReceived

LEMMA ContractStutter ==
  ASSUME exists' = exists, claim' = claim, sends' = sends,
         AbsReceived' = AbsReceived
  PROVE  ContractStep
<1>1. AbsVerdict' = AbsVerdict
  BY DEF AbsVerdict
<1>. QED BY <1>1 DEF ContractStep, ReplyContract!vars

\* A claim that is not decided is given up.
LEMMA ContractFails ==
  ASSUME TypeOK, NEW r \in Runs, msg[r] \in Messages, MyClaim(r),
         SetClaim(r, "failed"), exists' = exists, sends' = sends,
         AbsReceived' = AbsReceived
  PROVE  ContractStep
<1>. DEFINE m == msg[r]
<1>1. claim[m] = "processing"
  BY DEF MyClaim
<1>2. claim' = [claim EXCEPT ![m] = "failed"]
  BY DEF SetClaim
<1>3. AbsVerdict' = [AbsVerdict EXCEPT ![m] = "failed"]
  BY <1>2, VerdictStepOfClaim
<1>4. AbsVerdict[m] = "working"
  BY <1>1 DEF AbsVerdict
<1>5. ReplyContract!ReportFailed(m)
  BY <1>3, <1>4 DEF ReplyContract!ReportFailed
<1>. QED BY <1>5 DEF ContractStep, ReplyContract!Next

LEMMA CreateClaimImplements ==
  ASSUME IInv, NEW r \in Runs, CreateClaim(r)
  PROVE  ContractStep
<1>. DEFINE m == msg[r]
<1>1. m \in Messages
  BY DEF CreateClaim, IInv, OwnershipInv
<1>2. exists' = exists /\ sends' = sends /\ AbsReceived' = AbsReceived
  BY DEF CreateClaim, AbsReceived, convVars, history
<1>3. CASE claim' = claim
  BY <1>2, <1>3, ContractStutter
<1>4. CASE ClaimFree(r) /\ SetClaim(r, "processing")
  <2>1. AbsVerdict' = [AbsVerdict EXCEPT ![m] = "working"]
    BY <1>1, <1>4, VerdictStepOfClaim DEF SetClaim, IInv
  <2>2. AbsVerdict[m] = "none"
    BY <1>1, <1>4 DEF ClaimFree, AbsVerdict
  <2>3. ReplyContract!Accept(m)
    BY <1>2, <2>1, <2>2 DEF ReplyContract!Accept
  <2>. QED BY <1>1, <2>3 DEF ContractStep, ReplyContract!Next
<1>. QED BY <1>3, <1>4 DEF CreateClaim, claimVars

LEMMA RefuseImplements ==
  ASSUME IInv, NEW r \in Runs, Refuse(r)
  PROVE  ContractStep
<1>1. msg[r] \in Messages
  BY DEF Refuse, IInv, OwnershipInv
<1>2. exists' = exists /\ sends' = sends /\ AbsReceived' = AbsReceived
  BY DEF Refuse, AbsReceived, convVars, history
<1>3. claim' = claim \/ (MyClaim(r) /\ SetClaim(r, "failed"))
  BY DEF Refuse, SetClaim
<1>. QED BY <1>1, <1>2, <1>3, ContractStutter, ContractFails DEF IInv

LEMMA FailClaimImplements ==
  ASSUME IInv, NEW r \in Runs, FailClaim(r)
  PROVE  ContractStep
<1>1. msg[r] \in Messages
  BY DEF FailClaim, IInv, OwnershipInv
<1>2. exists' = exists /\ sends' = sends /\ AbsReceived' = AbsReceived
  BY DEF FailClaim, AbsReceived, convVars, history
<1>3. claim' = claim \/ (MyClaim(r) /\ SetClaim(r, "failed"))
  BY DEF FailClaim, SetClaim
<1>. QED BY <1>1, <1>2, <1>3, ContractStutter, ContractFails DEF IInv

LEMMA AbandonImplements ==
  ASSUME IInv, NEW r \in Runs, Abandon(r)
  PROVE  ContractStep
<1>1. msg[r] \in Messages
  BY DEF Abandon, IInv, OwnershipInv
<1>2. exists' = exists /\ sends' = sends /\ AbsReceived' = AbsReceived
  BY DEF Abandon, AbsReceived, history
<1>3. claim' = claim \/ (MyClaim(r) /\ SetClaim(r, "failed"))
  BY DEF Abandon
<1>. QED BY <1>1, <1>2, <1>3, ContractStutter, ContractFails DEF IInv

\* A positive verdict is only recorded of a run whose platform answered.
LEMMA PersistImplements ==
  ASSUME IInv, NEW r \in Runs, Persist(r)
  PROVE  ContractStep
<1>. DEFINE m == msg[r]
<1>1. m \in Messages
  BY DEF Persist, Verdict, IInv, OwnershipInv
<1>2. exists' = exists /\ sends' = sends /\ AbsReceived' = AbsReceived
  BY DEF Persist, Verdict, AbsReceived, history
<1>3. CASE claim' = claim
  BY <1>2, <1>3, ContractStutter
<1>4. CASE MyClaim(r) /\ SetClaim(r, "failed")
  BY <1>1, <1>2, <1>4, ContractFails DEF IInv
<1>5. CASE /\ MyClaim(r)
           /\ Outcome(r) # "error"
           /\ SetClaim(r, "handed_off") \/ SetClaim(r, "sent")
  <2>1. net[r] = "arrived"
    BY <1>5 DEF Persist, Verdict, Outcome, IInv, VerdictInv
  <2>2. m \in AbsReceived
    BY <1>1, <2>1 DEF AbsReceived
  <2>3. AbsVerdict[m] = "working"
    BY <1>1, <1>5 DEF MyClaim, AbsVerdict
  <2>4. AbsVerdict' = [AbsVerdict EXCEPT ![m] = "delivered"]
    <3>1. CASE SetClaim(r, "sent")
      BY <1>1, <3>1, VerdictStepOfClaim DEF SetClaim, IInv
    <3>2. CASE SetClaim(r, "handed_off")
      BY <1>1, <3>2, VerdictStepOfClaim DEF SetClaim, IInv
    <3>. QED BY <1>5, <3>1, <3>2
  <2>5. ReplyContract!ReportDelivered(m)
    BY <1>2, <2>2, <2>3, <2>4 DEF ReplyContract!ReportDelivered
  <2>. QED BY <1>1, <2>5 DEF ContractStep, ReplyContract!Next
<1>. QED BY <1>3, <1>4, <1>5 DEF Persist, Verdict

\* The send is the single attempt of its message.
LEMMA CheckAndSendImplements ==
  ASSUME IInv, NEW r \in Runs, CheckAndSend(r)
  PROVE  ContractStep
<1>. DEFINE m == msg[r]
<1>1. exists' = exists /\ claim' = claim /\ msg' = msg
  BY DEF CheckAndSend, WorkUnchanged, convVars, claimVars
<1>2. CASE ~MayStillSend(r)
  <2>1. sends' = sends /\ net' = net
    BY <1>2 DEF CheckAndSend
  <2>. QED BY <1>1, <2>1, ContractStutter DEF AbsReceived
<1>3. CASE MayStillSend(r)
  <2>. USE DEF IInv, TypeOK, RunTypeOK, OtherTypeOK
  <2>1. /\ work[r] = "check" /\ ~aborted[r]
        /\ net' = [net EXCEPT ![r] = "flying"]
        /\ sends' = [sends EXCEPT ![m] = @ + 1]
    BY <1>3 DEF CheckAndSend, MayStillSend
  <2>2. pc[r] = "await" /\ m \in Messages /\ net[r] = "none"
    BY <2>1 DEF OwnershipInv
  <2>3. sends[m] = 0
    BY <2>1 DEF SendInv, CanSend
  <2>4. ~exists \/ AbsVerdict[m] = "working"
    BY <2>2 DEF OwnershipInv, MyClaim, AbsVerdict
  <2>5. AbsReceived' = AbsReceived
    BY <1>1, <2>1, <2>2 DEF AbsReceived
  <2>6. AbsVerdict' = AbsVerdict
    BY <1>1 DEF AbsVerdict
  <2>7. sends' = [sends EXCEPT ![m] = 1]
    BY <2>1, <2>3
  <2>8. ReplyContract!Attempt(m)
    BY <1>1, <2>3, <2>4, <2>5, <2>6, <2>7 DEF ReplyContract!Attempt
  <2>. QED BY <2>2, <2>8 DEF ContractStep, ReplyContract!Next
<1>. QED BY <1>2, <1>3

LEMMA PlatformDeliversImplements ==
  ASSUME IInv, NetInv, NEW r \in Runs, PlatformDelivers(r)
  PROVE  ContractStep
<1>. DEFINE m == msg[r]
<1>1. m \in Messages /\ sends[m] = 1
  BY DEF PlatformDelivers, NetInv
<1>2. exists' = exists /\ claim' = claim /\ sends' = sends /\ msg' = msg
  BY DEF PlatformDelivers, convVars, claimVars, runVars, history
<1>3. AbsReceived' = AbsReceived \cup {m}
  BY <1>1, <1>2 DEF PlatformDelivers, AbsReceived, IInv, TypeOK, RunTypeOK
<1>4. AbsVerdict' = AbsVerdict
  BY <1>2 DEF AbsVerdict
<1>5. ReplyContract!Receive(m)
  BY <1>1, <1>2, <1>3, <1>4 DEF ReplyContract!Receive
<1>. QED BY <1>1, <1>5 DEF ContractStep, ReplyContract!Next

LEMMA DeleteImplements ==
  ASSUME IInv, DeleteConversation
  PROVE  ContractStep
<1>1. exists /\ exists' = FALSE /\ sends' = sends
  BY DEF DeleteConversation, Edit
<1>2. AbsReceived' = AbsReceived
  BY DEF DeleteConversation, Edit, AbsReceived, runVars
<1>3. \A m \in Messages : claim'[m] = "none"
  BY DEF DeleteConversation
<1>4. AbsVerdict' = [m \in Messages |-> "none"]
  BY <1>3 DEF AbsVerdict
<1>5. ReplyContract!Delete
  BY <1>1, <1>2, <1>4 DEF ReplyContract!Delete
<1>. QED BY <1>5 DEF ContractStep, ReplyContract!Next

\* Every step of the pipeline is one of the contract's or invisible to it.
LEMMA StepImplements == IInv /\ NetInv /\ [Next]_vars => ContractStep
<1>. SUFFICES ASSUME IInv, NetInv, [Next]_vars PROVE ContractStep
  OBVIOUS
<1>1. CASE Quiet
  BY <1>1, ContractStutter DEF Quiet, AbsReceived
<1>2. ASSUME NEW r \in Runs, NEW m \in Messages, Lookup(r, m)
      PROVE  ContractStep
  <2>1. net[r] = "none"
    BY <1>2 DEF Lookup, IInv, OwnershipInv, BeforeWork
  <2>2. AbsReceived' = AbsReceived
    BY <1>2, <2>1 DEF Lookup, AbsReceived, IInv, TypeOK, RunTypeOK
  <2>. QED BY <1>2, <2>2, ContractStutter
       DEF Lookup, convVars, claimVars, history
<1>3. ASSUME NEW t \in Takers, CommitPause(t) PROVE ContractStep
  BY <1>3, ContractStutter
     DEF CommitPause, TakerUnchanged, claimVars, runVars, AbsReceived
<1>4. CASE EnableBot
  BY <1>4, ContractStutter DEF EnableBot, Edit, claimVars, runVars, AbsReceived
<1>. QED BY <1>1, <1>2, <1>3, <1>4, StepIsQuietOrLoud, CreateClaimImplements,
     RefuseImplements, PersistImplements, FailClaimImplements,
     AbandonImplements, CheckAndSendImplements, PlatformDeliversImplements,
     DeleteImplements DEF Loud

\* The pipeline keeps its contract: for any number of runs, replays, takers
\* and messages, with crashes and failing writes, BotReply implements
\* CustomerReply.
THEOREM PipelineImplementsContract == Spec => ImplementsContract
<1>1. Spec => []NetInv
  BY NetInvInit, NetInvStep, Inductive, PTL DEF Spec
<1>. QED BY <1>1, ContractInit, StepImplements, Inductive, PTL
     DEF Spec, ImplementsContract, ReplyContract!Spec, ContractStep
=============================================================================
