----------------------- MODULE SchedulerServiceProofs -----------------------
(***************************************************************************)
(* The scheduler implements RunnerService, for every set of requests and   *)
(* models, every queue capacity and every sequence of events.              *)
(***************************************************************************)
EXTENDS SchedulerService, SchedulerProofs

\* What is in a channel after a send.
LEMMA Appended ==
    ASSUME NEW S, NEW s \in Seq(S), NEW e \in S, NEW i \in DOMAIN Append(s, e)
    PROVE  \/ Append(s, e)[i] = e /\ i = Len(s) + 1
           \/ i \in DOMAIN s /\ Append(s, e)[i] = s[i]
  OBVIOUS

\* What is in a channel after a receive.
LEMMA Received ==
    ASSUME NEW S, NEW s \in Seq(S), s # <<>>
    PROVE  /\ 1 \in DOMAIN s /\ Head(s) = s[1] /\ Head(s) \in S
           /\ \A i \in DOMAIN Tail(s) : i \in Nat /\ i + 1 \in DOMAIN s /\ i + 1 # 1 /\ Tail(s)[i] = s[i + 1]
  OBVIOUS

(***************************************************************************)
(* Steps that neither answer nor start: they leave the requests and the    *)
(* pending loop alone, and lead to no new runner.                          *)
(***************************************************************************)

Aside ==
    /\ UNCHANGED <<ask, phase, handle, pendingReqCh, pendingVars>>
    /\ \A r \in Runners : (refMu'[r] = "load") <=> (refMu[r] = "load")
    /\ \A r \in Runners : alive'[r] => alive[r]
    /\ \A r \in Runners : PointedTo(r)' => PointedTo(r)

\* The part of it that the steps of the pending loop share.
Moves ==
    /\ UNCHANGED <<ask, phase, handle, pendingReqCh>>
    /\ pReq' \in {pReq, None}
    /\ \A r \in Runners : (refMu'[r] = "load") <=> (refMu[r] = "load")
    /\ \A r \in Runners : PointedTo(r)' => PointedTo(r)

\* Such steps keep what is known of who answers whom.
LEMMA MovesInv ==
    ASSUME TypeOK, ServiceInv, Moves
    PROVE  PointersBegun' /\ QueueWaits' /\ LoopWaits' /\ LoadWaits'
<1> USE DEF ServiceInv, Moves
<1>1. /\ \A i \in DOMAIN pendingReqCh : pendingReqCh[i] \in Runners /\ pendingReqCh[i] # None
      /\ pReq # None => pReq \in Runners
  BY NoneAssumption DEF TypeOK, SchedulerType, PendingType, Runners
<1>2. PointersBegun'
  BY DEF PointersBegun, Begun
<1>3. QueueWaits' /\ LoopWaits' /\ LoadWaits'
  BY <1>1 DEF QueueWaits, LoopWaits, LoadWaits
<1>4. QED BY <1>2, <1>3

\* The steps aside keep it, too.
LEMMA AsideInv ==
    ASSUME TypeOK, ServiceInv, Aside
    PROVE  PointersBegun' /\ QueueWaits' /\ LoopWaits' /\ LoadWaits' /\ SameModel'
<1>1. Moves
  BY DEF Aside, Moves, pendingVars
<1>2. SameModel'
  BY DEF ServiceInv, Aside, SameModel, pendingVars, schedulerModelKey
<1>3. QED BY <1>1, <1>2, MovesInv

\* A send on expiredCh by whoever holds the runner's refMu.
LEMMA SendLeadsNowhere ==
    ASSUME TypeOK, NEW r \in Runners, PointedTo(r), expiredCh' = Append(expiredCh, r),
           UNCHANGED pList, NEW x \in Runners, Listed(x)'
    PROVE  PointedTo(x)
<1>1. expiredCh \in Seq(Runners)
  BY DEF TypeOK, SchedulerType
<1>2. CASE \E i \in DOMAIN expiredCh' : expiredCh'[i] = x
  <2>1. PICK i \in DOMAIN expiredCh' : expiredCh'[i] = x
    BY <1>2
  <2>2. x = r \/ \E j \in DOMAIN expiredCh : expiredCh[j] = x
    BY <1>1, <2>1, Appended
  <2>3. QED BY <2>2 DEF PointedTo, Listed
<1>3. CASE \E i \in DOMAIN pList' : pList'[i] = x
  BY <1>3 DEF PointedTo, Listed
<1>4. QED BY <1>2, <1>3 DEF Listed

\* Every send on expiredCh under refMu.
LEMMA SendAside ==
    ASSUME TypeOK, NEW r \in Runners, NEW h \in Holders \ {"free", "load"}, SendExpired(r, h),
           UNCHANGED <<loaded, ask, phase, handle, pendingReqCh, pendingVars, alive,
                       expireTimer, callbacks, retries>>,
           cRunner' \in {cRunner, None}, hRunner' \in {hRunner, None}, hTodo' \subseteq hTodo
    PROVE  Aside
<1>a. None \notin Runners /\ refMu \in [Runners -> Holders]
  BY NoneAssumption DEF Runners, TypeOK, RunnerType
<1>1. refMu[r] = h /\ PointedTo(r)
  BY DEF SendExpired, PointedTo, Scheduled
<1>2. ASSUME NEW x \in Runners, PointedTo(x)' PROVE PointedTo(x)
  <2>1. InLoaded(x)' => InLoaded(x)
    BY DEF InLoaded
  <2>2. Scheduled(x)' => Scheduled(x)
    BY <1>a DEF Scheduled, SendExpired
  <2>3. Held(x)' => Held(x)
    BY <1>a, <1>2 DEF Held, pendingVars
  <2>4. Listed(x)' => PointedTo(x)
    BY <1>1, <1>2, SendLeadsNowhere DEF SendExpired, pendingVars
  <2>5. QED BY <1>2, <2>1, <2>2, <2>3, <2>4 DEF PointedTo
<1>3. \A x \in Runners : (refMu'[x] = "load") <=> (refMu[x] = "load")
  BY <1>a, <1>1 DEF SendExpired
<1>4. QED BY <1>2, <1>3 DEF Aside

\* The timers, and the goroutines that send an expired event.
LEMMA CallbackAside ==
    ASSUME TypeOK, NEW r \in Runners,
           TimerFires(r) \/ CallbackSteps(r) \/ RetryExpired(r) \/ LoaderSendExpired(r)
    PROVE  Aside
<1>a. /\ refMu \in [Runners -> Holders] /\ callbacks \in [Runners -> Nat]
      /\ retries \in [Runners -> Nat] /\ expireTimer \in [Runners -> {"nil", "armed", "fired"}]
      /\ None \notin Runners /\ expiredCh \in Seq(Runners)
  BY NoneAssumption DEF TypeOK, RunnerType, SchedulerType, Runners
<1>1. CASE TimerFires(r)
  <2>1. \A x \in Runners : Scheduled(x)' => Scheduled(x)
    BY <1>1, <1>a DEF TimerFires, Scheduled
  <2>2. \A x \in Runners : PointedTo(x)' => PointedTo(x)
    BY <1>1, <2>1 DEF TimerFires, PointedTo, InLoaded, Held, Listed, schedState, channels,
       requestVars, pendingVars, completedVars, handlerVars
  <2>3. QED BY <1>1, <2>2 DEF TimerFires, Aside, requestVars, channels
<1>2. CASE TimerCallback(r)
  <2>1. \A x \in Runners : Scheduled(x)' => Scheduled(x)
    BY <1>2, <1>a DEF TimerCallback, Scheduled
  <2>2. \A x \in Runners : PointedTo(x)' => PointedTo(x)
    BY <1>2, <2>1 DEF TimerCallback, PointedTo, InLoaded, Held, Listed, schedState, channels,
       requestVars, pendingVars, completedVars, handlerVars
  <2>3. \A x \in Runners : (refMu'[x] = "load") <=> (refMu[x] = "load")
    BY <1>2, <1>a DEF TimerCallback
  <2>4. QED BY <1>2, <2>2, <2>3 DEF TimerCallback, Aside, requestVars, channels
<1>3. CASE TimerSendExpired(r) \/ LoaderSendExpired(r)
  <2>1. PICK h \in {"timer", "loadError"} : SendExpired(r, h)
    BY <1>3 DEF TimerSendExpired, LoaderSendExpired
  <2>2. QED BY <1>3, <2>1, SendAside DEF TimerSendExpired, LoaderSendExpired, OnlyExpiredCh,
       Holders, schedState, requestVars, completedVars, handlerVars
<1>4. CASE RetryExpired(r)
  <2>1. PointedTo(r)
    BY <1>4 DEF RetryExpired, PointedTo, Scheduled
  <2>2. \A x \in Runners : Scheduled(x)' => Scheduled(x)
    BY <1>4, <1>a DEF RetryExpired, Scheduled, OnlyExpiredCh
  <2>3. \A x \in Runners : Listed(x)' => PointedTo(x)
    BY <1>4, <2>1, SendLeadsNowhere DEF RetryExpired, OnlyExpiredCh, pendingVars
  <2>4. \A x \in Runners : (InLoaded(x)' => InLoaded(x)) /\ (Held(x)' => Held(x))
    BY <1>4 DEF RetryExpired, OnlyExpiredCh, InLoaded, Held, schedState, requestVars,
       pendingVars, completedVars, handlerVars
  <2>5. \A x \in Runners : PointedTo(x)' => PointedTo(x)
    BY <2>2, <2>3, <2>4 DEF PointedTo
  <2>6. QED BY <1>4, <2>5 DEF RetryExpired, OnlyExpiredCh, Aside, requestVars
<1>5. QED BY <1>1, <1>2, <1>3, <1>4 DEF CallbackSteps

\* The ends of requests, and the environment's events.
LEMMA EnvironmentAside ==
    ASSUME TypeOK, (\E q \in Requests : ReportFinished(q) \/ ContextDone(q)) \/ EnvironmentSteps
    PROVE  Aside
<1>a. None \notin Runners /\ alive \in [Runners -> BOOLEAN]
  BY NoneAssumption DEF TypeOK, RunnerType, Runners
<1>1. ASSUME UNCHANGED <<loaded, ask, phase, handle, expiredCh, pendingReqCh, refMu, expireTimer,
                         callbacks, retries, pendingVars, completedVars, hRunner>>,
             hTodo' \subseteq LoadedRunners \cup hTodo,
             \A x \in Runners : alive'[x] => alive[x]
      PROVE  Aside
  <2>1. \A x \in LoadedRunners : InLoaded(x)
    BY DEF LoadedRunners, LoadedKeys, InLoaded
  <2>2. \A x \in Runners : PointedTo(x)' => PointedTo(x)
    BY <1>1, <2>1 DEF PointedTo, InLoaded, Scheduled, Held, Listed, pendingVars, completedVars
  <2>3. QED BY <1>1, <2>2 DEF Aside
<1>2. CASE \E q \in Requests : ReportFinished(q) \/ ContextDone(q)
  BY <1>1, <1>2 DEF ReportFinished, ContextDone, schedState, channels, runnerState, runnerRest,
     handlerVars
<1>3. CASE StopAllModelsHandler \/ ShutdownUnload
  BY <1>1, <1>3 DEF StopAllModelsHandler, ShutdownUnload, unloadAllRunners, channels,
     requestVars, handlerVars
<1>4. CASE ShutdownCancel
  BY <1>1, <1>4 DEF ShutdownCancel, schedState, channels, runnerState, runnerRest, requestVars,
     handlerVars
<1>5. CASE \E r \in Runners : Crash(r)
  <2>1. \A x \in Runners : alive'[x] => alive[x]
    BY <1>5, <1>a DEF Crash
  <2>2. QED BY <1>1, <1>5, <2>1 DEF Crash, schedState, channels, requestVars, handlerVars
<1>6. ASSUME NEW pc, NEW todo, HandlerStarts(pc, todo), todo \subseteq LoadedRunners
      PROVE  Aside
  BY <1>1, <1>6 DEF HandlerStarts, schedState, channels, runnerState, runnerRest, requestVars
<1>7. CASE expireRunnersForRuntimeOOM
  BY <1>6, <1>7 DEF expireRunnersForRuntimeOOM
<1>8. CASE \E m \in Models : StopModelHandler(m) \/ expireRunner(m)
  <2>1. \A m \in Models : {loaded[m]} \ {None} \subseteq LoadedRunners
    BY DEF LoadedRunners, LoadedKeys
  <2>2. QED BY <1>6, <1>8, <2>1 DEF StopModelHandler, expireRunner
<1>9. QED BY <1>2, <1>3, <1>4, <1>5, <1>7, <1>8 DEF EnvironmentSteps

\* A handler that stops or expires runners.
LEMMA HandlerAside ==
    ASSUME TypeOK, HandlerSteps
    PROVE  Aside
<1>a. /\ refMu \in [Runners -> Holders] /\ alive \in [Runners -> BOOLEAN]
      /\ expireTimer \in [Runners -> {"nil", "armed", "fired"}]
      /\ None \notin Runners
  BY NoneAssumption DEF TypeOK, RunnerType, Runners
<1>1. CASE HandlerSendExpired
  <2>1. hRunner \in Runners
    BY <1>1 DEF HandlerSendExpired, TypeOK, HandlerType
  <2>2. QED BY <1>1, <2>1, SendAside DEF HandlerSendExpired, HandlerNext, OnlyExpiredCh, Holders,
       schedState, requestVars, completedVars
<1>2. ASSUME NEW r \in Runners, HandlerLock(r) PROVE Aside
  <2> USE <1>2, <1>a DEF HandlerLock
  <2>1. PointedTo(r)
    BY DEF PointedTo, Held
  <2>2. /\ \A x \in Runners : (refMu'[x] = "load") <=> (refMu[x] = "load")
        /\ \A x \in Runners : alive'[x] => alive[x]
    OBVIOUS
  <2>3. \A x \in Runners \ {r} : Scheduled(x)' => Scheduled(x)
    BY DEF Scheduled, StopTimerAndKeepAlive
  <2>4. hTodo' \subseteq hTodo /\ hRunner' \in {hRunner, None, r}
    BY DEF HandlerNext
  <2>5. \A x \in Runners \ {r} : PointedTo(x)' => PointedTo(x)
    BY <2>3, <2>4 DEF PointedTo, InLoaded, Held, Listed, schedState, channels, requestVars,
       pendingVars, completedVars
  <2>6. QED BY <2>1, <2>2, <2>5 DEF Aside, channels, requestVars
<1>3. QED BY <1>1, <1>2 DEF HandlerSteps

\* processCompleted.
LEMMA CompletedAside ==
    ASSUME TypeOK, ServiceInv, CompletedSteps
    PROVE  Aside
<1>a. /\ refMu \in [Runners -> Holders] /\ alive \in [Runners -> BOOLEAN]
      /\ expireTimer \in [Runners -> {"nil", "armed", "fired"}]
      /\ retries \in [Runners -> Nat]
      /\ None \notin Runners /\ expiredCh \in Seq(Runners)
      /\ \A q \in Requests : schedulerModelKey(q) \in Models
  BY NoneAssumption, KeyType DEF TypeOK, RunnerType, SchedulerType, Runners
<1> DEFINE Same == UNCHANGED <<ask, phase, handle, pendingReqCh, pendingVars, handlerVars>>
\* A step that changes at most the fields of cRunner, which it knows.
<1>b. ASSUME Same, UNCHANGED <<expiredCh, callbacks>>, cRunner \in Runners, cRunner' \in {cRunner, None},
             \A m \in Models : loaded'[m] \in {loaded[m], None},
             \A x \in Runners : (refMu'[x] = "load") <=> (refMu[x] = "load"),
             \A x \in Runners : alive'[x] => alive[x],
             \A x \in Runners \ {cRunner} : Scheduled(x)' => Scheduled(x)
      PROVE  Aside
  <2>1. PointedTo(cRunner)
    BY <1>b DEF PointedTo, Held
  <2>2. \A x \in Runners \ {cRunner} : InLoaded(x)' => InLoaded(x)
    BY <1>a, <1>b DEF InLoaded
  <2>3. \A x \in Runners \ {cRunner} : PointedTo(x)' => PointedTo(x)
    BY <1>a, <1>b, <2>2 DEF PointedTo, Held, Listed, pendingVars, handlerVars
  <2>4. QED BY <1>b, <2>1, <2>3 DEF Aside
<1>1. CASE CompletedReceiveFinished
  <2> DEFINE q == Head(finishedReqCh)
  <2>1. q \in Requests
    BY <1>1 DEF CompletedReceiveFinished, TypeOK, SchedulerType
  <2>2. \A x \in Runners : x = cRunner' => InLoaded(x)
    BY <1>1, <1>a, <2>1 DEF CompletedReceiveFinished, InLoaded
  <2>3. \A x \in Runners : PointedTo(x)' => PointedTo(x)
    BY <1>1, <2>2 DEF CompletedReceiveFinished, PointedTo, InLoaded, Scheduled, Held, Listed,
       schedState, runnerState, runnerRest, requestVars, pendingVars, handlerVars
  <2>4. QED BY <1>1, <2>3 DEF CompletedReceiveFinished, Aside, runnerState, runnerRest, requestVars
<1>2. CASE CompletedReceiveExpired
  <2>1. /\ \E i \in DOMAIN expiredCh : expiredCh[i] = cRunner'
        /\ \A i \in DOMAIN expiredCh' : \E j \in DOMAIN expiredCh : expiredCh[j] = expiredCh'[i]
    BY <1>2, <1>a, Received DEF CompletedReceiveExpired
  <2>2. \A x \in Runners : PointedTo(x)' => PointedTo(x)
    BY <1>2, <2>1 DEF CompletedReceiveExpired, PointedTo, InLoaded, Scheduled, Held, Listed,
       schedState, runnerState, runnerRest, requestVars, pendingVars, handlerVars
  <2>3. QED BY <1>2, <2>2 DEF CompletedReceiveExpired, Aside, runnerState, runnerRest, requestVars
<1>3. CASE CompletedExit
  <2>1. \A x \in Runners : PointedTo(x)' => PointedTo(x)
    BY <1>3 DEF CompletedExit, PointedTo, InLoaded, Scheduled, Held, Listed, schedState, channels,
       runnerState, runnerRest, requestVars, pendingVars, handlerVars
  <2>2. QED BY <1>3, <2>1 DEF CompletedExit, Aside, channels, runnerState, runnerRest, requestVars
<1>4. CASE CompletedSendExpired
  <2>1. cRunner \in Runners
    BY <1>4 DEF CompletedSendExpired, TypeOK, CompletedType
  <2>2. QED BY <1>4, <2>1, SendAside DEF CompletedSendExpired, CompletedIdle, OnlyExpiredCh, Holders,
       schedState, requestVars, handlerVars
<1>5. CASE cPc \notin {"idle", "send"}
           /\ (CompletedRelease \/ CompletedExpired \/ CompletedUnload
                \/ CompletedRecovered \/ CompletedNotify)
  <2>0. cRunner \in Runners
    BY <1>5 DEF TypeOK, CompletedType, CompletedRelease, CompletedExpired, CompletedUnload,
       CompletedRecovered, CompletedNotify
  <2>1. CASE CompletedRelease
    <3>1. /\ \A x \in Runners : (refMu'[x] = "load") <=> (refMu[x] = "load")
          /\ \A x \in Runners \ {cRunner} : Scheduled(x)' => Scheduled(x)
      BY <2>0, <2>1, <1>a DEF CompletedRelease, Scheduled, runnerRest
    <3>2. QED BY <1>b, <2>0, <2>1, <3>1 DEF CompletedRelease, CompletedIdle, runnerRest, schedState,
         channels, requestVars
  <2>2. CASE CompletedExpired
    <3>1. /\ \A x \in Runners : (refMu'[x] = "load") <=> (refMu[x] = "load")
          /\ \A x \in Runners \ {cRunner} : Scheduled(x)' => Scheduled(x)
      BY <2>0, <2>2, <1>a DEF CompletedExpired, Scheduled
    <3>2. QED BY <1>b, <2>0, <2>2, <3>1 DEF CompletedExpired, CompletedIdle, schedState, channels,
         requestVars
  <2>3. CASE CompletedUnload
    <3>1. refMu[cRunner] = "completed"
      BY <2>3 DEF CompletedUnload, ServiceInv, CompletedHolds
    <3>2. /\ \A x \in Runners : (refMu'[x] = "load") <=> (refMu[x] = "load")
          /\ \A x \in Runners : alive'[x] => alive[x]
          /\ \A x \in Runners \ {cRunner} : Scheduled(x)' => Scheduled(x)
      BY <2>0, <2>3, <3>1, <1>a DEF CompletedUnload, Scheduled, unload
    <3>3. \A m \in Models : loaded'[m] \in {loaded[m], None}
      BY <2>3 DEF CompletedUnload, TypeOK, SchedulerType
    <3>4. QED BY <1>b, <2>0, <2>3, <3>2, <3>3 DEF CompletedUnload, CompletedIdle, channels,
         requestVars
  <2>4. CASE CompletedRecovered
    <3>1. refMu[cRunner] = "completed"
      BY <2>4 DEF CompletedRecovered, ServiceInv, CompletedHolds
    <3>2. /\ \A x \in Runners : (refMu'[x] = "load") <=> (refMu[x] = "load")
          /\ \A x \in Runners \ {cRunner} : Scheduled(x)' => Scheduled(x)
      BY <2>0, <2>4, <3>1, <1>a DEF CompletedRecovered, Scheduled, runnerRest
    <3>3. QED BY <1>b, <2>0, <2>4, <3>2 DEF CompletedRecovered, runnerRest, schedState, channels,
         requestVars
  <2>5. CASE CompletedNotify
    BY <1>b, <2>0, <2>5 DEF CompletedNotify, CompletedIdle, Scheduled, runnerState, runnerRest,
       schedState, requestVars
  <2>6. QED BY <1>5, <2>1, <2>2, <2>3, <2>4, <2>5
<1>6. QED BY <1>1, <1>2, <1>3, <1>4, <1>5 DEF CompletedSteps, CompletedRelease, CompletedExpired,
     CompletedUnload, CompletedRecovered, CompletedNotify

(***************************************************************************)
(* Locks: only processCompleted gives up the refMu that it holds.          *)
(***************************************************************************)

\* Nothing leads to the request that the pending loop works on.
LEMMA LoopRequestFresh ==
    ASSUME TypeOK, ServiceInv, pReq # None
    PROVE  pReq \in Runners /\ ~PointedTo(pReq) /\ refMu[pReq] = "free"
  BY DEF TypeOK, PendingType, Runners, ServiceInv, PointersBegun, LoopWaits, Begun, PointedTo,
     Scheduled

\* A runner that processCompleted has locked is left to it by the others.
LEMMA LockKept ==
    ASSUME TypeOK, ServiceInv, NEW r \in Runners, refMu[r] = "completed",
           Next, ~CompletedSteps
    PROVE  refMu'[r] = "completed" /\ UNCHANGED completedVars
<1>a. refMu \in [Runners -> Holders]
  BY DEF TypeOK, RunnerType
<1>1. ASSUME NEW q \in Requests, RequestSteps(q) \/ ContextDone(q)
      PROVE  refMu'[r] = "completed" /\ UNCHANGED completedVars
  BY <1>1 DEF RequestSteps, GetRunner, NeedsReload, UseLoadedRunner, useLoadedRunner, Enqueue,
     ReportFinished, ContextDone, runnerState
<1>2. ASSUME NEW q \in Requests,
             LoaderSteps(q) \/ TimerFires(q) \/ CallbackSteps(q) \/ RetryExpired(q)
      PROVE  refMu'[r] = "completed" /\ UNCHANGED completedVars
  BY <1>2, <1>a DEF LoaderSteps, LoaderReady, LoaderError, LoaderSendExpired, TimerFires,
     CallbackSteps, TimerCallback, TimerSendExpired, RetryExpired, SendExpired, Runners
<1>3. CASE HandlerSteps
  BY <1>3, <1>a DEF HandlerSteps, HandlerLock, HandlerSendExpired, SendExpired, Runners
<1>4. CASE EnvironmentSteps
  BY <1>4 DEF EnvironmentSteps, StopAllModelsHandler, unloadAllRunners, ShutdownUnload,
     ShutdownCancel, Crash, StopModelHandler, expireRunner, expireRunnersForRuntimeOOM,
     HandlerStarts, runnerState
<1>5. CASE PendingSteps
  <2>1. CASE LoadInsert
    <3>1. pReq # None
      BY <2>1 DEF LoadInsert, TypeOK, PendingType
    <3>2. QED BY <1>a, <2>1, <3>1, LoopRequestFresh DEF LoadInsert
  <2>2. CASE PendingEvict \/ PendingSendExpired
    BY <1>a, <2>2 DEF PendingEvict, PendingSendExpired, SendExpired
  <2>3. CASE PendingUseLoadedRunner
    BY <2>3 DEF PendingUseLoadedRunner, useLoadedRunner
  <2>4. CASE LoadSpawn \/ LoadFailed
    BY <2>4 DEF LoadSpawn, LoadFailed
  <2>5. CASE /\ ~(LoadInsert \/ PendingEvict \/ PendingSendExpired)
             /\ ~(PendingUseLoadedRunner \/ LoadSpawn \/ LoadFailed)
    BY <1>5, <2>5 DEF PendingSteps, PendingReceive, PendingIgnoreUnload, PendingSnapshot,
       PendingNeedsReload, FindRunnerToUnload, FindIdleRunner, UpdateFreeSpace,
       LoadNoBatchConfig, LoadRefused, LoadNeedsEviction, LoadReturns, PendingUnloadCompleted,
       PendingExit, runnerState
  <2>6. QED BY <2>1, <2>2, <2>3, <2>4, <2>5
<1>6. QED BY <1>1, <1>2, <1>3, <1>4, <1>5 DEF Next

\* processCompleted holds the refMu of the runner it unloads.
LEMMA CompletedHoldsNext ==
    ASSUME TypeOK, ServiceInv, [Next]_vars
    PROVE  CompletedHolds'
<1>a. refMu \in [Runners -> Holders]
  BY DEF TypeOK, RunnerType
<1>b. cPc \notin {"idle", "exit"} => cRunner \in Runners
  BY DEF TypeOK, CompletedType
<1>1. CASE UNCHANGED vars
  BY <1>1 DEF ServiceInv, CompletedHolds, vars, completedVars
<1>2. CASE CompletedSteps
  <2>1. CASE CompletedExpired
    BY <2>1, <1>a, <1>b DEF CompletedExpired, CompletedIdle, CompletedHolds
  <2>2. CASE CompletedUnload
    BY <2>2, <1>a, <1>b DEF CompletedUnload, CompletedIdle, CompletedHolds, ServiceInv
  <2>3. CASE cPc' \notin {"unload", "recover"}
    BY <2>3 DEF CompletedHolds
  <2>4. QED BY <1>2, <2>1, <2>2, <2>3 DEF CompletedSteps, CompletedReceiveFinished, AfterLookup,
       CompletedRelease, CompletedSendExpired, CompletedReceiveExpired, CompletedRecovered,
       CompletedNotify, CompletedExit, CompletedIdle
<1>3. CASE Next /\ ~CompletedSteps
  <2>1. CASE cPc \in {"unload", "recover"}
    <3>1. refMu[cRunner] = "completed" /\ cRunner \in Runners
      BY <2>1, <1>b DEF ServiceInv, CompletedHolds
    <3>2. QED BY <1>3, <3>1, LockKept DEF CompletedHolds, completedVars
  <2>2. CASE cPc \notin {"unload", "recover"}
    <3>1. UNCHANGED cPc
      BY <1>3, StepKinds, PendingKinds DEF Bystander, completedVars
    <3>2. QED BY <2>2, <3>1 DEF CompletedHolds
  <2>3. QED BY <2>1, <2>2
<1>4. QED BY <1>1, <1>2, <1>3

(***************************************************************************)
(* Steps of the pending loop that answer nobody                            *)
(***************************************************************************)

LoopMoves ==
    \/ PendingIgnoreUnload \/ PendingSnapshot \/ PendingNeedsReload
    \/ FindRunnerToUnload \/ FindIdleRunner \/ UpdateFreeSpace
    \/ LoadNoBatchConfig \/ LoadNeedsEviction \/ LoadSpawn \/ LoadReturns
    \/ LoadFailed /\ activeLoading = None
    \/ PendingEvict \/ PendingSendExpired \/ PendingUnloadCompleted \/ PendingExit

\* Steps of the pending loop that answer nobody.
LEMMA LoopMovesInv ==
    ASSUME SchedulerInv, ServiceInv, LoopMoves
    PROVE  Moves /\ SameModel'
<1> USE DEF schedState, channels, runnerState, runnerRest, requestVars, pendingVars,
            completedVars, handlerVars
<1>a. /\ refMu \in [Runners -> Holders]
      /\ expireTimer \in [Runners -> {"nil", "armed", "fired"}]
      /\ None \notin Runners /\ pList \in Seq(Runners)
      /\ \A q \in Requests : schedulerModelKey(q) \in Models
  BY NoneAssumption, KeyType DEF SchedulerInv, TypeOK, RunnerType, PendingType, Runners
<1>b. ASSUME UNCHANGED <<loaded, ask, phase, handle, pendingReqCh, expiredCh, refMu, expireTimer,
                         callbacks, retries, completedVars, handlerVars>>,
             pReq' \in {pReq, None},
             \A x \in Runners : x = pRunner' => PointedTo(x),
             \A x \in Runners : (\E i \in DOMAIN pList' : pList'[i] = x) => PointedTo(x)
      PROVE  Moves
  <2>1. \A x \in Runners : PointedTo(x)' => PointedTo(x)
    BY <1>b DEF PointedTo, InLoaded, Scheduled, Held, Listed
  <2>2. QED BY <1>b, <2>1 DEF Moves
<1>c. /\ \A x \in Runners : x = pRunner => PointedTo(x)
      /\ \A x \in Runners : (\E i \in DOMAIN pList : pList[i] = x) => PointedTo(x)
  BY DEF PointedTo, Held, Listed
<1>d. \A x \in LoadedRunners : PointedTo(x)
  BY DEF LoadedRunners, LoadedKeys, PointedTo, InLoaded
<1>e. ASSUME UNCHANGED <<ask, handle>>, pPc' \notin {"check", "use"} PROVE SameModel'
  BY <1>e DEF ServiceInv, SameModel, schedulerModelKey
<1>1. CASE PendingIgnoreUnload \/ UpdateFreeSpace \/ LoadNeedsEviction \/ LoadReturns
           \/ PendingExit
  <2>1. Moves
    BY <1>1, <1>b, <1>c DEF PendingIgnoreUnload, UpdateFreeSpace, LoadNeedsEviction, LoadReturns,
       PendingExit
  <2>2. SameModel'
    BY <1>1, <1>e DEF PendingIgnoreUnload, UpdateFreeSpace, LoadNeedsEviction, LoadReturns,
       PendingExit
  <2>3. QED BY <2>1, <2>2
<1>2. CASE PendingUnloadCompleted \/ LoadNoBatchConfig
  <2>1. Moves
    BY <1>2, <1>a, <1>b, <1>c DEF PendingUnloadCompleted, LoadNoBatchConfig, PendingIdle
  <2>2. SameModel'
    BY <1>2, <1>e DEF PendingUnloadCompleted, LoadNoBatchConfig, PendingIdle
  <2>3. QED BY <2>1, <2>2
<1>3. CASE LoadSpawn \/ (LoadFailed /\ activeLoading = None)
  <2>1. Moves
    BY <1>3, <1>b, <1>c DEF LoadSpawn, LoadFailed
  <2>2. SameModel'
    BY <1>3, <1>e DEF LoadSpawn, LoadFailed
  <2>3. QED BY <2>1, <2>2
<1>4. CASE PendingSnapshot
  <2>1. pReq \in Requests
    BY <1>4 DEF PendingSnapshot, SchedulerInv, TypeOK, PendingType
  <2>2. \A x \in Runners : x = pRunner' => PointedTo(x)
    BY <1>4, <1>a, <2>1 DEF PendingSnapshot, PointedTo, InLoaded
  <2>3. Moves
    BY <1>4, <1>b, <1>c, <2>2 DEF PendingSnapshot
  <2>4. SameModel'
    BY <1>4, <1>a, <2>1 DEF PendingSnapshot, SchedulerInv, KeyedByModel, ServiceInv, SameModel,
       schedulerModelKey
  <2>5. QED BY <2>3, <2>4
<1>5. CASE PendingNeedsReload
  <2>1. Moves
    BY <1>5, <1>b, <1>c DEF PendingNeedsReload
  <2>2. SameModel'
    BY <1>5 DEF PendingNeedsReload, ServiceInv, SameModel, schedulerModelKey
  <2>3. QED BY <2>1, <2>2
<1>6. CASE FindRunnerToUnload
  <2>1. CASE LoadedKeys = {}
    BY <1>6, <2>1, <1>b, <1>c, <1>e DEF FindRunnerToUnload
  <2>2. CASE LoadedKeys # {}
    <3>1. /\ pList' # <<>> /\ pList' \in Seq(Runners)
          /\ \A i \in DOMAIN pList' : pList'[i] \in LoadedRunners
      BY <1>6, <2>2, SortedRunnersType DEF FindRunnerToUnload, SchedulerInv, TypeOK
    <3>2. pRunner' \in LoadedRunners
      BY <1>6, <2>2, <3>1 DEF FindRunnerToUnload
    <3>3. Moves
      BY <1>6, <1>b, <1>d, <3>1, <3>2 DEF FindRunnerToUnload
    <3>4. SameModel'
      BY <1>6, <2>2, <1>e DEF FindRunnerToUnload
    <3>5. QED BY <3>3, <3>4
  <2>3. QED BY <2>1, <2>2
<1>7. CASE FindIdleRunner
  <2>1. pList # <<>>
    BY <1>7 DEF FindIdleRunner, SchedulerInv, TypeOK, PendingType
  <2>2. /\ \E i \in DOMAIN pList : pList[i] = Head(pList)
        /\ \A i \in DOMAIN Tail(pList) : \E j \in DOMAIN pList : pList[j] = Tail(pList)[i]
    BY <1>a, <2>1, Received
  <2>3. Moves
    <3>1. pRunner' \in {pRunner, Head(pList)} /\ pList' \in {<<>>, Tail(pList)}
      BY <1>7 DEF FindIdleRunner
    <3>2. \A x \in Runners : x = pRunner' => PointedTo(x)
      BY <1>c, <2>2, <3>1
    <3>3. \A x \in Runners : (\E i \in DOMAIN pList' : pList'[i] = x) => PointedTo(x)
      BY <1>c, <2>2, <3>1
    <3>4. QED BY <1>7, <1>b, <3>2, <3>3 DEF FindIdleRunner
  <2>4. SameModel'
    BY <1>7, <1>e DEF FindIdleRunner
  <2>5. QED BY <2>3, <2>4
<1>8. CASE PendingEvict
  <2>1. pRunner \in Runners
    BY <1>8 DEF PendingEvict, SchedulerInv, TypeOK, PendingType
  <2>2. \A x \in Runners \ {pRunner} : Scheduled(x)' => Scheduled(x)
    BY <1>8, <1>a, <2>1 DEF PendingEvict, StopTimerAndKeepAlive, Scheduled
  <2>3. \A x \in Runners \ {pRunner} : PointedTo(x)' => PointedTo(x)
    BY <1>8, <2>2 DEF PendingEvict, PointedTo, InLoaded, Held, Listed
  <2>4. \A x \in Runners : (refMu'[x] = "load") <=> (refMu[x] = "load")
    BY <1>8, <1>a, <2>1 DEF PendingEvict
  <2>5. Moves
    BY <1>8, <1>c, <2>1, <2>3, <2>4 DEF PendingEvict, Moves
  <2>6. SameModel'
    BY <1>8, <1>e DEF PendingEvict
  <2>7. QED BY <2>5, <2>6
<1>9. CASE PendingSendExpired
  <2>1. pRunner \in Runners
    BY <1>9 DEF PendingSendExpired, SchedulerInv, TypeOK, PendingType
  <2>2. \A x \in Runners : Scheduled(x)' => Scheduled(x)
    BY <1>9, <1>a, <2>1 DEF PendingSendExpired, SendExpired, Scheduled
  <2>3. \A x \in Runners : Listed(x)' => PointedTo(x)
    BY <1>9, <1>c, <2>1, SendLeadsNowhere DEF PendingSendExpired, SendExpired, SchedulerInv
  <2>4. \A x \in Runners : PointedTo(x)' => PointedTo(x)
    BY <1>9, <2>2, <2>3 DEF PendingSendExpired, PointedTo, InLoaded, Held
  <2>5. \A x \in Runners : (refMu'[x] = "load") <=> (refMu[x] = "load")
    BY <1>9, <1>a, <2>1 DEF PendingSendExpired, SendExpired
  <2>6. Moves
    BY <1>9, <2>4, <2>5 DEF PendingSendExpired, Moves
  <2>7. SameModel'
    BY <1>9, <1>e DEF PendingSendExpired
  <2>8. QED BY <2>6, <2>7
<1>10. QED BY <1>1, <1>2, <1>3, <1>4, <1>5, <1>6, <1>7, <1>8, <1>9 DEF LoopMoves

(***************************************************************************)
(* Steps that answer a request                                             *)
(***************************************************************************)

\* The answer to q, which is in none of the places that could answer it again.
LEMMA AnswerInv ==
    ASSUME TypeOK, ServiceInv, NEW q \in Requests, NEW v \in {"ok", "err"},
           phase[q] \notin {"ok", "err"}, phase' = [phase EXCEPT ![q] = v],
           UNCHANGED <<ask, pendingReqCh>>,
           \A i \in DOMAIN pendingReqCh : pendingReqCh[i] # q,
           pReq' = None \/ (pReq' = pReq /\ pReq # q),
           refMu'[q] # "load",
           \A r \in Runners \ {q} : (refMu'[r] = "load") <=> (refMu[r] = "load"),
           \A r \in Runners : PointedTo(r)' => PointedTo(r)
    PROVE  PointersBegun' /\ QueueWaits' /\ LoopWaits' /\ LoadWaits'
<1> USE DEF ServiceInv
<1>1. /\ \A i \in DOMAIN pendingReqCh : pendingReqCh[i] \in Runners /\ pendingReqCh[i] # None
      /\ pReq # None => pReq \in Runners
      /\ phase \in [Requests -> Phases] /\ Runners = Requests
  BY NoneAssumption DEF TypeOK, SchedulerType, PendingType, RequestType, Runners
<1>2. PointersBegun'
  BY <1>1 DEF PointersBegun, Begun
<1>3. QueueWaits'
  BY <1>1 DEF QueueWaits
<1>4. LoopWaits' /\ LoadWaits'
  BY <1>1 DEF LoopWaits, LoadWaits
<1>5. QED BY <1>2, <1>3, <1>4

\* A request is not in the queue when its handler still works on it, or when
\* the pending loop or its load has it.
LEMMA NotQueued ==
    ASSUME ServiceInv, NEW q, phase[q] # "waiting" \/ q = pReq \/ refMu[q] = "load"
    PROVE  \A i \in DOMAIN pendingReqCh : pendingReqCh[i] # q
  BY DEF ServiceInv, QueueWaits

\* getRunner, up to the queue.
LEMMA RequestInv ==
    ASSUME SchedulerInv, ServiceInv, NEW q \in Requests,
           GetRunner(q) \/ NeedsReload(q) \/ UseLoadedRunner(q) \/ Enqueue(q)
    PROVE  PointersBegun' /\ QueueWaits' /\ LoopWaits' /\ LoadWaits' /\ SameModel'
<1> USE DEF schedState, channels, runnerState, runnerRest, requestVars, pendingVars,
            completedVars, handlerVars, SchedulerInv
<1>a. /\ phase \in [Requests -> Phases] /\ handle \in [Requests -> Runners \cup {None}]
      /\ pendingReqCh \in Seq(Requests)
      /\ expireTimer \in [Runners -> {"nil", "armed", "fired"}]
      /\ Runners = Requests /\ None \notin Requests /\ q \in Runners
      /\ \A x \in Requests : schedulerModelKey(x) \in Models
      /\ pReq # None => pReq \in Requests
  BY NoneAssumption, KeyType DEF TypeOK, RequestType, SchedulerType, RunnerType, PendingType,
     Runners
<1>b. phase[q] \in {"new", "check", "use", "enqueue"}
  BY DEF GetRunner, NeedsReload, UseLoadedRunner, Enqueue
<1>c. /\ \A i \in DOMAIN pendingReqCh : pendingReqCh[i] # q
      /\ pReq # q /\ refMu[q] # "load"
  BY <1>b, <1>a, NotQueued DEF ServiceInv, LoopWaits, LoadWaits
\* The handler goes on, and the request is still nobody else's.
<1>d. ASSUME NEW v \in {"check", "use", "enqueue"}, phase' = [phase EXCEPT ![q] = v],
             UNCHANGED <<ask, refMu, pendingReqCh, pReq>>,
             \A r \in Runners : PointedTo(r)' => PointedTo(r)
      PROVE  PointersBegun' /\ QueueWaits' /\ LoopWaits' /\ LoadWaits'
  <2>1. PointersBegun'
    BY <1>a, <1>b, <1>d DEF ServiceInv, PointersBegun, Begun
  <2>2. QueueWaits'
    BY <1>a, <1>c, <1>d DEF ServiceInv, QueueWaits
  <2>3. LoopWaits' /\ LoadWaits'
    BY <1>a, <1>c, <1>d DEF ServiceInv, LoopWaits, LoadWaits
  <2>4. QED BY <2>1, <2>2, <2>3
<1>1. CASE GetRunner(q)
  <2>1. \A x \in Runners : x = loaded[schedulerModelKey(q)] => InLoaded(x)
    BY <1>a DEF InLoaded
  <2>2. \A x \in Runners : PointedTo(x)' => PointedTo(x)
    BY <1>1, <1>a, <2>1 DEF GetRunner, PointedTo, InLoaded, Scheduled, Held, Listed
  <2>3. SameModel'
    BY <1>1, <1>a DEF GetRunner, KeyedByModel, ServiceInv, SameModel, schedulerModelKey
  <2>4. QED BY <1>1, <1>d, <2>2, <2>3 DEF GetRunner
<1>2. CASE NeedsReload(q)
  <2>1. \A x \in Runners : PointedTo(x)' => PointedTo(x)
    BY <1>2 DEF NeedsReload, PointedTo, InLoaded, Scheduled, Held, Listed
  <2>2. SameModel'
    BY <1>2 DEF NeedsReload, ServiceInv, SameModel, schedulerModelKey
  <2>3. QED BY <1>2, <1>d, <2>1, <2>2 DEF NeedsReload
<1>3. CASE UseLoadedRunner(q)
  <2>1. handle' = handle
    BY <1>3, <1>a DEF UseLoadedRunner, useLoadedRunner
  <2>2. \A x \in Runners : Scheduled(x)' => Scheduled(x)
    BY <1>3, <1>a DEF UseLoadedRunner, useLoadedRunner, Scheduled
  <2>3. \A x \in Runners : PointedTo(x)' => PointedTo(x)
    BY <1>3, <2>1, <2>2 DEF UseLoadedRunner, PointedTo, InLoaded, Held, Listed
  <2>4. SameModel'
    BY <1>3, <2>1 DEF UseLoadedRunner, ServiceInv, SameModel, schedulerModelKey
  <2>5. /\ phase' = [phase EXCEPT ![q] = "ok"]
        /\ UNCHANGED <<ask, refMu, pendingReqCh, pReq>>
    BY <1>3 DEF UseLoadedRunner, useLoadedRunner
  <2>6. QED BY <1>b, <1>c, <2>3, <2>4, <2>5, AnswerInv
<1>4. CASE Enqueue(q)
  <2>1. \A x \in Runners : PointedTo(x)' => PointedTo(x)
    BY <1>4 DEF Enqueue, PointedTo, InLoaded, Scheduled, Held, Listed
  <2>2. SameModel'
    BY <1>4 DEF Enqueue, ServiceInv, SameModel, schedulerModelKey
  <2>3. CASE ~HasRoom(pendingReqCh)
    BY <1>4, <1>b, <1>c, <2>1, <2>2, <2>3, AnswerInv DEF Enqueue
  <2>4. CASE HasRoom(pendingReqCh)
    <3>1. /\ phase' = [phase EXCEPT ![q] = "waiting"]
          /\ pendingReqCh' = Append(pendingReqCh, q)
          /\ UNCHANGED <<refMu, pReq>>
      BY <1>4, <2>4 DEF Enqueue
    <3>2. PointersBegun'
      BY <1>a, <1>b, <2>1, <3>1 DEF ServiceInv, PointersBegun, Begun
    <3>3. \A i \in DOMAIN pendingReqCh' :
              \/ pendingReqCh'[i] = q /\ i = Len(pendingReqCh) + 1
              \/ i \in DOMAIN pendingReqCh /\ pendingReqCh'[i] = pendingReqCh[i]
      BY <1>a, <3>1, Appended
    <3>4. QueueWaits'
      <4>1. ASSUME NEW i \in DOMAIN pendingReqCh'
            PROVE  /\ phase'[pendingReqCh'[i]] = "waiting"
                   /\ refMu'[pendingReqCh'[i]] # "load"
                   /\ pendingReqCh'[i] # pReq'
        BY <1>a, <1>c, <3>1, <3>3, <4>1 DEF ServiceInv, QueueWaits
      <4>2. ASSUME NEW i \in DOMAIN pendingReqCh', NEW j \in DOMAIN pendingReqCh',
                   pendingReqCh'[i] = pendingReqCh'[j]
            PROVE  i = j
        BY <1>c, <3>3, <4>2 DEF ServiceInv, QueueWaits
      <4>3. QED BY <4>1, <4>2 DEF QueueWaits
    <3>5. LoopWaits' /\ LoadWaits'
      BY <1>a, <1>c, <3>1 DEF ServiceInv, LoopWaits, LoadWaits
    <3>6. QED BY <2>2, <3>2, <3>4, <3>5
  <2>5. QED BY <2>3, <2>4
<1>5. QED BY <1>1, <1>2, <1>3, <1>4

\* The steps of the pending loop that take, answer or hand over a request.
LoopAnswers ==
    \/ PendingReceive \/ PendingUseLoadedRunner \/ LoadRefused \/ LoadInsert
    \/ LoadFailed /\ activeLoading # None

\* A step of the pending loop answers its request, or moves on.
LEMMA LoopKinds == PendingSteps => LoopMoves \/ LoopAnswers
  BY DEF PendingSteps, LoopMoves, LoopAnswers

\* Steps of the pending loop that answer its request, hand it over or take
\* the next.
LEMMA LoopAnswersInv ==
    ASSUME SchedulerInv, ServiceInv, LoopAnswers
    PROVE  PointersBegun' /\ QueueWaits' /\ LoopWaits' /\ LoadWaits' /\ SameModel'
<1> USE DEF schedState, channels, runnerState, runnerRest, requestVars, pendingVars,
            completedVars, handlerVars, SchedulerInv
<1>a. /\ phase \in [Requests -> Phases] /\ handle \in [Requests -> Runners \cup {None}]
      /\ pendingReqCh \in Seq(Requests) /\ refMu \in [Runners -> Holders]
      /\ expireTimer \in [Runners -> {"nil", "armed", "fired"}]
      /\ loaded \in [Models -> Runners \cup {None}]
      /\ Runners = Requests /\ None \notin Requests
      /\ \A x \in Requests : schedulerModelKey(x) \in Models
      /\ pReq # None => pReq \in Requests
  BY NoneAssumption, KeyType DEF TypeOK, RequestType, SchedulerType, RunnerType, PendingType,
     Runners
<1>b. pPc \notin {"idle", "exit"} => /\ pReq \in Requests /\ phase[pReq] = "waiting"
                                   /\ refMu[pReq] # "load"
                                   /\ \A i \in DOMAIN pendingReqCh : pendingReqCh[i] # pReq
  BY <1>a, NotQueued DEF TypeOK, PendingType, ServiceInv, LoopWaits
<1>1. CASE PendingReceive
  <2>1. /\ pReq' = pendingReqCh[1] /\ 1 \in DOMAIN pendingReqCh
        /\ \A i \in DOMAIN pendingReqCh' :
              i \in Nat /\ i + 1 \in DOMAIN pendingReqCh /\ i + 1 # 1
              /\ pendingReqCh'[i] = pendingReqCh[i + 1]
    BY <1>1, <1>a, Received DEF PendingReceive
  <2>2. \A x \in Runners : PointedTo(x)' => PointedTo(x)
    BY <1>1 DEF PendingReceive, PointedTo, InLoaded, Scheduled, Held, Listed
  <2>3. PointersBegun' /\ LoadWaits'
    BY <1>1, <2>2 DEF PendingReceive, ServiceInv, PointersBegun, Begun, LoadWaits
  <2>4. LoopWaits'
    BY <1>1, <2>1 DEF PendingReceive, ServiceInv, QueueWaits, LoopWaits
  <2>5. QueueWaits'
    <3>1. ASSUME NEW i \in DOMAIN pendingReqCh'
          PROVE  /\ phase'[pendingReqCh'[i]] = "waiting"
                 /\ refMu'[pendingReqCh'[i]] # "load"
                 /\ pendingReqCh'[i] # pReq'
      BY <1>1, <2>1, <3>1 DEF PendingReceive, ServiceInv, QueueWaits
    <3>2. ASSUME NEW i \in DOMAIN pendingReqCh', NEW j \in DOMAIN pendingReqCh',
                 pendingReqCh'[i] = pendingReqCh'[j]
          PROVE  i = j
      <4>1. i + 1 = j + 1
        BY <2>1, <3>2 DEF ServiceInv, QueueWaits
      <4>2. QED BY <2>1, <4>1
    <3>3. QED BY <3>1, <3>2 DEF QueueWaits
  <2>6. SameModel'
    BY <1>1 DEF PendingReceive, ServiceInv, SameModel, schedulerModelKey
  <2>7. QED BY <2>3, <2>4, <2>5, <2>6
<1>2. CASE PendingUseLoadedRunner
  <2>1. pRunner \in Runners /\ schedulerModelKey(pRunner) = schedulerModelKey(pReq)
    BY <1>2 DEF PendingUseLoadedRunner, TypeOK, PendingType, ServiceInv, SameModel
  <2>2. \A x \in Runners : Scheduled(x)' => Scheduled(x)
    BY <1>2, <1>a, <2>1 DEF PendingUseLoadedRunner, useLoadedRunner, Scheduled
  <2>3. \A x \in Runners : Held(x)' => Held(x)
    BY <1>2, <1>a, <1>b DEF PendingUseLoadedRunner, useLoadedRunner, PendingIdle, Held
  <2>4. \A x \in Runners : PointedTo(x)' => PointedTo(x)
    BY <1>2, <2>2, <2>3 DEF PendingUseLoadedRunner, PendingIdle, PointedTo, InLoaded, Listed
  <2>5. SameModel'
    BY <1>2, <1>a, <1>b, <2>1 DEF PendingUseLoadedRunner, useLoadedRunner, PendingIdle, ServiceInv,
       SameModel, schedulerModelKey
  <2>6. /\ phase' = [phase EXCEPT ![pReq] = "ok"]
        /\ UNCHANGED <<ask, refMu, pendingReqCh>> /\ pReq' = None
    BY <1>2 DEF PendingUseLoadedRunner, useLoadedRunner, PendingIdle
  <2>7. pReq \in Requests /\ phase[pReq] = "waiting" /\ refMu[pReq] # "load"
        /\ \A i \in DOMAIN pendingReqCh : pendingReqCh[i] # pReq
    BY <1>2, <1>b DEF PendingUseLoadedRunner
  <2>8. QED BY <2>4, <2>5, <2>6, <2>7, AnswerInv
<1>3. CASE LoadRefused \/ (LoadFailed /\ activeLoading # None)
  <2>1. /\ phase' = [phase EXCEPT ![pReq] = "err"]
        /\ UNCHANGED <<ask, refMu, pendingReqCh, handle, loaded, expiredCh, expireTimer,
                       callbacks, retries, completedVars, handlerVars, pList>>
        /\ pReq' = None /\ pRunner' = None /\ pPc' = "idle"
    BY <1>3 DEF LoadRefused, LoadFailed, Refuse, PendingIdle
  <2>2. pReq \in Requests /\ phase[pReq] = "waiting" /\ refMu[pReq] # "load"
        /\ \A i \in DOMAIN pendingReqCh : pendingReqCh[i] # pReq
    BY <1>3, <1>b DEF LoadRefused, LoadFailed
  <2>3. \A x \in Runners : PointedTo(x)' => PointedTo(x)
    BY <1>a, <2>1 DEF PointedTo, InLoaded, Scheduled, Held, Listed
  <2>4. SameModel'
    BY <2>1 DEF ServiceInv, SameModel, schedulerModelKey
  <2>5. QED BY <2>1, <2>2, <2>3, <2>4, AnswerInv
<1>4. CASE LoadInsert
  <2>1. /\ pReq \in Requests /\ phase[pReq] = "waiting" /\ refMu[pReq] # "load"
        /\ \A i \in DOMAIN pendingReqCh : pendingReqCh[i] # pReq
    BY <1>4, <1>b DEF LoadInsert
  <2>2. loaded[schedulerModelKey(pReq)] = None
    BY <1>4 DEF LoadInsert, SlotReserved, Inserting
  <2>3. /\ loaded' = [loaded EXCEPT ![schedulerModelKey(pReq)] = pReq]
        /\ refMu' = [refMu EXCEPT ![pReq] = "load"]
        /\ UNCHANGED <<ask, phase, pendingReqCh, handle, expiredCh, expireTimer,
                       callbacks, retries, completedVars, handlerVars, pList>>
        /\ pReq' = None /\ pRunner' = None /\ pPc' = "idle"
    BY <1>4, <2>2 DEF LoadInsert, PendingIdle
  <2>4. \A x \in Runners \ {pReq} : PointedTo(x)' => PointedTo(x)
    BY <1>a, <2>1, <2>3 DEF PointedTo, InLoaded, Scheduled, Held, Listed
  <2>5. PointersBegun'
    BY <1>a, <2>1, <2>3, <2>4 DEF ServiceInv, PointersBegun, Begun
  <2>6. QueueWaits' /\ LoopWaits' /\ LoadWaits'
    BY <1>a, <2>1, <2>3 DEF ServiceInv, QueueWaits, LoopWaits, LoadWaits
  <2>7. SameModel'
    BY <2>3 DEF ServiceInv, SameModel, schedulerModelKey
  <2>8. QED BY <2>5, <2>6, <2>7
<1>5. QED BY <1>1, <1>2, <1>3, <1>4 DEF LoopAnswers

\* The goroutine that finishes a load.
LEMMA LoaderInv ==
    ASSUME TypeOK, ServiceInv, NEW r \in Runners, LoaderReady(r) \/ LoaderError(r)
    PROVE  PointersBegun' /\ QueueWaits' /\ LoopWaits' /\ LoadWaits' /\ SameModel'
<1> USE DEF schedState, channels, runnerState, runnerRest, requestVars, pendingVars,
            completedVars, handlerVars
<1>a. /\ handle \in [Requests -> Runners \cup {None}] /\ refMu \in [Runners -> Holders]
      /\ Runners = Requests /\ r # None
  BY NoneAssumption DEF TypeOK, RequestType, RunnerType, Runners
<1>b. refMu[r] = "load"
  BY DEF LoaderReady, LoaderError
<1>1. /\ phase[r] = "waiting" /\ pReq # r
      /\ \A i \in DOMAIN pendingReqCh : pendingReqCh[i] # r
      /\ PointedTo(r)
  BY <1>a, <1>b, NotQueued DEF ServiceInv, LoadWaits, LoopWaits, PointedTo, Scheduled
<1>2. /\ \E v \in {"ok", "err"} : phase' = [phase EXCEPT ![r] = v]
      /\ handle' \in {handle, [handle EXCEPT ![r] = r]}
      /\ \E h \in {"free", "loadError"} : refMu' = [refMu EXCEPT ![r] = h]
      /\ UNCHANGED <<ask, loaded, pendingReqCh, expiredCh, expireTimer, callbacks, retries,
                     pendingVars, completedVars, handlerVars>>
  BY DEF LoaderReady, LoaderError, Refuse
<1>3. \A x \in Runners \ {r} : PointedTo(x)' => PointedTo(x)
  BY <1>a, <1>2 DEF PointedTo, InLoaded, Scheduled, Held, Listed
<1>4. SameModel'
  BY <1>a, <1>2 DEF ServiceInv, SameModel, schedulerModelKey
<1>5. PICK v \in {"ok", "err"} : phase' = [phase EXCEPT ![r] = v]
  BY <1>2
<1>6. /\ refMu'[r] # "load"
      /\ \A x \in Runners \ {r} : (refMu'[x] = "load") <=> (refMu[x] = "load")
  BY <1>a, <1>2
<1>7. QED BY <1>a, <1>1, <1>2, <1>3, <1>4, <1>5, <1>6, AnswerInv

(***************************************************************************)
(* ServiceInv is inductive, given SchedulerInv.                            *)
(***************************************************************************)

\* No request has been queued, and nothing points to a runner.
LEMMA ServiceInit == Init => ServiceInv
<1> SUFFICES ASSUME Init PROVE ServiceInv
  OBVIOUS
<1>1. PointersBegun
  BY NoneAssumption DEF Init, PointersBegun, PointedTo, InLoaded, Scheduled, Held, Listed, Runners
<1>2. QueueWaits /\ LoopWaits /\ LoadWaits /\ CompletedHolds /\ SameModel
  BY DEF Init, QueueWaits, LoopWaits, LoadWaits, CompletedHolds, SameModel
<1>3. QED BY <1>1, <1>2 DEF ServiceInv

\* Every step is one of those above.
LEMMA Kinds ==
    ASSUME SchedulerInv, ServiceInv, [Next]_vars
    PROVE  \/ UNCHANGED vars
           \/ Aside
           \/ LoopMoves
           \/ LoopAnswers
           \/ \E q \in Requests : \/ GetRunner(q) \/ NeedsReload(q) \/ UseLoadedRunner(q)
                                  \/ Enqueue(q) \/ LoaderReady(q) \/ LoaderError(q)
<1>a. TypeOK /\ Runners = Requests
  BY DEF SchedulerInv, Runners
<1>1. CASE PendingSteps BY <1>1, LoopKinds
<1>2. CASE CompletedSteps BY <1>a, <1>2, CompletedAside
<1>3. CASE HandlerSteps BY <1>a, <1>3, HandlerAside
<1>4. CASE EnvironmentSteps \/ \E q \in Requests : ReportFinished(q) \/ ContextDone(q)
  BY <1>a, <1>4, EnvironmentAside
<1>5. CASE \E r \in Requests :
              TimerFires(r) \/ CallbackSteps(r) \/ RetryExpired(r) \/ LoaderSendExpired(r)
  BY <1>a, <1>5, CallbackAside
<1>6. QED BY <1>1, <1>2, <1>3, <1>4, <1>5 DEF Next, RequestSteps, LoaderSteps

\* ServiceInv is inductive, given SchedulerInv.
LEMMA ServiceNext == SchedulerInv /\ ServiceInv /\ [Next]_vars => ServiceInv'
<1> SUFFICES ASSUME SchedulerInv, ServiceInv, [Next]_vars PROVE ServiceInv'
  OBVIOUS
<1>a. TypeOK /\ Runners = Requests
  BY DEF SchedulerInv, Runners
<1>b. CompletedHolds'
  BY <1>a, CompletedHoldsNext
<1>1. CASE Aside
  BY <1>1, <1>a, <1>b, AsideInv DEF ServiceInv
<1>2. CASE LoopMoves
  BY <1>2, <1>a, <1>b, LoopMovesInv, MovesInv DEF ServiceInv
<1>3. CASE LoopAnswers
  BY <1>3, <1>b, LoopAnswersInv DEF ServiceInv
<1>4. ASSUME NEW q \in Requests,
             GetRunner(q) \/ NeedsReload(q) \/ UseLoadedRunner(q) \/ Enqueue(q)
      PROVE  ServiceInv'
  BY <1>4, <1>b, RequestInv DEF ServiceInv
<1>5. ASSUME NEW q \in Requests, LoaderReady(q) \/ LoaderError(q) PROVE ServiceInv'
  BY <1>5, <1>a, <1>b, LoaderInv DEF ServiceInv
<1>6. CASE UNCHANGED vars
  <2>1. Aside
    BY <1>6 DEF vars, Aside, PointedTo, InLoaded, Scheduled, Held, Listed, channels, requestVars,
       pendingVars, completedVars, handlerVars
  <2>2. QED BY <1>1, <2>1
<1>7. QED BY <1>1, <1>2, <1>3, <1>4, <1>5, <1>6, Kinds

\* Who may answer a request, and with what, in every state that the scheduler
\* reaches.
THEOREM ServiceInvCorrect == Spec => []ServiceInv
<1>1. Init => SchedulerInv /\ ServiceInv
  BY SafetyInit, ServiceInit
<1>2. SchedulerInv /\ ServiceInv /\ [Next]_vars => (SchedulerInv /\ ServiceInv)'
  BY SafetyNext, ServiceNext
<1>3. QED BY <1>1, <1>2, PTL DEF Spec

(***************************************************************************)
(* Every step is a step of RunnerService, or changes nothing it sees.      *)
(***************************************************************************)

\* A process that runs belongs to a load that is past its start.
LEMMA AliveBorn ==
    ASSUME SchedulerInv, ServiceInv, NEW r \in Runners, alive[r]
    PROVE  phase[r] \in {"ok", "err"} \/ Spawned(r)
<1>1. CASE activeLoading = r
  BY <1>1, NoneAssumption DEF SchedulerInv, OwnLoad, Spawned, Runners
<1>2. CASE loaded[schedulerModelKey(r)] = r
  <2>1. schedulerModelKey(r) \in Models
    BY KeyType DEF SchedulerInv, Runners
  <2>2. Begun(r)
    BY <1>2, <2>1 DEF ServiceInv, PointersBegun, PointedTo, InLoaded
  <2>3. QED BY <2>2 DEF Begun, Spawned
<1>3. QED BY <1>1, <1>2 DEF SchedulerInv, NoOrphanProcess

\* The state of a process, as the service sees it.
LEMMA ProcessValues ==
    ASSUME SchedulerInv, ServiceInv, NEW r \in Runners
    PROVE  /\ alive[r] => processOf[r] = "running"
           /\ ~alive[r] /\ (phase[r] \in {"ok", "err"} \/ Spawned(r)) => processOf[r] = "gone"
           /\ ~(phase[r] \in {"ok", "err"} \/ Spawned(r)) => processOf[r] = "absent" /\ ~alive[r]
  BY AliveBorn DEF processOf

\* A step that answers nobody and starts nothing: processes may end.
LEMMA EndsRefine ==
    ASSUME SchedulerInv, ServiceInv, UNCHANGED <<ask, phase>>,
           \A q \in Requests : phase[q] = "ok" => handle'[q] = handle[q],
           \A r \in Runners : Spawned(r)' <=> Spawned(r),
           \A r \in Runners : alive'[r] => alive[r]
    PROVE  [Service!Next]_(Service!vars)
<1>a. Runners = Requests
  BY DEF Runners
<1>1. wantedOf' = wantedOf /\ answerOf' = answerOf
  BY DEF wantedOf, answerOf
<1> DEFINE ended == {r \in Requests : alive[r] /\ ~alive'[r]}
<1>2. \A r \in Requests : r \in ended => processOf[r] = "running"
  BY <1>a, ProcessValues
<1>3. \A r \in Requests : processOf'[r] = IF r \in ended THEN "gone" ELSE processOf[r]
  BY <1>a, AliveBorn DEF processOf
<1>4. processOf' = [r \in Requests |-> IF r \in ended THEN "gone" ELSE processOf[r]]
  BY <1>a, <1>3 DEF processOf
<1>5. Service!Stop(ended)
  BY <1>1, <1>2, <1>4 DEF Service!Stop, Service!Running
<1>6. QED BY <1>5 DEF Service!Next

\* The processes that run when the pending loop starts one.
LEMMA RunningLoaded ==
    ASSUME SchedulerInv, ServiceInv, pPc = "load"
    PROVE  /\ Service!Running \subseteq LoadedRunners
           /\ IsFiniteSet(Service!Running)
           /\ Cardinality(Service!Running) < maxRunners
<1>1. activeLoading = None
  BY DEF SchedulerInv, OwnLoad
<1>2. Service!Running \subseteq LoadedRunners
  <2>1. SUFFICES ASSUME NEW r \in Requests, processOf[r] = "running" PROVE r \in LoadedRunners
    BY DEF Service!Running
  <2>2. alive[r] /\ r \in Runners
    BY <2>1, ProcessValues DEF Runners
  <2>3. loaded[schedulerModelKey(r)] = r /\ schedulerModelKey(r) \in Models
    BY <1>1, <2>2, NoneAssumption, KeyType DEF SchedulerInv, NoOrphanProcess, Runners
  <2>4. QED BY <2>3, NoneAssumption DEF LoadedRunners, LoadedKeys
<1>3. SchedulerType
  BY DEF SchedulerInv, TypeOK
<1>4. /\ IsFiniteSet(LoadedKeys) /\ IsFiniteSet(LoadedRunners)
  BY <1>3, LoadedFinite
<1>5. Cardinality(LoadedRunners) <= Cardinality(LoadedKeys)
  <2> DEFINE f == [m \in LoadedKeys |-> loaded[m]]
  <2>1. f \in Surjection(LoadedKeys, LoadedRunners)
    BY DEF Surjection, LoadedRunners
  <2>2. QED BY <1>4, <2>1, FS_Surjection
<1>6. /\ IsFiniteSet(Service!Running)
      /\ Cardinality(Service!Running) <= Cardinality(LoadedRunners)
  BY <1>2, <1>4, FS_Subset
<1>7. Cardinality(LoadedKeys) < maxRunners
  BY DEF SchedulerInv, SlotReserved, Inserting
<1>8. /\ Cardinality(Service!Running) \in Nat /\ Cardinality(LoadedRunners) \in Nat
      /\ Cardinality(LoadedKeys) \in Nat
  BY <1>4, <1>6, FS_CardinalityType
<1>9. QED BY <1>2, <1>5, <1>6, <1>7, <1>8 DEF maxRunners

\* newServerFn starts a process where the service may: Start.
LEMMA SpawnRefines ==
    ASSUME SchedulerInv, ServiceInv, LoadSpawn
    PROVE  [Service!Next]_(Service!vars)
<1> USE DEF LoadSpawn, requestVars
<1>a. /\ pReq \in Requests /\ Runners = Requests /\ alive \in [Runners -> BOOLEAN]
      /\ phase[pReq] = "waiting" /\ refMu[pReq] # "load"
  BY NoneAssumption
     DEF SchedulerInv, TypeOK, PendingType, RunnerType, Runners, ServiceInv, LoopWaits
<1>1. wantedOf' = wantedOf /\ answerOf' = answerOf /\ answerOf[pReq] = "waiting"
  BY <1>a DEF wantedOf, answerOf
<1>2. ~Spawned(pReq)
  BY <1>a DEF Spawned
<1>3. processOf[pReq] = "absent"
  BY <1>a, <1>2, ProcessValues
<1>4. \A r \in Requests : processOf'[r] = IF r = pReq THEN "running" ELSE processOf[r]
  BY <1>a, AliveBorn DEF processOf, Spawned
<1>5. processOf' = [processOf EXCEPT ![pReq] = "running"]
  BY <1>a, <1>4 DEF processOf
<1>6. Cardinality(Service!Running) < maxRunners
  BY RunningLoaded
<1>7. wantedOf[pReq].gpus => Service!Running = {}
  <2>1. SUFFICES ASSUME ask[pReq].gpus PROVE Service!Running = {}
    BY <1>a DEF wantedOf
  <2>2. LoadedRunners = {}
    BY <2>1 DEF MustEvict, LoadedRunners
  <2>3. QED BY <2>2, RunningLoaded
<1>8. Service!Start(pReq)
  BY <1>1, <1>3, <1>5, <1>6, <1>7 DEF Service!Start, RoomBeside
<1>9. QED BY <1>a, <1>8 DEF Service!Next

\* The steps of the pending loop that only the loop sees.
LEMMA LoopMovesRefine ==
    ASSUME SchedulerInv, ServiceInv, LoopMoves
    PROVE  [Service!Next]_(Service!vars)
<1>a. Moves
  BY LoopMovesInv
<1>1. CASE LoadSpawn
  BY <1>1, SpawnRefines
<1>2. CASE ~LoadSpawn
  <2>1. UNCHANGED alive
    BY <1>2 DEF LoopMoves, PendingIgnoreUnload, PendingSnapshot, PendingNeedsReload,
       FindRunnerToUnload, FindIdleRunner, UpdateFreeSpace, LoadNoBatchConfig, LoadNeedsEviction,
       LoadReturns, LoadFailed, PendingEvict, PendingSendExpired, PendingUnloadCompleted,
       PendingExit, runnerState, runnerRest
  <2>2. \/ /\ pPc \notin {"loading", "loadFailed", "insert"}
           /\ pPc' \notin {"loading", "loadFailed", "insert"}
        \/ /\ pPc \in {"loading", "loadFailed", "insert"}
           /\ pPc' \in {"loading", "loadFailed", "insert"}
           /\ UNCHANGED pReq
    BY <1>2 DEF LoopMoves, PendingIgnoreUnload, PendingSnapshot, PendingNeedsReload,
       FindRunnerToUnload, FindIdleRunner, UpdateFreeSpace, LoadNoBatchConfig, LoadNeedsEviction,
       LoadReturns, LoadFailed, PendingEvict, PendingSendExpired, PendingUnloadCompleted,
       PendingExit, PendingIdle, pendingVars
  <2>3. \A r \in Runners : Spawned(r)' <=> Spawned(r)
    BY <1>a, <2>2 DEF Spawned, Moves
  <2>4. QED BY <1>a, <2>1, <2>3, EndsRefine DEF Moves
<1>3. QED BY <1>1, <1>2

\* A request of the queue or of a handler that gets an error, or a runner of
\* another request: its own process is never started.
LEMMA SettledRefine ==
    ASSUME SchedulerInv, ServiceInv, NEW q \in Requests, NEW v \in {"ok", "err"},
           phase[q] \notin {"ok", "err"}, ~Spawned(q),
           phase' = [phase EXCEPT ![q] = v],
           UNCHANGED <<ask, alive>>,
           \A r \in Requests \ {q} : handle'[r] = handle[r],
           \A r \in Requests \ {q} : Spawned(r)' <=> Spawned(r),
           v = "ok" => /\ handle'[q] \in Requests /\ Begun(handle'[q])
                       /\ schedulerModelKey(handle'[q]) = schedulerModelKey(q)
    PROVE  [Service!Next]_(Service!vars)
<1>a. Runners = Requests /\ phase \in [Requests -> Phases]
  BY DEF Runners, SchedulerInv, TypeOK, RequestType
<1>1. /\ wantedOf' = wantedOf /\ answerOf[q] = "waiting"
      /\ answerOf' = [answerOf EXCEPT ![q] = IF v = "ok" THEN handle'[q] ELSE "error"]
  BY <1>a DEF wantedOf, answerOf
<1>2. processOf[q] = "absent" /\ ~alive[q]
  BY <1>a, ProcessValues
<1>3. \A r \in Requests : processOf'[r] = IF r = q THEN "gone" ELSE processOf[r]
  BY <1>a, <1>2 DEF processOf
<1>4. processOf' = [processOf EXCEPT ![q] = "gone"]
  BY <1>a, <1>3 DEF processOf
<1>5. CASE v = "err"
  <2>1. Service!Decline(q)
    BY <1>1, <1>4, <1>5 DEF Service!Decline
  <2>2. QED BY <2>1 DEF Service!Next
<1>6. CASE v = "ok"
  <2>1. processOf[handle'[q]] # "absent"
    BY <1>a, <1>6, ProcessValues DEF Begun, Spawned
  <2>2. wantedOf[handle'[q]].model = wantedOf[q].model
    BY <1>6 DEF wantedOf, schedulerModelKey
  <2>3. Service!Share(q, handle'[q])
    BY <1>1, <1>2, <1>4, <1>6, <2>1, <2>2 DEF Service!Share
  <2>4. QED BY <1>6, <2>3 DEF Service!Next
<1>7. QED BY <1>5, <1>6

\* getRunner: a handler that goes on, shares a runner or finds the queue full.
LEMMA RequestRefines ==
    ASSUME SchedulerInv, ServiceInv, NEW q \in Requests,
           GetRunner(q) \/ NeedsReload(q) \/ UseLoadedRunner(q) \/ Enqueue(q)
    PROVE  [Service!Next]_(Service!vars)
<1> USE DEF runnerState, runnerRest, pendingVars
<1>a. /\ phase \in [Requests -> Phases] /\ handle \in [Requests -> Runners \cup {None}]
      /\ Runners = Requests /\ None \notin Requests
      /\ phase[q] = "use" => handle[q] \in Requests
  BY NoneAssumption DEF SchedulerInv, TypeOK, RequestType, Runners
<1>b. /\ phase[q] \in {"new", "check", "use", "enqueue"}
      /\ UNCHANGED <<ask, alive, refMu, pReq, pPc>>
      /\ \A r \in Requests \ {q} : handle'[r] = handle[r]
  BY <1>a DEF GetRunner, NeedsReload, UseLoadedRunner, useLoadedRunner, Enqueue
<1>c. \A r \in Requests : Spawned(r)' <=> Spawned(r)
  BY <1>b DEF Spawned
<1>d. ~Spawned(q)
  BY <1>a, <1>b DEF Spawned, ServiceInv, LoopWaits, LoadWaits
<1>1. ASSUME NEW w \in {"check", "use", "enqueue", "waiting"}, phase' = [phase EXCEPT ![q] = w]
      PROVE  [Service!Next]_(Service!vars)
  <2>1. wantedOf' = wantedOf /\ answerOf' = answerOf
    BY <1>a, <1>b, <1>1 DEF wantedOf, answerOf
  <2>2. processOf' = processOf
    BY <1>a, <1>b, <1>c, <1>1 DEF processOf
  <2>3. QED BY <2>1, <2>2 DEF Service!vars
<1>2. CASE GetRunner(q)
  BY <1>1, <1>2 DEF GetRunner
<1>3. CASE NeedsReload(q)
  BY <1>1, <1>3 DEF NeedsReload
<1>4. CASE UseLoadedRunner(q)
  <2>1. handle' = handle /\ phase[q] = "use" /\ phase' = [phase EXCEPT ![q] = "ok"]
    BY <1>4, <1>a DEF UseLoadedRunner, useLoadedRunner
  <2>2. Begun(handle[q]) /\ schedulerModelKey(handle[q]) = schedulerModelKey(q)
    BY <1>a, <2>1 DEF ServiceInv, PointersBegun, PointedTo, Held, SameModel
  <2>3. QED BY <1>a, <1>b, <1>c, <1>d, <2>1, <2>2, SettledRefine
<1>5. CASE Enqueue(q)
  <2>1. CASE HasRoom(pendingReqCh)
    BY <1>1, <1>5, <2>1 DEF Enqueue
  <2>2. CASE ~HasRoom(pendingReqCh)
    <3>1. phase' = [phase EXCEPT ![q] = "err"]
      BY <1>5, <2>2 DEF Enqueue
    <3>2. QED BY <1>b, <1>c, <1>d, <3>1, SettledRefine
  <2>3. QED BY <2>1, <2>2
<1>6. QED BY <1>2, <1>3, <1>4, <1>5

\* The answers of the pending loop are Share, Decline, or not seen.
LEMMA LoopAnswersRefine ==
    ASSUME SchedulerInv, ServiceInv, LoopAnswers
    PROVE  [Service!Next]_(Service!vars)
<1> USE DEF runnerState, runnerRest, requestVars
<1>a. /\ phase \in [Requests -> Phases] /\ handle \in [Requests -> Runners \cup {None}]
      /\ refMu \in [Runners -> Holders] /\ alive \in [Runners -> BOOLEAN]
      /\ Runners = Requests /\ None \notin Requests
  BY NoneAssumption DEF SchedulerInv, TypeOK, RequestType, RunnerType, Runners
<1>b. pPc \notin {"idle", "exit"} =>
          pReq \in Requests /\ phase[pReq] = "waiting" /\ refMu[pReq] # "load"
  BY <1>a DEF SchedulerInv, TypeOK, PendingType, ServiceInv, LoopWaits
<1>1. CASE PendingReceive
  <2>1. \A r \in Runners : Spawned(r)' <=> Spawned(r)
    BY <1>1 DEF PendingReceive, Spawned
  <2>2. QED BY <1>1, <2>1, EndsRefine DEF PendingReceive
<1>2. CASE PendingUseLoadedRunner
  <2>1. /\ pReq \in Requests /\ phase[pReq] = "waiting" /\ ~Spawned(pReq)
        /\ pRunner \in Requests /\ schedulerModelKey(pRunner) = schedulerModelKey(pReq)
    BY <1>2, <1>a, <1>b DEF PendingUseLoadedRunner, Spawned, SchedulerInv, TypeOK, PendingType,
       ServiceInv, SameModel
  <2>2. Begun(pRunner)
    BY <1>a, <2>1 DEF ServiceInv, PointersBegun, PointedTo, Held
  <2>3. /\ phase' = [phase EXCEPT ![pReq] = "ok"] /\ handle' = [handle EXCEPT ![pReq] = pRunner]
        /\ UNCHANGED <<ask, alive, refMu>>
    BY <1>2 DEF PendingUseLoadedRunner, useLoadedRunner
  <2>4. \A r \in Requests : Spawned(r)' <=> Spawned(r)
    BY <1>2, <2>3 DEF PendingUseLoadedRunner, PendingIdle, Spawned
  <2>5. handle'[pReq] = pRunner /\ \A r \in Requests \ {pReq} : handle'[r] = handle[r]
    BY <1>a, <2>1, <2>3
  <2>6. QED BY <2>1, <2>2, <2>3, <2>4, <2>5, SettledRefine
<1>3. CASE LoadRefused
  <2>1. pReq \in Requests /\ phase[pReq] = "waiting" /\ ~Spawned(pReq)
    BY <1>3, <1>b DEF LoadRefused, Spawned
  <2>2. /\ phase' = [phase EXCEPT ![pReq] = "err"]
        /\ UNCHANGED <<ask, alive, refMu, handle>>
    BY <1>3 DEF LoadRefused, Refuse
  <2>3. \A r \in Requests : Spawned(r)' <=> Spawned(r)
    BY <1>3, <2>2 DEF LoadRefused, PendingIdle, Spawned
  <2>4. QED BY <2>1, <2>2, <2>3, SettledRefine
<1>4. CASE LoadFailed /\ activeLoading # None
  <2>1. pReq \in Requests /\ phase[pReq] = "waiting" /\ activeLoading = pReq
    BY <1>4, <1>b DEF LoadFailed, SchedulerInv, OwnLoad
  <2>2. /\ phase' = [phase EXCEPT ![pReq] = "err"] /\ alive' = [alive EXCEPT ![pReq] = FALSE]
        /\ UNCHANGED <<ask, refMu, handle>> /\ pPc = "loadFailed" /\ pPc' = "idle"
    BY <1>4, <2>1 DEF LoadFailed, Refuse, PendingIdle
  <2>3. /\ wantedOf' = wantedOf /\ answerOf[pReq] = "waiting"
        /\ answerOf' = [answerOf EXCEPT ![pReq] = "error"]
    BY <1>a, <2>1, <2>2 DEF wantedOf, answerOf
  <2>4. \A r \in Requests : processOf'[r] = IF r = pReq THEN "gone" ELSE processOf[r]
    BY <1>a, <2>1, <2>2 DEF processOf, Spawned
  <2>5. processOf' = [processOf EXCEPT ![pReq] = "gone"]
    BY <1>a, <2>4 DEF processOf
  <2>6. Service!Decline(pReq)
    BY <2>3, <2>5 DEF Service!Decline
  <2>7. QED BY <2>1, <2>6 DEF Service!Next
<1>5. CASE LoadInsert
  <2>1. loaded[schedulerModelKey(pReq)] = None
    BY <1>5 DEF LoadInsert, SchedulerInv, SlotReserved, Inserting
  <2>2. /\ refMu' = [refMu EXCEPT ![pReq] = "load"] /\ UNCHANGED <<ask, phase, handle, alive>>
        /\ pPc = "insert" /\ pPc' = "idle"
    BY <1>5, <2>1 DEF LoadInsert, PendingIdle
  <2>3. \A r \in Runners : Spawned(r)' <=> Spawned(r)
    BY <1>a, <1>b, <2>2 DEF Spawned
  <2>4. QED BY <2>2, <2>3, EndsRefine
<1>6. QED BY <1>1, <1>2, <1>3, <1>4, <1>5 DEF LoopAnswers

\* The end of a load: the request gets its own process, or an error.
LEMMA LoaderRefines ==
    ASSUME SchedulerInv, ServiceInv, NEW r \in Requests, LoaderReady(r) \/ LoaderError(r)
    PROVE  [Service!Next]_(Service!vars)
<1>a. /\ phase \in [Requests -> Phases] /\ handle \in [Requests -> Runners \cup {None}]
      /\ refMu \in [Runners -> Holders] /\ Runners = Requests
  BY DEF SchedulerInv, TypeOK, RequestType, RunnerType, Runners
<1>1. /\ refMu[r] = "load" /\ UNCHANGED <<ask, alive, pReq, pPc>>
      /\ \A x \in Requests \ {r} : handle'[x] = handle[x] /\ refMu'[x] = refMu[x]
  BY <1>a DEF LoaderReady, LoaderError, runnerRest, pendingVars
<1>2. phase[r] = "waiting" /\ processOf[r] # "absent"
  BY <1>a, <1>1, ProcessValues DEF ServiceInv, LoadWaits, Spawned
<1>3. ASSUME NEW v \in {"ok", "err"}, phase' = [phase EXCEPT ![r] = v]
      PROVE  /\ wantedOf' = wantedOf /\ answerOf[r] = "waiting" /\ processOf' = processOf
             /\ answerOf' = [answerOf EXCEPT ![r] = IF v = "ok" THEN handle'[r] ELSE "error"]
  <2>1. wantedOf' = wantedOf /\ answerOf[r] = "waiting"
    BY <1>1, <1>2 DEF wantedOf, answerOf
  <2>2. answerOf' = [answerOf EXCEPT ![r] = IF v = "ok" THEN handle'[r] ELSE "error"]
    BY <1>a, <1>1, <1>3 DEF answerOf
  <2>3. \A x \in Requests : processOf'[x] = processOf[x]
    BY <1>a, <1>1, <1>3 DEF processOf, Spawned
  <2>4. QED BY <1>a, <2>1, <2>2, <2>3 DEF processOf
<1>4. CASE LoaderReady(r)
  <2>1. handle'[r] = r /\ phase' = [phase EXCEPT ![r] = "ok"]
    BY <1>4, <1>a DEF LoaderReady
  <2>2. Service!Grant(r, r)
    BY <1>2, <1>3, <2>1 DEF Service!Grant
  <2>3. QED BY <2>2 DEF Service!Next
<1>5. CASE LoaderError(r)
  <2>1. phase' = [phase EXCEPT ![r] = "err"]
    BY <1>5 DEF LoaderError, Refuse
  <2>2. Service!Decline(r)
    BY <1>2, <1>3, <2>1 DEF Service!Decline
  <2>3. QED BY <2>2 DEF Service!Next
<1>6. QED BY <1>4, <1>5

\* Every step is a step of the service, or changes nothing it sees.
LEMMA StepRefines ==
    ASSUME SchedulerInv, ServiceInv, [Next]_vars
    PROVE  [Service!Next]_(Service!vars)
<1>1. CASE Aside \/ UNCHANGED vars
  <2>1. /\ UNCHANGED <<ask, phase, handle, pReq, pPc>>
        /\ \A r \in Runners : (refMu'[r] = "load") <=> (refMu[r] = "load")
        /\ \A r \in Runners : alive'[r] => alive[r]
    BY <1>1 DEF Aside, vars, requestVars, pendingVars
  <2>2. \A r \in Runners : Spawned(r)' <=> Spawned(r)
    BY <2>1 DEF Spawned
  <2>3. QED BY <2>1, <2>2, EndsRefine
<1>2. CASE LoopMoves BY <1>2, LoopMovesRefine
<1>3. CASE LoopAnswers BY <1>3, LoopAnswersRefine
<1>4. QED BY <1>1, <1>2, <1>3, Kinds, RequestRefines, LoaderRefines

\* Every initial state is one of the service.
LEMMA InitRefines == Init => Service!Init
  BY DEF Init, Service!Init, answerOf, processOf, Spawned, Runners

\* The scheduler implements RunnerService: whatever its goroutines interleave,
\* a request is answered once, with an error or with a process that was started
\* for its model, and processes start only when there is room for them, on GPUs
\* only alone, and never twice.
THEOREM ServiceImplemented == Spec => ImplementsService
<1>1. Init => Service!Init
  BY InitRefines
<1>2. SchedulerInv /\ ServiceInv /\ [Next]_vars => [Service!Next]_(Service!vars)
  BY StepRefines
<1>3. QED BY <1>1, <1>2, SafetyCorrect, ServiceInvCorrect, PTL
          DEF Spec, ImplementsService, Service!Spec

\* A request that waits for its answer is in one place only, so that it is
\* answered once and no sender blocks on the answer's channel.
THEOREM AnsweredOnce == Spec => []OneAnswer
<1>1. SchedulerInv /\ ServiceInv => OneAnswer
  <2> SUFFICES ASSUME SchedulerInv, ServiceInv, NEW q \in Requests
               PROVE  LET places == Occurrences(q) + (IF pReq = q THEN 1 ELSE 0)
                                      + (IF refMu[q] = "load" THEN 1 ELSE 0)
                      IN places <= 1 /\ (places = 1 => phase[q] = "waiting")
    BY DEF OneAnswer
  <2> DEFINE at == {i \in DOMAIN pendingReqCh : pendingReqCh[i] = q}
  <2>1. /\ pReq = q => phase[q] = "waiting" /\ refMu[q] # "load"
        /\ refMu[q] = "load" => phase[q] = "waiting"
    BY NoneAssumption DEF ServiceInv, LoopWaits, LoadWaits, Runners
  <2>2. CASE at = {}
    <3>1. Occurrences(q) = 0
      BY <2>2, FS_EmptySet DEF Occurrences
    <3>2. QED BY <2>1, <3>1
  <2>3. CASE at # {}
    <3>1. PICK i \in DOMAIN pendingReqCh : pendingReqCh[i] = q
      BY <2>3
    <3>2. at = {i}
      BY <3>1 DEF ServiceInv, QueueWaits
    <3>3. Occurrences(q) = 1
      BY <3>2, FS_Singleton DEF Occurrences
    <3>4. phase[q] = "waiting" /\ refMu[q] # "load" /\ pReq # q
      BY <3>1 DEF ServiceInv, QueueWaits
    <3>5. QED BY <3>3, <3>4
  <2>4. QED BY <2>2, <2>3
<1>2. QED BY <1>1, SafetyCorrect, ServiceInvCorrect, PTL

=============================================================================
