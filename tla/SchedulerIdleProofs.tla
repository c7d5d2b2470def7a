------------------------ MODULE SchedulerIdleProofs ------------------------
(***************************************************************************)
(* A loaded runner that nobody uses will expire, for every set of requests *)
(* and models, every queue capacity and every sequence of events. IdleInv  *)
(* is inductive, given SchedulerInv and ServiceInv.                        *)
(***************************************************************************)
EXTENDS SchedulerServiceProofs

\* What IdleInv says of one runner.
IdleSound(r) ==
    refMu[r] = "free" /\ refCount[r] = 0 /\ ~InUse(r) /\ sessionDuration[r] # Forever =>
        WillExpire(r)

\* The runners that are loaded, by their place in loaded.
LEMMA LoadedIs ==
    /\ TypeOK => \A r \in Runners : r \in LoadedRunners <=> InLoaded(r)
    /\ TypeOK => LoadedRunners \subseteq Runners
  BY NoneAssumption DEF LoadedRunners, LoadedKeys, InLoaded, TypeOK, SchedulerType, Runners

\* The same in the next state.
LEMMA LoadedIsNext ==
    ASSUME TypeOK'
    PROVE  /\ \A r \in Runners : r \in LoadedRunners' <=> InLoaded(r)'
           /\ LoadedRunners' \subseteq Runners
  BY NoneAssumption DEF LoadedRunners, LoadedKeys, InLoaded, TypeOK, SchedulerType, Runners

\* The fields of runner r that its expiration depends on are kept.
SameRunner(r) ==
    /\ InLoaded(r)' => InLoaded(r)
    /\ refMu'[r] = refMu[r] /\ refCount'[r] = refCount[r]
    /\ sessionDuration'[r] = sessionDuration[r]

\* A runner that stays as it is, of which no use and no expiration is lost.
LEMMA SoundStays ==
    ASSUME TypeOK, IdleRunnerWillExpire, NEW r \in Runners, InLoaded(r)', SameRunner(r),
           InUse(r) => InUse(r)', WillExpire(r) => WillExpire(r)'
    PROVE  IdleSound(r)'
<1>1. r \in LoadedRunners
  BY LoadedIs DEF SameRunner
<1>2. IdleSound(r)
  BY <1>1 DEF IdleRunnerWillExpire, IdleSound
<1>3. QED
  BY <1>2 DEF IdleSound, SameRunner

\* The steps that touch none of this.
LEMMA QuietForAll ==
    ASSUME TypeOK, IdleInv,
           UNCHANGED <<loaded, refMu, refCount, sessionDuration, expireTimer, callbacks, retries,
                       expiredCh, finishedReqCh, armed, cPc, cRunner>>,
           \A q \in Requests : phase[q] = "ok" => phase'[q] = "ok" /\ handle'[q] = handle[q]
    PROVE  ReportsAfterUse' /\ RemovedForGood' /\ \A r \in Runners : InLoaded(r)' => IdleSound(r)'
<1>1. ReportsAfterUse'
  BY DEF IdleInv, ReportsAfterUse, Reported
<1>2. RemovedForGood'
  BY DEF IdleInv, RemovedForGood, LoadedRunners, LoadedKeys
<1>3. ASSUME NEW r \in Runners, InLoaded(r)' PROVE IdleSound(r)'
  <2>1. SameRunner(r)
    BY DEF SameRunner, InLoaded
  <2>2. InUse(r) => InUse(r)'
    BY DEF InUse, Reported, IdleInv, ReportsAfterUse
  <2>3. WillExpire(r) => WillExpire(r)'
    BY DEF WillExpire
  <2>4. QED
    BY <1>3, <2>1, <2>2, <2>3, SoundStays DEF IdleInv
<1>4. QED
  BY <1>1, <1>2, <1>3

\* What a step has to show.
Onward ==
    /\ ReportsAfterUse' /\ RemovedForGood'
    /\ \A r \in Runners : InLoaded(r)' => IdleSound(r)'

\* Runner x is left as it is, or is seen to after the step.
Settled(x) ==
    \/ /\ SameRunner(x)
       /\ InUse(x) => InUse(x)'
       /\ WillExpire(x) => WillExpire(x)'
    \/ IdleSound(x)'

\* A step has shown it when it settles every runner that is loaded after it.
LEMMA SettledAll ==
    ASSUME TypeOK, IdleInv, ReportsAfterUse', RemovedForGood',
           \A x \in Runners : InLoaded(x)' => Settled(x)
    PROVE  Onward
<1>1. ASSUME NEW r \in Runners, InLoaded(r)' PROVE IdleSound(r)'
  <2>1. Settled(r)
    BY <1>1
  <2>2. QED
    BY <1>1, <2>1, SoundStays DEF Settled, IdleInv
<1>2. QED
  BY <1>1 DEF Onward

\* The handler of a request up to the queue, and the end of its context.
LEMMA RequestQuiet ==
    ASSUME TypeOK, IdleInv, NEW q \in Requests,
           GetRunner(q) \/ NeedsReload(q) \/ Enqueue(q) \/ ContextDone(q)
    PROVE  Onward
<1> USE DEF schedState, channels, runnerState, runnerRest, requestVars, completedVars
<1>a. phase \in [Requests -> Phases] /\ handle \in [Requests -> Runners \cup {None}]
  BY DEF TypeOK, RequestType
<1>1. UNCHANGED <<loaded, refMu, refCount, sessionDuration, expireTimer, callbacks, retries,
                  expiredCh, finishedReqCh, armed, cPc, cRunner>>
  BY DEF GetRunner, NeedsReload, Enqueue, ContextDone
<1>2. \A x \in Requests : phase[x] = "ok" => phase'[x] = "ok" /\ handle'[x] = handle[x]
  BY <1>a DEF GetRunner, NeedsReload, Enqueue, ContextDone
<1>3. QED
  BY <1>1, <1>2, QuietForAll DEF Onward

\* What stops, crashes and the shutdown do.
LEMMA EnvironmentQuiet ==
    ASSUME TypeOK, IdleInv, EnvironmentSteps
    PROVE  Onward
<1> USE DEF schedState, channels, runnerState, runnerRest, requestVars, completedVars
<1>1. UNCHANGED <<loaded, refMu, refCount, sessionDuration, expireTimer, callbacks, retries,
                  expiredCh, finishedReqCh, armed, cPc, cRunner, phase, handle>>
  BY DEF EnvironmentSteps, StopAllModelsHandler, unloadAllRunners, expireRunnersForRuntimeOOM,
     ShutdownCancel, ShutdownUnload, StopModelHandler, expireRunner, HandlerStarts, Crash
<1>2. QED
  BY <1>1, QuietForAll DEF Onward

\* The steps of the pending loop that leave the runners alone.
LoopQuiet ==
    \/ PendingReceive \/ PendingIgnoreUnload \/ PendingSnapshot \/ PendingNeedsReload
    \/ FindRunnerToUnload \/ FindIdleRunner \/ UpdateFreeSpace \/ LoadNoBatchConfig
    \/ LoadRefused \/ LoadNeedsEviction \/ LoadSpawn \/ LoadReturns \/ LoadFailed
    \/ PendingUnloadCompleted \/ PendingExit

\* They answer nobody but the request of the loop, which was not given a runner.
LEMMA LoopStepsQuiet ==
    ASSUME TypeOK, ServiceInv, IdleInv, LoopQuiet
    PROVE  Onward
<1> USE DEF schedState, channels, runnerState, runnerRest, requestVars, completedVars
<1>a. phase \in [Requests -> Phases] /\ handle \in [Requests -> Runners \cup {None}]
  BY DEF TypeOK, RequestType
<1>b. pReq # None => phase[pReq] # "ok"
  BY DEF ServiceInv, LoopWaits
<1>1. UNCHANGED <<loaded, refMu, refCount, sessionDuration, expireTimer, callbacks, retries,
                  expiredCh, finishedReqCh, armed, cPc, cRunner, handle>>
  BY DEF LoopQuiet, PendingReceive, PendingIgnoreUnload, PendingSnapshot, PendingNeedsReload,
     FindRunnerToUnload, FindIdleRunner, UpdateFreeSpace, LoadNoBatchConfig, LoadRefused,
     LoadNeedsEviction, LoadSpawn, LoadReturns, LoadFailed, PendingUnloadCompleted, PendingExit
<1>2. UNCHANGED phase \/ (Refuse(pReq) /\ pPc \notin {"idle", "exit"})
  BY DEF LoopQuiet, PendingReceive, PendingIgnoreUnload, PendingSnapshot, PendingNeedsReload,
     FindRunnerToUnload, FindIdleRunner, UpdateFreeSpace, LoadNoBatchConfig, LoadRefused,
     LoadNeedsEviction, LoadSpawn, LoadReturns, LoadFailed, PendingUnloadCompleted, PendingExit
<1>3. \A x \in Requests : phase[x] = "ok" => phase'[x] = "ok"
  BY <1>a, <1>b, <1>2 DEF Refuse, TypeOK, PendingType
<1>4. QED
  BY <1>1, <1>3, QuietForAll DEF Onward

\* A request that was given a runner, or is now, keeps it: the uses of the
\* runners are kept by a step that leaves processCompleted alone.
LEMMA UseStays ==
    ASSUME IdleInv, UNCHANGED <<finishedReqCh, cPc, cRunner>>, NEW x \in Runners,
           \A q \in Requests : /\ armed[q] => armed'[q]
                               /\ phase[q] = "ok" => handle'[q] = handle[q]
    PROVE  InUse(x) => InUse(x)'
  BY DEF IdleInv, ReportsAfterUse, InUse, Reported

\* A runner is given to a request: it is in use from now on.
LEMMA GivenSettles ==
    ASSUME TypeOK, IdleInv, NEW q \in Requests, NEW r \in Runners, phase[q] # "ok",
           phase' = [phase EXCEPT ![q] = "ok"], handle' = [handle EXCEPT ![q] = r],
           armed' = [armed EXCEPT ![q] = TRUE],
           UNCHANGED <<loaded, finishedReqCh, expiredCh, callbacks, retries, cPc, cRunner>>,
           \A x \in Runners \ {r} : /\ refMu'[x] = refMu[x] /\ refCount'[x] = refCount[x]
                                    /\ sessionDuration'[x] = sessionDuration[x]
                                    /\ expireTimer'[x] = expireTimer[x]
    PROVE  Onward
<1>a. /\ phase \in [Requests -> Phases] /\ handle \in [Requests -> Runners \cup {None}]
      /\ armed \in [Requests -> BOOLEAN]
  BY DEF TypeOK, RequestType
<1>1. ReportsAfterUse'
  BY <1>a DEF IdleInv, ReportsAfterUse, Reported
<1>2. RemovedForGood'
  BY DEF IdleInv, RemovedForGood, LoadedRunners, LoadedKeys
<1>3. InUse(r)'
  BY <1>a DEF InUse
<1>4. ASSUME NEW x \in Runners \ {r} PROVE Settled(x)
  <2>1. InUse(x) => InUse(x)'
    BY <1>a, UseStays
  <2>2. WillExpire(x) => WillExpire(x)'
    BY DEF WillExpire
  <2>3. SameRunner(x)
    BY DEF SameRunner, InLoaded
  <2>4. QED
    BY <2>1, <2>2, <2>3 DEF Settled
<1>5. Settled(r)
  BY <1>3 DEF Settled, IdleSound
<1>6. QED
  BY <1>1, <1>2, <1>4, <1>5, SettledAll

\* useLoadedRunner and the end of a load.
LEMMA GivenOnward ==
    ASSUME TypeOK, ServiceInv, IdleInv,
           \/ \E q \in Requests : UseLoadedRunner(q) \/ LoaderReady(q)
           \/ PendingUseLoadedRunner
    PROVE  Onward
<1> USE DEF schedState, channels, runnerState, runnerRest, requestVars, completedVars
<1>a. /\ refMu \in [Runners -> Holders] /\ refCount \in [Runners -> 0..(RefModulus - 1)]
      /\ sessionDuration \in [Runners -> Durations] /\ Runners = Requests
      /\ expireTimer \in [Runners -> {"nil", "armed", "fired"}]
  BY DEF TypeOK, RunnerType, Runners
<1>1. ASSUME NEW q \in Requests, UseLoadedRunner(q) PROVE Onward
  <2>1. handle[q] \in Runners /\ phase[q] # "ok"
    BY <1>1 DEF UseLoadedRunner, TypeOK, RequestType
  <2>2. QED
    BY <1>1, <1>a, <2>1, GivenSettles DEF UseLoadedRunner, useLoadedRunner
<1>2. ASSUME NEW q \in Requests, LoaderReady(q) PROVE Onward
  <2>1. q \in Runners /\ phase[q] # "ok"
    BY <1>2, <1>a DEF LoaderReady, ServiceInv, LoadWaits
  <2>2. QED
    BY <1>2, <1>a, <2>1, GivenSettles DEF LoaderReady
<1>3. CASE PendingUseLoadedRunner
  <2>1. pReq \in Requests /\ pRunner \in Runners /\ phase[pReq] # "ok"
    BY <1>3, NoneAssumption DEF PendingUseLoadedRunner, TypeOK, PendingType, ServiceInv, LoopWaits
  <2>2. QED
    BY <1>3, <1>a, <2>1, GivenSettles DEF PendingUseLoadedRunner, useLoadedRunner
<1>4. QED
  BY <1>1, <1>2, <1>3

\* The end of a request is reported.
LEMMA ReportOnward ==
    ASSUME TypeOK, IdleInv, NEW q \in Requests, ReportFinished(q)
    PROVE  Onward
<1> USE DEF ReportFinished, schedState, channels, runnerState, runnerRest, requestVars, completedVars
<1>a. /\ finishedReqCh \in Seq(Requests) /\ armed \in [Requests -> BOOLEAN]
  BY DEF TypeOK, SchedulerType, RequestType
<1>b. /\ \A i \in DOMAIN finishedReqCh : i \in DOMAIN finishedReqCh' /\ finishedReqCh'[i] = finishedReqCh[i]
      /\ Len(finishedReqCh) + 1 \in DOMAIN finishedReqCh'
      /\ finishedReqCh'[Len(finishedReqCh) + 1] = q
  BY <1>a
<1>c. \A x \in Requests : (Reported(x) => Reported(x)') /\ (Reported(x)' => Reported(x) \/ x = q)
  BY <1>a, <1>b, Appended DEF Reported
<1>d. Reported(q)'
  BY <1>b DEF Reported
<1>1. ReportsAfterUse'
  BY <1>a, <1>c DEF IdleInv, ReportsAfterUse
<1>2. RemovedForGood'
  BY DEF IdleInv, RemovedForGood, LoadedRunners, LoadedKeys
<1>3. ASSUME NEW x \in Runners PROVE Settled(x)
  <2>1. InUse(x) => InUse(x)'
    BY <1>a, <1>c, <1>d DEF InUse
  <2>2. WillExpire(x) => WillExpire(x)'
    BY DEF WillExpire
  <2>3. SameRunner(x)
    BY DEF SameRunner, InLoaded
  <2>4. QED
    BY <2>1, <2>2, <2>3 DEF Settled
<1>4. QED
  BY <1>1, <1>2, <1>3, SettledAll

\* An expired event is queued: the runner it names will expire. The step may
\* unlock it and take one of its retries; of the others nothing is lost.
LEMMA QueuedOnward ==
    ASSUME TypeOK, IdleInv, NEW r \in Runners, expiredCh' = Append(expiredCh, r),
           UNCHANGED <<loaded, finishedReqCh, refCount, sessionDuration, expireTimer, callbacks,
                       requestVars>>,
           \A x \in Runners \ {r} : refMu'[x] = refMu[x] /\ retries'[x] = retries[x],
           \/ UNCHANGED completedVars
           \/ cPc = "send" /\ cPc' = "idle"
    PROVE  Onward
<1> USE DEF requestVars, completedVars
<1>a. expiredCh \in Seq(Runners)
  BY DEF TypeOK, SchedulerType
<1>b. /\ \A i \in DOMAIN expiredCh : i \in DOMAIN expiredCh' /\ expiredCh'[i] = expiredCh[i]
      /\ Len(expiredCh) + 1 \in DOMAIN expiredCh' /\ expiredCh'[Len(expiredCh) + 1] = r
  BY <1>a
<1>1. ReportsAfterUse'
  BY DEF IdleInv, ReportsAfterUse, Reported
<1>2. RemovedForGood'
  BY DEF IdleInv, RemovedForGood, LoadedRunners, LoadedKeys
<1>3. ASSUME NEW x \in Runners \ {r} PROVE Settled(x)
  <2>1. InUse(x) => InUse(x)'
    BY DEF InUse, Reported
  <2>2. WillExpire(x) => WillExpire(x)'
    BY <1>b DEF WillExpire
  <2>3. SameRunner(x)
    BY DEF SameRunner, InLoaded
  <2>4. QED
    BY <2>1, <2>2, <2>3 DEF Settled
<1>4. Settled(r)
  BY <1>b DEF Settled, IdleSound, WillExpire
<1>5. QED
  BY <1>1, <1>2, <1>3, <1>4, SettledAll

\* The senders of expired events.
LEMMA SendOnward ==
    ASSUME TypeOK, IdleInv,
           \/ PendingSendExpired \/ HandlerSendExpired \/ CompletedSendExpired
           \/ \E r \in Runners : LoaderSendExpired(r) \/ TimerSendExpired(r) \/ RetryExpired(r)
    PROVE  Onward
<1> USE DEF schedState, channels, completedVars, runnerRest, OnlyExpiredCh, SendExpired
<1>a. refMu \in [Runners -> Holders] /\ retries \in [Runners -> Nat]
  BY DEF TypeOK, RunnerType
<1>1. CASE PendingSendExpired
  <2>1. pRunner \in Runners
    BY <1>1 DEF PendingSendExpired, TypeOK, PendingType
  <2>2. QED
    BY <1>1, <1>a, <2>1, QueuedOnward DEF PendingSendExpired
<1>2. CASE HandlerSendExpired
  <2>1. hRunner \in Runners
    BY <1>2 DEF HandlerSendExpired, TypeOK, HandlerType
  <2>2. QED
    BY <1>2, <1>a, <2>1, QueuedOnward DEF HandlerSendExpired
<1>3. CASE CompletedSendExpired
  <2>1. cRunner \in Runners
    BY <1>3 DEF CompletedSendExpired, TypeOK, CompletedType
  <2>2. QED
    BY <1>3, <1>a, <2>1, QueuedOnward DEF CompletedSendExpired, CompletedIdle
<1>4. ASSUME NEW r \in Runners, LoaderSendExpired(r) \/ TimerSendExpired(r) PROVE Onward
  BY <1>4, <1>a, QueuedOnward DEF LoaderSendExpired, TimerSendExpired
<1>5. ASSUME NEW r \in Runners, RetryExpired(r) PROVE Onward
  BY <1>5, <1>a, QueuedOnward DEF RetryExpired
<1>6. QED
  BY <1>1, <1>2, <1>3, <1>4, <1>5

\* A step that locks runner r, or finds it in use, or has its timer fire, and
\* leaves the requests, the queues and processCompleted alone.
LEMMA LockedOnward ==
    ASSUME TypeOK, IdleInv, NEW r \in Runners,
           UNCHANGED <<loaded, finishedReqCh, expiredCh, refCount, retries, armed, handle,
                       completedVars>>,
           \A q \in Requests : phase[q] = "ok" => phase'[q] = "ok",
           \A x \in Runners \ {r} : /\ refMu'[x] = refMu[x] /\ callbacks'[x] = callbacks[x]
                                    /\ sessionDuration'[x] = sessionDuration[x]
                                    /\ expireTimer'[x] = expireTimer[x],
           refMu'[r] # "free" \/ refCount[r] # 0 \/ callbacks'[r] > 0
    PROVE  Onward
<1> USE DEF completedVars
<1>1. ReportsAfterUse'
  BY DEF IdleInv, ReportsAfterUse, Reported
<1>2. RemovedForGood'
  BY DEF IdleInv, RemovedForGood, LoadedRunners, LoadedKeys
<1>3. ASSUME NEW x \in Runners \ {r} PROVE Settled(x)
  <2>1. InUse(x) => InUse(x)'
    BY DEF InUse, Reported
  <2>2. WillExpire(x) => WillExpire(x)'
    BY DEF WillExpire
  <2>3. SameRunner(x)
    BY DEF SameRunner, InLoaded
  <2>4. QED
    BY <2>1, <2>2, <2>3 DEF Settled
<1>4. Settled(r)
  BY DEF Settled, IdleSound, WillExpire
<1>5. QED
  BY <1>1, <1>2, <1>3, <1>4, SettledAll

\* Evictions, stops, expirations, timers and the failure of a load.
LEMMA LockOnward ==
    ASSUME TypeOK, ServiceInv, IdleInv,
           \/ PendingEvict
           \/ \E r \in Runners : HandlerLock(r) \/ TimerFires(r) \/ TimerCallback(r) \/ LoaderError(r)
    PROVE  Onward
<1> USE DEF schedState, channels, runnerRest, requestVars, ExpireNow, StopTimerAndKeepAlive
<1>a. /\ refMu \in [Runners -> Holders] /\ callbacks \in [Runners -> Nat]
      /\ sessionDuration \in [Runners -> Durations] /\ Runners = Requests
      /\ expireTimer \in [Runners -> {"nil", "armed", "fired"}]
      /\ phase \in [Requests -> Phases]
  BY DEF TypeOK, RunnerType, RequestType, Runners
<1>1. CASE PendingEvict
  <2>1. pRunner \in Runners
    BY <1>1 DEF PendingEvict, TypeOK, PendingType
  <2>2. QED
    BY <1>1, <1>a, <2>1, LockedOnward DEF PendingEvict
<1>2. ASSUME NEW r \in Runners, HandlerLock(r) PROVE Onward
  BY <1>2, <1>a, LockedOnward DEF HandlerLock
<1>3. ASSUME NEW r \in Runners, TimerFires(r) PROVE Onward
  <2>1. callbacks'[r] > 0
    BY <1>3, <1>a DEF TimerFires
  <2>2. QED
    BY <1>3, <1>a, <2>1, LockedOnward DEF TimerFires
<1>4. ASSUME NEW r \in Runners, TimerCallback(r) PROVE Onward
  BY <1>4, <1>a, LockedOnward DEF TimerCallback
<1>5. ASSUME NEW r \in Runners, LoaderError(r) PROVE Onward
  <2>1. phase[r] # "ok"
    BY <1>5 DEF LoaderError, ServiceInv, LoadWaits
  <2>2. QED
    BY <1>5, <1>a, <2>1, LockedOnward DEF LoaderError, Refuse
<1>6. QED
  BY <1>1, <1>2, <1>3, <1>4, <1>5

\* A loaded runner is found under its model.
LEMMA FoundByKey ==
    ASSUME SchedulerInv, NEW r \in Runners, InLoaded(r)
    PROVE  schedulerModelKey(r) \in Models /\ loaded[schedulerModelKey(r)] = r
  BY NoneAssumption DEF SchedulerInv, KeyedByModel, InLoaded, Runners

\* A load enters loaded, with its runner locked.
LEMMA InsertOnward ==
    ASSUME SchedulerInv, ServiceInv, IdleInv, LoadInsert
    PROVE  Onward
<1> USE DEF LoadInsert, channels, requestVars, completedVars
<1>a. /\ TypeOK /\ refMu \in [Runners -> Holders] /\ sessionDuration \in [Runners -> Durations]
      /\ loaded \in [Models -> Runners \cup {None}]
  BY DEF SchedulerInv, TypeOK, RunnerType, SchedulerType
<1>b. pReq # None
  BY <1>a DEF TypeOK, PendingType
<1>c. pReq \in Runners /\ ~PointedTo(pReq)
  BY <1>a, <1>b, LoopRequestFresh
<1>d. loaded[schedulerModelKey(pReq)] = None
  BY DEF SchedulerInv, SlotReserved, Inserting
<1>1. UNCHANGED expireTimer
  BY <1>d
<1>2. \A m \in Models : loaded'[m] \in {loaded[m], pReq}
  BY <1>a
<1>3. ReportsAfterUse'
  BY DEF IdleInv, ReportsAfterUse, Reported
<1>4. RemovedForGood'
  <2>1. cRunner # pReq
    BY <1>c DEF PointedTo, Held
  <2>2. QED
    BY <1>2, <2>1 DEF IdleInv, RemovedForGood, LoadedRunners, LoadedKeys
<1>5. ASSUME NEW x \in Runners \ {pReq} PROVE Settled(x)
  <2>1. InUse(x) => InUse(x)'
    BY DEF InUse, Reported
  <2>2. WillExpire(x) => WillExpire(x)'
    BY <1>1 DEF WillExpire
  <2>3. SameRunner(x)
    BY <1>a, <1>2 DEF SameRunner, InLoaded
  <2>4. QED
    BY <2>1, <2>2, <2>3 DEF Settled
<1>6. ASSUME NEW x \in Runners, x = pReq PROVE Settled(x)
  BY <1>6, <1>a DEF Settled, IdleSound
<1>7. QED
  BY <1>a, <1>3, <1>4, <1>5, <1>6, SettledAll

\* What a receive leaves in a channel.
LEMMA StillThere ==
    ASSUME NEW S, NEW s \in Seq(S), s # <<>>, NEW i \in DOMAIN s
    PROVE  s[i] = Head(s) \/ \E j \in DOMAIN Tail(s) : Tail(s)[j] = s[i]
<1>1. CASE i = 1
  BY <1>1
<1>2. CASE i # 1
  <2>1. i - 1 \in DOMAIN Tail(s) /\ Tail(s)[i - 1] = s[i]
    BY <1>2
  <2>2. QED
    BY <2>1
<1>3. QED
  BY <1>1, <1>2

\* The end of a request is received: if its runner is loaded, it is the one
\* that is found under the model of the request.
LEMMA FinishedOnward ==
    ASSUME SchedulerInv, ServiceInv, IdleInv, CompletedReceiveFinished
    PROVE  Onward
<1> USE DEF CompletedReceiveFinished, schedState, runnerState, runnerRest, requestVars
<1>a. TypeOK /\ finishedReqCh \in Seq(Requests) /\ Runners = Requests
  BY DEF SchedulerInv, TypeOK, SchedulerType, Runners
<1>b. \A q \in Requests : Reported(q)' => Reported(q)
  BY <1>a, Received DEF Reported
<1>c. \A q \in Requests : Reported(q) => Reported(q)' \/ q = Head(finishedReqCh)
  BY <1>a, StillThere DEF Reported
<1>1. ReportsAfterUse'
  BY <1>b DEF IdleInv, ReportsAfterUse
<1>2. RemovedForGood'
  BY DEF RemovedForGood, AfterLookup
<1>3. ASSUME NEW x \in Runners, InLoaded(x)' PROVE Settled(x)
  <2>1. InLoaded(x)
    BY <1>3 DEF InLoaded
  <2>2. ASSUME NEW q \in Requests, handle[q] = x, q = Head(finishedReqCh)
        PROVE  cRunner' = x /\ cPc' = "finished"
    <3>1. schedulerModelKey(q) = schedulerModelKey(x)
      BY <2>2, <1>a, NoneAssumption DEF ServiceInv, SameModel
    <3>2. loaded[schedulerModelKey(q)] = x /\ x # None
      BY <2>1, <3>1, <1>a, FoundByKey, NoneAssumption
    <3>3. QED
      BY <2>2, <3>2 DEF AfterLookup
  <2>3. InUse(x) => InUse(x)'
    BY <1>c, <2>2 DEF InUse
  <2>4. WillExpire(x) => WillExpire(x)'
    BY DEF WillExpire
  <2>5. SameRunner(x)
    BY DEF SameRunner, InLoaded
  <2>6. QED
    BY <2>3, <2>4, <2>5 DEF Settled
<1>4. QED
  BY <1>a, <1>1, <1>2, <1>3, SettledAll

\* Steps of processCompleted that change at most the runner it looks at.
LEMMA LookedAtOnward ==
    ASSUME TypeOK, IdleInv, NEW c, c = cRunner, cPc' # "recover",
           UNCHANGED <<finishedReqCh, expiredCh, sessionDuration, callbacks, requestVars>>,
           \A x \in Runners : InLoaded(x)' => InLoaded(x),
           \A x \in Runners \ {c} :
               /\ refMu'[x] = refMu[x] /\ refCount'[x] = refCount[x]
               /\ expireTimer'[x] = expireTimer[x] /\ retries'[x] = retries[x],
           c \in Runners /\ InLoaded(c)' => Settled(c)
    PROVE  Onward
<1> USE DEF requestVars
<1>1. ReportsAfterUse'
  BY DEF IdleInv, ReportsAfterUse, Reported
<1>2. RemovedForGood'
  BY DEF RemovedForGood
<1>3. ASSUME NEW x \in Runners \ {c} PROVE Settled(x)
  <2>1. InUse(x) => InUse(x)'
    BY DEF InUse, Reported
  <2>2. WillExpire(x) => WillExpire(x)'
    BY DEF WillExpire
  <2>3. SameRunner(x)
    BY DEF SameRunner
  <2>4. QED
    BY <2>1, <2>2, <2>3 DEF Settled
<1>4. QED
  BY <1>1, <1>2, <1>3, SettledAll

\* The reference is dropped: the last one sets the timer or locks the runner.
LEMMA ReleaseOnward ==
    ASSUME TypeOK, IdleInv, CompletedRelease
    PROVE  Onward
<1> USE DEF CompletedRelease, CompletedIdle, schedState, channels, runnerRest
<1>a. /\ refMu \in [Runners -> Holders] /\ refCount \in [Runners -> 0..(RefModulus - 1)]
      /\ expireTimer \in [Runners -> {"nil", "armed", "fired"}]
  BY DEF TypeOK, RunnerType
<1>1. PICK c : c = cRunner
  OBVIOUS
<1>2. c \in Runners
  BY <1>1 DEF TypeOK, CompletedType
<1>3. refMu'[c] # "free" \/ refCount'[c] # 0 \/ expireTimer'[c] = "armed"
  BY <1>1, <1>2, <1>a
<1>4. Settled(c)
  BY <1>3 DEF Settled, IdleSound, WillExpire
<1>5. \A x \in Runners \ {c} :
          /\ refMu'[x] = refMu[x] /\ refCount'[x] = refCount[x]
          /\ expireTimer'[x] = expireTimer[x] /\ retries'[x] = retries[x]
  BY <1>1, <1>2, <1>a
<1>6. \A x \in Runners : InLoaded(x)' => InLoaded(x)
  BY DEF InLoaded
<1>7. cPc' # "recover"
  OBVIOUS
<1>8. QED
  BY <1>1, <1>4, <1>5, <1>6, <1>7, LookedAtOnward

\* An expired event is received.
LEMMA ReceiveExpiredOnward ==
    ASSUME TypeOK, IdleInv, CompletedReceiveExpired
    PROVE  Onward
<1> USE DEF CompletedReceiveExpired, schedState, runnerState, runnerRest, requestVars
<1>a. expiredCh \in Seq(Runners)
  BY DEF TypeOK, SchedulerType
<1>1. ReportsAfterUse'
  BY DEF IdleInv, ReportsAfterUse, Reported
<1>2. RemovedForGood'
  BY DEF RemovedForGood
<1>3. ASSUME NEW x \in Runners PROVE Settled(x)
  <2>1. InUse(x) => InUse(x)'
    BY DEF InUse, Reported
  <2>2. ASSUME NEW i \in DOMAIN expiredCh, expiredCh[i] = x PROVE WillExpire(x)'
    BY <1>a, <2>2, StillThere DEF WillExpire
  <2>3. WillExpire(x) => WillExpire(x)'
    BY <2>2 DEF WillExpire
  <2>4. SameRunner(x)
    BY DEF SameRunner, InLoaded
  <2>5. QED
    BY <2>1, <2>3, <2>4 DEF Settled
<1>4. QED
  BY <1>1, <1>2, <1>3, SettledAll

\* The expired runner is locked, or has a count and is tried again.
LEMMA ExpiredOnward ==
    ASSUME TypeOK, IdleInv, CompletedExpired
    PROVE  Onward
<1> USE DEF CompletedExpired, CompletedIdle, schedState, channels
<1>a. /\ refMu \in [Runners -> Holders] /\ refCount \in [Runners -> 0..(RefModulus - 1)]
      /\ retries \in [Runners -> Nat]
  BY DEF TypeOK, RunnerType
<1>1. PICK c : c = cRunner
  OBVIOUS
<1>2. c \in Runners
  BY <1>1 DEF TypeOK, CompletedType
<1>3. refMu'[c] # "free" \/ refCount'[c] # 0
  BY <1>1, <1>2, <1>a
<1>4. Settled(c)
  BY <1>3 DEF Settled, IdleSound
<1>5. \A x \in Runners \ {c} :
          /\ refMu'[x] = refMu[x] /\ refCount'[x] = refCount[x]
          /\ expireTimer'[x] = expireTimer[x] /\ retries'[x] = retries[x]
  BY <1>1, <1>2, <1>a
<1>6. \A x \in Runners : InLoaded(x)' => InLoaded(x)
  BY DEF InLoaded
<1>7. cPc' # "recover"
  OBVIOUS
<1>8. QED
  BY <1>1, <1>4, <1>5, <1>6, <1>7, LookedAtOnward

\* The runner is removed, or was not loaded any more.
LEMMA UnloadOnward ==
    ASSUME SchedulerInv, IdleInv, CompletedUnload
    PROVE  Onward
<1> USE DEF CompletedUnload, unload, channels, requestVars
<1>a. /\ TypeOK /\ refMu \in [Runners -> Holders]
      /\ expireTimer \in [Runners -> {"nil", "armed", "fired"}]
      /\ loaded \in [Models -> Runners \cup {None}]
  BY DEF SchedulerInv, TypeOK, RunnerType, SchedulerType
<1>1. PICK c : c = cRunner
  OBVIOUS
<1>2. c \in Runners
  BY <1>1, <1>a DEF TypeOK, CompletedType
<1>3. ~InLoaded(c)'
  <2>1. CASE loaded[schedulerModelKey(c)] = c
    <3>1. loaded' = [loaded EXCEPT ![schedulerModelKey(c)] = None]
      BY <1>1, <2>1
    <3>2. \A m \in Models : loaded[m] = c => m = schedulerModelKey(c)
      BY <1>2, NoneAssumption DEF SchedulerInv, KeyedByModel, Runners
    <3>3. QED
      BY <1>2, <1>a, <3>1, <3>2, NoneAssumption DEF InLoaded, Runners
  <2>2. CASE loaded[schedulerModelKey(c)] # c
    <3>1. ~InLoaded(c) /\ UNCHANGED loaded
      BY <1>1, <1>2, <2>2, FoundByKey
    <3>2. QED
      BY <3>1 DEF InLoaded
  <2>3. QED
    BY <2>1, <2>2
<1>4. ReportsAfterUse'
  BY DEF IdleInv, ReportsAfterUse, Reported
<1>5. RemovedForGood'
  <2>1. cPc' = "recover" => cRunner' = c
    BY <1>1 DEF CompletedIdle
  <2>2. QED
    BY <1>3, <2>1 DEF RemovedForGood, LoadedRunners, LoadedKeys, InLoaded
<1>6. ASSUME NEW x \in Runners \ {c} PROVE Settled(x)
  <2>1. InUse(x) => InUse(x)'
    BY DEF InUse, Reported
  <2>2. WillExpire(x) => WillExpire(x)'
    BY <1>1, <1>a DEF WillExpire
  <2>3. SameRunner(x)
    BY <1>1, <1>2, <1>a, NoneAssumption DEF SameRunner, InLoaded, Runners
  <2>4. QED
    BY <2>1, <2>2, <2>3 DEF Settled
<1>7. QED
  BY <1>a, <1>3, <1>4, <1>5, <1>6, SettledAll

\* The memory has come back, the unload is announced, the loop ends.
LEMMA CompletedQuiet ==
    ASSUME TypeOK, IdleInv, CompletedRecovered \/ CompletedNotify \/ CompletedExit
    PROVE  Onward
<1> USE DEF schedState, channels, runnerState, runnerRest, requestVars
<1>a. refMu \in [Runners -> Holders]
  BY DEF TypeOK, RunnerType
<1>1. CASE CompletedRecovered
  <2> USE <1>1 DEF CompletedRecovered
  <2>1. PICK c : c = cRunner
    OBVIOUS
  <2>2. c \in Runners => ~InLoaded(c)
    BY <2>1, LoadedIs DEF IdleInv, RemovedForGood
  <2>3. QED
    BY <1>a, <2>1, <2>2, LookedAtOnward DEF InLoaded
<1>2. CASE CompletedNotify \/ CompletedExit
  <2>1. /\ UNCHANGED <<loaded, refMu, refCount, sessionDuration, expireTimer, callbacks, retries,
                       expiredCh, finishedReqCh, requestVars>>
        /\ cPc \notin {"finished", "expired"} /\ cPc' # "recover"
    BY <1>2 DEF CompletedNotify, CompletedExit, CompletedIdle
  <2>2. ASSUME NEW x \in Runners PROVE Settled(x)
    BY <2>1 DEF Settled, SameRunner, InLoaded, InUse, Reported, WillExpire
  <2>3. ReportsAfterUse' /\ RemovedForGood'
    BY <2>1 DEF IdleInv, ReportsAfterUse, RemovedForGood, Reported
  <2>4. QED
    BY <2>2, <2>3, SettledAll
<1>3. QED
  BY <1>1, <1>2

\* Nothing is loaded at first.
LEMMA IdleInit == Init => IdleInv
  BY NoneAssumption DEF Init, IdleInv, ReportsAfterUse, RemovedForGood, IdleRunnerWillExpire,
     Reported, LoadedRunners, LoadedKeys

\* Every step is one of those above.
LEMMA IdleNext == SchedulerInv /\ ServiceInv /\ IdleInv /\ [Next]_vars => IdleInv'
<1> SUFFICES ASSUME SchedulerInv, ServiceInv, IdleInv, [Next]_vars PROVE IdleInv'
  OBVIOUS
<1>a. TypeOK /\ TypeOK' /\ Runners = Requests
  BY TypeNext DEF SchedulerInv, Runners
<1>1. Onward
  <2>1. CASE UNCHANGED vars
    BY <1>a, <2>1, QuietForAll
       DEF Onward, vars, channels, requestVars, completedVars
  <2>2. CASE PendingSteps
    <3>1. \/ LoopQuiet \/ PendingUseLoadedRunner \/ LoadInsert \/ PendingEvict
          \/ PendingSendExpired
      BY <2>2 DEF PendingSteps, LoopQuiet
    <3>2. QED
      BY <1>a, <3>1, LoopStepsQuiet, GivenOnward, InsertOnward, LockOnward, SendOnward
  <2>3. CASE CompletedSteps
    BY <1>a, <2>3, FinishedOnward, ReleaseOnward, SendOnward, ReceiveExpiredOnward, ExpiredOnward,
       UnloadOnward, CompletedQuiet DEF CompletedSteps
  <2>4. CASE HandlerSteps
    BY <1>a, <2>4, SendOnward, LockOnward DEF HandlerSteps
  <2>5. CASE EnvironmentSteps
    BY <1>a, <2>5, EnvironmentQuiet
  <2>6. ASSUME NEW q \in Requests, RequestSteps(q) \/ ContextDone(q) PROVE Onward
    BY <1>a, <2>6, RequestQuiet, GivenOnward, ReportOnward DEF RequestSteps
  <2>7. ASSUME NEW q \in Requests,
               LoaderSteps(q) \/ TimerFires(q) \/ CallbackSteps(q) \/ RetryExpired(q)
        PROVE  Onward
    BY <1>a, <2>7, GivenOnward, LockOnward, SendOnward DEF LoaderSteps, CallbackSteps
  <2>8. QED
    BY <2>1, <2>2, <2>3, <2>4, <2>5, <2>6, <2>7 DEF Next
<1>2. IdleRunnerWillExpire'
  BY <1>a, <1>1, LoadedIsNext DEF Onward, IdleRunnerWillExpire, IdleSound
<1>3. QED
  BY <1>1, <1>2 DEF Onward, IdleInv

\* A loaded runner with a count of zero that nobody uses and that is not kept
\* forever has something on its way that asks processCompleted to unload it,
\* whatever the sequence of uses, finishes, timers, evictions and stops.
THEOREM IdleRunnersExpire == Spec => []IdleRunnerWillExpire
<1>1. Init => SchedulerInv /\ ServiceInv /\ IdleInv
  BY SafetyInit, ServiceInit, IdleInit
<1>2. SchedulerInv /\ ServiceInv /\ IdleInv /\ [Next]_vars => (SchedulerInv /\ ServiceInv /\ IdleInv)'
  BY SafetyNext, ServiceNext, IdleNext
<1>3. IdleInv => IdleRunnerWillExpire
  BY DEF IdleInv
<1>4. QED
  BY <1>1, <1>2, <1>3, PTL DEF Spec
=============================================================================
