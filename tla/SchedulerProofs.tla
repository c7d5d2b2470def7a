-------------------------- MODULE SchedulerProofs --------------------------
(***************************************************************************)
(* Theorems about Scheduler, for every set of requests and models, every   *)
(* queue capacity and every sequence of events.                            *)
(***************************************************************************)
EXTENDS Scheduler, FiniteSetTheorems, TLAPS

(***************************************************************************)
(* Lemmas on the runners in loaded                                         *)
(***************************************************************************)

\* loaded is finite, and so are the snapshots taken of it.
LEMMA LoadedFinite ==
    ASSUME SchedulerType
    PROVE  /\ IsFiniteSet(LoadedKeys)
           /\ IsFiniteSet(LoadedRunners)
           /\ LoadedRunners \subseteq Runners
<1>1. IsFiniteSet(LoadedKeys)
  BY ModelsAssumption, FS_Subset DEF LoadedKeys
<1>2. IsFiniteSet(LoadedRunners)
  <2> DEFINE f == [m \in LoadedKeys |-> loaded[m]]
  <2>1. f \in Surjection(LoadedKeys, LoadedRunners)
    BY DEF Surjection, LoadedRunners
  <2>2. QED BY <1>1, <2>1, FS_Surjection
<1>3. LoadedRunners \subseteq Runners
  BY DEF LoadedRunners, LoadedKeys, SchedulerType
<1>4. QED BY <1>1, <1>2, <1>3

\* What findRunnerToUnload sorts is a sequence of the loaded runners, not
\* empty when a model is loaded.
LEMMA SortedRunnersType ==
    ASSUME SchedulerType, LoadedKeys # {}, NEW s \in SortedRunners
    PROVE  /\ s \in Seq(Runners)
           /\ s # <<>>
           /\ s[1] \in Runners
           /\ \A i \in DOMAIN s : s[i] \in LoadedRunners
<1>1. Cardinality(LoadedRunners) \in Nat
  BY LoadedFinite, FS_CardinalityType
<1>2. LoadedRunners # {}
  BY DEF LoadedRunners
<1>3. Cardinality(LoadedRunners) # 0
  BY <1>2, LoadedFinite, FS_EmptySet
<1>4. s \in [1..Cardinality(LoadedRunners) -> LoadedRunners]
  BY DEF SortedRunners
<1>5. QED BY <1>1, <1>3, <1>4, LoadedFinite

(***************************************************************************)
(* Type correctness                                                        *)
(***************************************************************************)

\* The initial states are well typed.
LEMMA TypeInit == Init => TypeOK
<1> SUFFICES ASSUME Init PROVE TypeOK
  OBVIOUS
<1> USE DEF Init, Runners
<1>1. SchedulerType
  <2>1. loaded \in [Models -> Runners \cup {None}]
    OBVIOUS
  <2>2. <<>> \in Seq(Requests) /\ 0 \in Nat
    OBVIOUS
  <2>3. QED BY <2>1, <2>2 DEF SchedulerType
<1>2. RunnerType BY RefAssumption DEF RunnerType, Holders, Durations, Zero
<1>3. RequestType BY AsksAssumption DEF RequestType, Phases
<1>4. PendingType BY DEF PendingType, PendingPcs
<1>5. CompletedType BY DEF CompletedType, CompletedPcs
<1>6. HandlerType BY DEF HandlerType
<1>7. EnvironmentType BY DEF EnvironmentType
<1>8. QED BY <1>1, <1>2, <1>3, <1>4, <1>5, <1>6, <1>7 DEF TypeOK

(***************************************************************************)
(* A step that leaves the variables of a part alone keeps its type.        *)
(***************************************************************************)

\* The fields of the scheduler keep their types when they are left alone.
LEMMA SchedulerSame ==
    ASSUME SchedulerType, UNCHANGED schedState, UNCHANGED channels
    PROVE  SchedulerType'
  BY DEF SchedulerType, schedState, channels

\* So do the fields of the runners,
LEMMA RunnerSame ==
    ASSUME RunnerType, UNCHANGED runnerState
    PROVE  RunnerType'
  BY DEF RunnerType, runnerState, runnerRest

\* those of the requests,
LEMMA RequestSame ==
    ASSUME RequestType, UNCHANGED requestVars
    PROVE  RequestType'
  BY DEF RequestType, requestVars

\* the locals of processPending,
LEMMA PendingSame ==
    ASSUME PendingType, UNCHANGED pendingVars
    PROVE  PendingType'
  BY DEF PendingType, pendingVars

\* those of processCompleted,
LEMMA CompletedSame ==
    ASSUME CompletedType, UNCHANGED completedVars
    PROVE  CompletedType'
  BY DEF CompletedType, completedVars

\* those of the stop handlers,
LEMMA HandlerSame ==
    ASSUME HandlerType, UNCHANGED handlerVars
    PROVE  HandlerType'
  BY DEF HandlerType, handlerVars

\* and the environment.
LEMMA EnvironmentSame ==
    ASSUME EnvironmentType, UNCHANGED envVars
    PROVE  EnvironmentType'
  BY DEF EnvironmentType, envVars

\* Every step keeps the types, one case per action.
LEMMA TypeNext == TypeOK /\ [Next]_vars => TypeOK'
<1> SUFFICES ASSUME TypeOK, [Next]_vars PROVE TypeOK'
  OBVIOUS
<1> USE DEF TypeOK, schedState, channels, runnerState, runnerRest, requestVars,
            pendingVars, completedVars, handlerVars, envVars
<1>1. ASSUME NEW q \in Requests, GetRunner(q) PROVE TypeOK'
  <2>1. RequestType' BY <1>1, NoneAssumption DEF GetRunner, schedulerModelKey, Ask,
          RequestType, SchedulerType, Runners, Phases
  <2>2. QED BY <1>1, <2>1, SchedulerSame, RunnerSame, PendingSame, CompletedSame,
          HandlerSame, EnvironmentSame
          DEF GetRunner
<1>2. ASSUME NEW q \in Requests, NeedsReload(q) PROVE TypeOK'
  <2>1. RequestType' BY <1>2 DEF NeedsReload, RequestType, Runners, Phases
  <2>2. QED BY <1>2, <2>1, SchedulerSame, RunnerSame, PendingSame, CompletedSame,
          HandlerSame, EnvironmentSame
          DEF NeedsReload
<1>3. ASSUME NEW q \in Requests, UseLoadedRunner(q) PROVE TypeOK'
  <2>1. RunnerType' BY <1>3, RefAssumption, NoneAssumption DEF UseLoadedRunner,
          useLoadedRunner, Durations, NoDuration, Ask, RunnerType, RequestType, Runners,
          Holders
  <2>2. RequestType' BY <1>3, RefAssumption, NoneAssumption DEF UseLoadedRunner,
          useLoadedRunner, Durations, NoDuration, Ask, RequestType, Runners, Phases
  <2>3. QED BY <1>3, <2>1, <2>2, SchedulerSame, PendingSame, CompletedSame, HandlerSame,
          EnvironmentSame
          DEF UseLoadedRunner, useLoadedRunner
<1>4. ASSUME NEW q \in Requests, Enqueue(q) PROVE TypeOK'
  <2>1. SchedulerType'
    <3>1. pendingReqCh' \in Seq(Requests)
      <4>1. CASE HasRoom(pendingReqCh)
        <5>1. Append(pendingReqCh, q) \in Seq(Requests)
          BY DEF SchedulerType
        <5>2. pendingReqCh' = Append(pendingReqCh, q)
          BY <1>4, <4>1 DEF Enqueue
        <5>3. QED BY <5>1, <5>2
      <4>2. CASE ~HasRoom(pendingReqCh)
        BY <1>4, <4>2 DEF Enqueue, SchedulerType
      <4>3. QED BY <4>1, <4>2
    <3>2. QED BY <1>4, <3>1 DEF Enqueue, SchedulerType
  <2>2. RequestType' BY <1>4 DEF Enqueue, HasRoom, RequestType, Runners, Phases
  <2>3. QED BY <1>4, <2>1, <2>2, RunnerSame, PendingSame, CompletedSame, HandlerSame,
          EnvironmentSame
          DEF Enqueue
<1>5. ASSUME NEW q \in Requests, ContextDone(q) PROVE TypeOK'
  <2>1. RequestType' BY <1>5 DEF ContextDone, RequestType, Runners, Phases
  <2>2. QED BY <1>5, <2>1, SchedulerSame, RunnerSame, PendingSame, CompletedSame,
          HandlerSame, EnvironmentSame
          DEF ContextDone
<1>6. ASSUME NEW q \in Requests, ReportFinished(q) PROVE TypeOK'
  <2>1. SchedulerType' BY <1>6 DEF ReportFinished, SchedulerType, Runners
  <2>2. RequestType' BY <1>6 DEF ReportFinished, RequestType, Runners, Phases
  <2>3. QED BY <1>6, <2>1, <2>2, RunnerSame, PendingSame, CompletedSame, HandlerSame,
          EnvironmentSame
          DEF ReportFinished
<1>7. ASSUME NEW r \in Runners, LoaderReady(r) PROVE TypeOK'
  <2>1. RunnerType' BY <1>7, RefAssumption, NoneAssumption DEF LoaderReady, RunnerType,
          Runners, Holders
  <2>2. RequestType' BY <1>7, RefAssumption, NoneAssumption DEF LoaderReady,
          RequestType, Runners, Phases
  <2>3. QED BY <1>7, <2>1, <2>2, SchedulerSame, PendingSame, CompletedSame, HandlerSame,
          EnvironmentSame
          DEF LoaderReady
<1>8. ASSUME NEW r \in Runners, LoaderError(r) PROVE TypeOK'
  <2>1. RunnerType' BY <1>8 DEF LoaderError, Refuse, RunnerType, Runners, Holders
  <2>2. RequestType' BY <1>8 DEF LoaderError, Refuse, RequestType, Runners, Phases
  <2>3. QED BY <1>8, <2>1, <2>2, SchedulerSame, PendingSame, CompletedSame, HandlerSame,
          EnvironmentSame
          DEF LoaderError
<1>9. ASSUME NEW r \in Runners, LoaderSendExpired(r) PROVE TypeOK'
  <2>1. SchedulerType' BY <1>9 DEF LoaderSendExpired, SendExpired, OnlyExpiredCh,
          SchedulerType, Runners
  <2>2. RunnerType' BY <1>9 DEF LoaderSendExpired, SendExpired, OnlyExpiredCh,
          RunnerType, Runners, Holders
  <2>3. QED BY <1>9, <2>1, <2>2, RequestSame, PendingSame, CompletedSame, HandlerSame,
          EnvironmentSame
          DEF LoaderSendExpired, OnlyExpiredCh
<1>10. ASSUME NEW r \in Runners, TimerFires(r) PROVE TypeOK'
  <2>1. RunnerType' BY <1>10 DEF TimerFires, RunnerType, Runners, Holders
  <2>2. QED BY <1>10, <2>1, SchedulerSame, RequestSame, PendingSame, CompletedSame,
          HandlerSame, EnvironmentSame
          DEF TimerFires
<1>11. ASSUME NEW r \in Runners, TimerCallback(r) PROVE TypeOK'
  <2>1. RunnerType' BY <1>11 DEF TimerCallback, RunnerType, Runners, Holders
  <2>2. QED BY <1>11, <2>1, SchedulerSame, RequestSame, PendingSame, CompletedSame,
          HandlerSame, EnvironmentSame
          DEF TimerCallback
<1>12. ASSUME NEW r \in Runners, TimerSendExpired(r) PROVE TypeOK'
  <2>1. SchedulerType' BY <1>12 DEF TimerSendExpired, SendExpired, OnlyExpiredCh,
          SchedulerType, Runners
  <2>2. RunnerType' BY <1>12 DEF TimerSendExpired, SendExpired, OnlyExpiredCh,
          RunnerType, Runners, Holders
  <2>3. QED BY <1>12, <2>1, <2>2, RequestSame, PendingSame, CompletedSame, HandlerSame,
          EnvironmentSame
          DEF TimerSendExpired, OnlyExpiredCh
<1>13. ASSUME NEW r \in Runners, RetryExpired(r) PROVE TypeOK'
  <2>1. SchedulerType' BY <1>13 DEF RetryExpired, OnlyExpiredCh, SchedulerType, Runners
  <2>2. RunnerType' BY <1>13 DEF RetryExpired, OnlyExpiredCh, RunnerType, Runners,
          Holders
  <2>3. QED BY <1>13, <2>1, <2>2, RequestSame, PendingSame, CompletedSame, HandlerSame,
          EnvironmentSame
          DEF RetryExpired, OnlyExpiredCh
<1>14. ASSUME PendingReceive PROVE TypeOK'
  <2>1. SchedulerType' BY <1>14, NoneAssumption DEF PendingReceive, SchedulerType,
          Runners
  <2>2. PendingType' BY <1>14, NoneAssumption DEF PendingReceive, PendingType,
          SchedulerType, Runners, PendingPcs
  <2>3. QED BY <1>14, <2>1, <2>2, RunnerSame, RequestSame, CompletedSame, HandlerSame,
          EnvironmentSame
          DEF PendingReceive
<1>15. ASSUME PendingIgnoreUnload PROVE TypeOK'
  <2>1. SchedulerType' BY <1>15 DEF PendingIgnoreUnload, SchedulerType, Runners
  <2>2. QED BY <1>15, <2>1, RunnerSame, RequestSame, PendingSame, CompletedSame,
          HandlerSame, EnvironmentSame
          DEF PendingIgnoreUnload
<1>16. ASSUME PendingSnapshot PROVE TypeOK'
  <2>1. PendingType' BY <1>16 DEF PendingSnapshot, schedulerModelKey, Ask, PendingType,
          SchedulerType, RequestType, Runners, PendingPcs
  <2>2. QED BY <1>16, <2>1, SchedulerSame, RunnerSame, RequestSame, CompletedSame,
          HandlerSame, EnvironmentSame
          DEF PendingSnapshot
<1>17. ASSUME PendingNeedsReload PROVE TypeOK'
  <2>1. PendingType' BY <1>17 DEF PendingNeedsReload, PendingType, Runners, PendingPcs
  <2>2. QED BY <1>17, <2>1, SchedulerSame, RunnerSame, RequestSame, CompletedSame,
          HandlerSame, EnvironmentSame
          DEF PendingNeedsReload
<1>18. ASSUME PendingUseLoadedRunner PROVE TypeOK'
  <2>1. RunnerType'
    <3>1. pReq \in Requests /\ pRunner \in Runners
      BY <1>18 DEF PendingUseLoadedRunner, PendingType
    <3>2. ask[pReq].keepAlive \in Durations \cup {NoDuration}
      BY <3>1 DEF RequestType, Ask
    <3>3. refCount' \in [Runners -> 0..(RefModulus - 1)]
      BY <1>18, <3>1, RefAssumption DEF PendingUseLoadedRunner, useLoadedRunner, RunnerType
    <3>4. sessionDuration' \in [Runners -> Durations]
      BY <1>18, <3>1, <3>2 DEF PendingUseLoadedRunner, useLoadedRunner, RunnerType
    <3>5. QED BY <1>18, <3>3, <3>4 DEF PendingUseLoadedRunner, useLoadedRunner, RunnerType
  <2>2. RequestType' BY <1>18, RefAssumption, NoneAssumption DEF PendingUseLoadedRunner,
          useLoadedRunner, PendingIdle, Durations, NoDuration, Ask, RequestType,
          PendingType, Runners, Phases
  <2>3. PendingType' BY <1>18, RefAssumption, NoneAssumption DEF PendingUseLoadedRunner,
          useLoadedRunner, PendingIdle, Durations, NoDuration, Ask, PendingType,
          RequestType, Runners, PendingPcs
  <2>4. QED BY <1>18, <2>1, <2>2, <2>3, SchedulerSame, CompletedSame, HandlerSame,
          EnvironmentSame
          DEF PendingUseLoadedRunner, useLoadedRunner, PendingIdle
<1>19. ASSUME FindRunnerToUnload PROVE TypeOK'
  <2>1. PendingType'
    <3>1. CASE LoadedKeys = {}
      BY <1>19, <3>1 DEF FindRunnerToUnload, PendingType, PendingPcs
    <3>2. CASE LoadedKeys # {}
      <4>1. /\ pList' \in Seq(Runners)
            /\ pList' # <<>>
            /\ pList'[1] \in Runners
        BY <1>19, <3>2, SortedRunnersType DEF FindRunnerToUnload
      <4>2. QED BY <1>19, <3>2, <4>1, NoneAssumption
                DEF FindRunnerToUnload, PendingType, PendingPcs, Runners
    <3>3. QED BY <3>1, <3>2
  <2>2. QED BY <1>19, <2>1, SchedulerSame, RunnerSame, RequestSame, CompletedSame,
          HandlerSame, EnvironmentSame
          DEF FindRunnerToUnload
<1>20. ASSUME FindIdleRunner PROVE TypeOK'
  <2>1. PendingType'
    <3>1. pList \in Seq(Runners) /\ pList # <<>>
      BY <1>20 DEF FindIdleRunner, PendingType
    <3>2. Head(pList) \in Runners /\ Tail(pList) \in Seq(Runners)
      BY <3>1
    <3>3. pList' \in Seq(Runners) /\ pRunner' \in Runners
      <4>1. CASE refCount[Head(pList)] = 0
        BY <1>20, <3>2, <4>1 DEF FindIdleRunner
      <4>2. CASE refCount[Head(pList)] # 0
        BY <1>20, <3>2, <4>2 DEF FindIdleRunner, PendingType
      <4>3. QED BY <4>1, <4>2
    <3>4. QED BY <1>20, <3>3, NoneAssumption DEF FindIdleRunner, PendingType, PendingPcs, Runners
  <2>2. QED BY <1>20, <2>1, SchedulerSame, RunnerSame, RequestSame, CompletedSame,
          HandlerSame, EnvironmentSame
          DEF FindIdleRunner
<1>21. ASSUME UpdateFreeSpace PROVE TypeOK'
  <2>1. PendingType' BY <1>21 DEF UpdateFreeSpace, PendingType, Runners, PendingPcs
  <2>2. QED BY <1>21, <2>1, SchedulerSame, RunnerSame, RequestSame, CompletedSame,
          HandlerSame, EnvironmentSame
          DEF UpdateFreeSpace
<1>22. ASSUME LoadNoBatchConfig PROVE TypeOK'
  <2>1. SchedulerType' BY <1>22 DEF LoadNoBatchConfig, PendingIdle, SchedulerType,
          Runners
  <2>2. PendingType' BY <1>22 DEF LoadNoBatchConfig, PendingIdle, PendingType, Runners,
          PendingPcs
  <2>3. EnvironmentType' BY <1>22 DEF LoadNoBatchConfig, PendingIdle, EnvironmentType,
          Runners
  <2>4. QED BY <1>22, <2>1, <2>2, <2>3, RunnerSame, RequestSame, CompletedSame,
          HandlerSame
          DEF LoadNoBatchConfig, PendingIdle
<1>23. ASSUME LoadRefused PROVE TypeOK'
  <2>1. RequestType' BY <1>23 DEF LoadRefused, PendingIdle, Refuse, RequestType,
          PendingType, Runners, Phases
  <2>2. PendingType' BY <1>23 DEF LoadRefused, PendingIdle, Refuse, PendingType,
          Runners, PendingPcs
  <2>3. QED BY <1>23, <2>1, <2>2, SchedulerSame, RunnerSame, CompletedSame, HandlerSame,
          EnvironmentSame
          DEF LoadRefused, PendingIdle
<1>24. ASSUME LoadNeedsEviction PROVE TypeOK'
  <2>1. PendingType' BY <1>24 DEF LoadNeedsEviction, PendingType, Runners, PendingPcs
  <2>2. QED BY <1>24, <2>1, SchedulerSame, RunnerSame, RequestSame, CompletedSame,
          HandlerSame, EnvironmentSame
          DEF LoadNeedsEviction
<1>25. ASSUME LoadSpawn PROVE TypeOK'
  <2>1. SchedulerType' BY <1>25 DEF LoadSpawn, SchedulerType, PendingType, Runners
  <2>2. RunnerType' BY <1>25 DEF LoadSpawn, RunnerType, PendingType, Runners, Holders
  <2>3. PendingType' BY <1>25 DEF LoadSpawn, PendingType, Runners, PendingPcs
  <2>4. QED BY <1>25, <2>1, <2>2, <2>3, RequestSame, CompletedSame, HandlerSame,
          EnvironmentSame
          DEF LoadSpawn
<1>26. ASSUME LoadReturns PROVE TypeOK'
  <2>1. PendingType' BY <1>26 DEF LoadReturns, PendingType, Runners, PendingPcs
  <2>2. QED BY <1>26, <2>1, SchedulerSame, RunnerSame, RequestSame, CompletedSame,
          HandlerSame, EnvironmentSame
          DEF LoadReturns
<1>27. ASSUME LoadFailed PROVE TypeOK'
  <2>1. SchedulerType' BY <1>27 DEF LoadFailed, PendingIdle, Refuse, SchedulerType,
          PendingType, Runners
  <2>2. RunnerType' BY <1>27 DEF LoadFailed, PendingIdle, Refuse, RunnerType,
          PendingType, SchedulerType, Runners, Holders
  <2>3. RequestType' BY <1>27 DEF LoadFailed, PendingIdle, Refuse, RequestType,
          PendingType, SchedulerType, Runners, Phases
  <2>4. PendingType' BY <1>27 DEF LoadFailed, PendingIdle, Refuse, PendingType,
          SchedulerType, Runners, PendingPcs
  <2>5. EnvironmentType' BY <1>27 DEF LoadFailed, PendingIdle, Refuse, EnvironmentType,
          PendingType, SchedulerType, Runners
  <2>6. QED BY <1>27, <2>1, <2>2, <2>3, <2>4, <2>5, CompletedSame, HandlerSame
          DEF LoadFailed, PendingIdle
<1>28. ASSUME LoadInsert PROVE TypeOK'
  <2>1. SchedulerType' BY <1>28, KeepAliveAssumption DEF LoadInsert, PendingIdle,
          unload, schedulerModelKey, Ask, Durations, NoDuration, SchedulerType,
          PendingType, RequestType, Runners
  <2>2. RunnerType' BY <1>28, KeepAliveAssumption DEF LoadInsert, PendingIdle, unload,
          schedulerModelKey, Ask, Durations, NoDuration, RunnerType, PendingType,
          RequestType, SchedulerType, Runners, Holders
  <2>3. PendingType' BY <1>28, KeepAliveAssumption DEF LoadInsert, PendingIdle, unload,
          schedulerModelKey, Ask, Durations, NoDuration, PendingType, RequestType,
          SchedulerType, Runners, PendingPcs
  <2>4. QED BY <1>28, <2>1, <2>2, <2>3, RequestSame, CompletedSame, HandlerSame,
          EnvironmentSame
          DEF LoadInsert, PendingIdle
<1>29. ASSUME PendingEvict PROVE TypeOK'
  <2>1. RunnerType' BY <1>29 DEF PendingEvict, StopTimerAndKeepAlive, Durations, Zero,
          RunnerType, PendingType, Runners, Holders
  <2>2. PendingType' BY <1>29 DEF PendingEvict, StopTimerAndKeepAlive, Durations, Zero,
          PendingType, Runners, PendingPcs
  <2>3. QED BY <1>29, <2>1, <2>2, SchedulerSame, RequestSame, CompletedSame,
          HandlerSame, EnvironmentSame
          DEF PendingEvict
<1>30. ASSUME PendingSendExpired PROVE TypeOK'
  <2>1. SchedulerType' BY <1>30 DEF PendingSendExpired, SendExpired, SchedulerType,
          PendingType, Runners
  <2>2. RunnerType' BY <1>30 DEF PendingSendExpired, SendExpired, RunnerType,
          PendingType, Runners, Holders
  <2>3. PendingType' BY <1>30 DEF PendingSendExpired, SendExpired, PendingType, Runners,
          PendingPcs
  <2>4. QED BY <1>30, <2>1, <2>2, <2>3, RequestSame, CompletedSame, HandlerSame,
          EnvironmentSame
          DEF PendingSendExpired
<1>31. ASSUME PendingUnloadCompleted PROVE TypeOK'
  <2>1. SchedulerType' BY <1>31 DEF PendingUnloadCompleted, SchedulerType, Runners
  <2>2. PendingType' BY <1>31 DEF PendingUnloadCompleted, PendingType, Runners,
          PendingPcs
  <2>3. QED BY <1>31, <2>1, <2>2, RunnerSame, RequestSame, CompletedSame, HandlerSame,
          EnvironmentSame
          DEF PendingUnloadCompleted
<1>32. ASSUME PendingExit PROVE TypeOK'
  <2>1. PendingType' BY <1>32 DEF PendingExit, PendingType, Runners, PendingPcs
  <2>2. QED BY <1>32, <2>1, SchedulerSame, RunnerSame, RequestSame, CompletedSame,
          HandlerSame, EnvironmentSame
          DEF PendingExit
<1>33. ASSUME CompletedReceiveFinished PROVE TypeOK'
  <2>1. SchedulerType' BY <1>33 DEF CompletedReceiveFinished, AfterLookup,
          schedulerModelKey, Ask, SchedulerType, RequestType, Runners
  <2>2. CompletedType' BY <1>33 DEF CompletedReceiveFinished, AfterLookup,
          schedulerModelKey, Ask, CompletedType, SchedulerType, RequestType, Runners,
          CompletedPcs
  <2>3. QED BY <1>33, <2>1, <2>2, RunnerSame, RequestSame, PendingSame, HandlerSame,
          EnvironmentSame
          DEF CompletedReceiveFinished
<1>34. ASSUME CompletedRelease PROVE TypeOK'
  <2>1. RunnerType' BY <1>34, RefAssumption DEF CompletedRelease, CompletedIdle,
          RunnerType, CompletedType, Runners, Holders
  <2>2. CompletedType' BY <1>34, RefAssumption DEF CompletedRelease, CompletedIdle,
          CompletedType, Runners, CompletedPcs
  <2>3. QED BY <1>34, <2>1, <2>2, SchedulerSame, RequestSame, PendingSame, HandlerSame,
          EnvironmentSame
          DEF CompletedRelease, CompletedIdle
<1>35. ASSUME CompletedSendExpired PROVE TypeOK'
  <2>1. SchedulerType' BY <1>35 DEF CompletedSendExpired, SendExpired, OnlyExpiredCh,
          CompletedIdle, SchedulerType, CompletedType, Runners
  <2>2. RunnerType' BY <1>35 DEF CompletedSendExpired, SendExpired, OnlyExpiredCh,
          CompletedIdle, RunnerType, CompletedType, Runners, Holders
  <2>3. CompletedType' BY <1>35 DEF CompletedSendExpired, SendExpired, OnlyExpiredCh,
          CompletedIdle, CompletedType, Runners, CompletedPcs
  <2>4. QED BY <1>35, <2>1, <2>2, <2>3, RequestSame, PendingSame, HandlerSame,
          EnvironmentSame
          DEF CompletedSendExpired, OnlyExpiredCh, CompletedIdle
<1>36. ASSUME CompletedReceiveExpired PROVE TypeOK'
  <2>1. SchedulerType' BY <1>36, NoneAssumption DEF CompletedReceiveExpired,
          SchedulerType, Runners
  <2>2. CompletedType' BY <1>36, NoneAssumption DEF CompletedReceiveExpired,
          CompletedType, SchedulerType, Runners, CompletedPcs
  <2>3. QED BY <1>36, <2>1, <2>2, RunnerSame, RequestSame, PendingSame, HandlerSame,
          EnvironmentSame
          DEF CompletedReceiveExpired
<1>37. ASSUME CompletedExpired PROVE TypeOK'
  <2>1. RunnerType' BY <1>37 DEF CompletedExpired, CompletedIdle, RunnerType,
          CompletedType, Runners, Holders
  <2>2. CompletedType' BY <1>37 DEF CompletedExpired, CompletedIdle, CompletedType,
          Runners, CompletedPcs
  <2>3. QED BY <1>37, <2>1, <2>2, SchedulerSame, RequestSame, PendingSame, HandlerSame,
          EnvironmentSame
          DEF CompletedExpired, CompletedIdle
<1>38. ASSUME CompletedUnload PROVE TypeOK'
  <2>1. SchedulerType' BY <1>38 DEF CompletedUnload, CompletedIdle, unload,
          schedulerModelKey, Ask, SchedulerType, CompletedType, RequestType, Runners
  <2>2. RunnerType' BY <1>38 DEF CompletedUnload, CompletedIdle, unload,
          schedulerModelKey, Ask, RunnerType, CompletedType, RequestType, Runners,
          Holders
  <2>3. CompletedType' BY <1>38 DEF CompletedUnload, CompletedIdle, unload,
          schedulerModelKey, Ask, CompletedType, RequestType, Runners, CompletedPcs
  <2>4. QED BY <1>38, <2>1, <2>2, <2>3, RequestSame, PendingSame, HandlerSame,
          EnvironmentSame
          DEF CompletedUnload, CompletedIdle
<1>39. ASSUME CompletedRecovered PROVE TypeOK'
  <2>1. RunnerType' BY <1>39 DEF CompletedRecovered, RunnerType, CompletedType, Runners,
          Holders
  <2>2. CompletedType' BY <1>39 DEF CompletedRecovered, CompletedType, Runners,
          CompletedPcs
  <2>3. QED BY <1>39, <2>1, <2>2, SchedulerSame, RequestSame, PendingSame, HandlerSame,
          EnvironmentSame
          DEF CompletedRecovered
<1>40. ASSUME CompletedNotify PROVE TypeOK'
  <2>1. SchedulerType' BY <1>40 DEF CompletedNotify, CompletedIdle, SchedulerType,
          Runners
  <2>2. CompletedType' BY <1>40 DEF CompletedNotify, CompletedIdle, CompletedType,
          Runners, CompletedPcs
  <2>3. QED BY <1>40, <2>1, <2>2, RunnerSame, RequestSame, PendingSame, HandlerSame,
          EnvironmentSame
          DEF CompletedNotify, CompletedIdle
<1>41. ASSUME CompletedExit PROVE TypeOK'
  <2>1. CompletedType' BY <1>41 DEF CompletedExit, CompletedType, Runners, CompletedPcs
  <2>2. QED BY <1>41, <2>1, SchedulerSame, RunnerSame, RequestSame, PendingSame,
          HandlerSame, EnvironmentSame
          DEF CompletedExit
<1>42. ASSUME NEW r \in Runners, HandlerLock(r) PROVE TypeOK'
  <2>1. RunnerType' BY <1>42, NoneAssumption DEF HandlerLock, StopTimerAndKeepAlive,
          HandlerNext, ExpireNow, Durations, Zero, RunnerType, Runners, Holders
  <2>2. HandlerType' BY <1>42, NoneAssumption DEF HandlerLock, StopTimerAndKeepAlive,
          HandlerNext, ExpireNow, Durations, Zero, HandlerType, Runners
  <2>3. QED BY <1>42, <2>1, <2>2, SchedulerSame, RequestSame, PendingSame,
          CompletedSame, EnvironmentSame
          DEF HandlerLock, HandlerNext
<1>43. ASSUME HandlerSendExpired PROVE TypeOK'
  <2>1. SchedulerType' BY <1>43, NoneAssumption DEF HandlerSendExpired, SendExpired,
          OnlyExpiredCh, HandlerNext, SchedulerType, HandlerType, Runners
  <2>2. RunnerType' BY <1>43, NoneAssumption DEF HandlerSendExpired, SendExpired,
          OnlyExpiredCh, HandlerNext, RunnerType, HandlerType, Runners, Holders
  <2>3. HandlerType' BY <1>43, NoneAssumption DEF HandlerSendExpired, SendExpired,
          OnlyExpiredCh, HandlerNext, HandlerType, Runners
  <2>4. QED BY <1>43, <2>1, <2>2, <2>3, RequestSame, PendingSame, CompletedSame,
          EnvironmentSame
          DEF HandlerSendExpired, OnlyExpiredCh, HandlerNext
<1>44. ASSUME NEW m \in Models, StopModelHandler(m) PROVE TypeOK'
  <2>1. HandlerType' BY <1>44 DEF StopModelHandler, Happens, HandlerStarts, HandlerType,
          SchedulerType, Runners
  <2>2. EnvironmentType' BY <1>44 DEF StopModelHandler, Happens, HandlerStarts,
          EnvironmentType, SchedulerType, Runners
  <2>3. QED BY <1>44, <2>1, <2>2, SchedulerSame, RunnerSame, RequestSame, PendingSame,
          CompletedSame
          DEF StopModelHandler, Happens, HandlerStarts
<1>45. ASSUME NEW m \in Models, expireRunner(m) PROVE TypeOK'
  <2>1. HandlerType' BY <1>45 DEF expireRunner, Happens, HandlerStarts, HandlerType,
          SchedulerType, Runners
  <2>2. EnvironmentType' BY <1>45 DEF expireRunner, Happens, HandlerStarts,
          EnvironmentType, SchedulerType, Runners
  <2>3. QED BY <1>45, <2>1, <2>2, SchedulerSame, RunnerSame, RequestSame, PendingSame,
          CompletedSame
          DEF expireRunner, Happens, HandlerStarts
<1>46. ASSUME expireRunnersForRuntimeOOM PROVE TypeOK'
  <2>1. HandlerType' BY <1>46 DEF expireRunnersForRuntimeOOM, Happens, HandlerStarts,
          LoadedRunners, LoadedKeys, HandlerType, SchedulerType, Runners
  <2>2. EnvironmentType' BY <1>46 DEF expireRunnersForRuntimeOOM, Happens,
          HandlerStarts, LoadedRunners, LoadedKeys, EnvironmentType, SchedulerType,
          Runners
  <2>3. QED BY <1>46, <2>1, <2>2, SchedulerSame, RunnerSame, RequestSame, PendingSame,
          CompletedSame
          DEF expireRunnersForRuntimeOOM, Happens, HandlerStarts
<1>47. ASSUME StopAllModelsHandler PROVE TypeOK'
  <2>1. SchedulerType' BY <1>47, EventsAssumption DEF StopAllModelsHandler, Happens,
          unloadAllRunners, SchedulerType, Runners
  <2>2. RunnerType' BY <1>47, EventsAssumption DEF StopAllModelsHandler, Happens,
          unloadAllRunners, RunnerType, Runners, Holders
  <2>3. EnvironmentType' BY <1>47, EventsAssumption DEF StopAllModelsHandler, Happens,
          unloadAllRunners, EnvironmentType, Runners
  <2>4. QED BY <1>47, <2>1, <2>2, <2>3, RequestSame, PendingSame, CompletedSame,
          HandlerSame
          DEF StopAllModelsHandler, Happens, unloadAllRunners
<1>48. ASSUME NEW r \in Runners, Crash(r) PROVE TypeOK'
  <2>1. RunnerType' BY <1>48 DEF Crash, Happens, RunnerType, Runners, Holders
  <2>2. EnvironmentType' BY <1>48 DEF Crash, Happens, EnvironmentType, Runners
  <2>3. QED BY <1>48, <2>1, <2>2, SchedulerSame, RequestSame, PendingSame,
          CompletedSame, HandlerSame
          DEF Crash, Happens
<1>49. ASSUME ShutdownCancel PROVE TypeOK'
  <2>1. EnvironmentType' BY <1>49 DEF ShutdownCancel, Happens, EnvironmentType, Runners
  <2>2. QED BY <1>49, <2>1, SchedulerSame, RunnerSame, RequestSame, PendingSame,
          CompletedSame, HandlerSame
          DEF ShutdownCancel, Happens
<1>50. ASSUME ShutdownUnload PROVE TypeOK'
  <2>1. SchedulerType' BY <1>50 DEF ShutdownUnload, unloadAllRunners, SchedulerType,
          Runners
  <2>2. RunnerType' BY <1>50 DEF ShutdownUnload, unloadAllRunners, RunnerType, Runners,
          Holders
  <2>3. EnvironmentType' BY <1>50 DEF ShutdownUnload, unloadAllRunners, EnvironmentType,
          Runners
  <2>4. QED BY <1>50, <2>1, <2>2, <2>3, RequestSame, PendingSame, CompletedSame,
          HandlerSame
          DEF ShutdownUnload, unloadAllRunners
<1>51. CASE UNCHANGED vars
  BY <1>51, SchedulerSame, RunnerSame, RequestSame, PendingSame, CompletedSame,
     HandlerSame, EnvironmentSame DEF vars
<1>52. QED
  BY <1>1, <1>2, <1>3, <1>4, <1>5, <1>6, <1>7, <1>8, <1>9, <1>10, <1>11, <1>12, <1>13, <1>14, <1>15, <1>16, <1>17, <1>18, <1>19, <1>20, <1>21, <1>22, <1>23, <1>24, <1>25, <1>26, <1>27, <1>28, <1>29, <1>30, <1>31, <1>32, <1>33, <1>34, <1>35, <1>36, <1>37, <1>38, <1>39, <1>40, <1>41, <1>42, <1>43, <1>44, <1>45, <1>46, <1>47, <1>48, <1>49, <1>50, <1>51
  DEF Next, RequestSteps, PendingSteps, CompletedSteps, LoaderSteps, CallbackSteps,
      HandlerSteps, EnvironmentSteps, Runners

\* Every variable of the scheduler keeps its type and no goroutine follows a
\* nil pointer of its own.
THEOREM TypeCorrect == Spec => []TypeOK
<1>1. Init => TypeOK
  BY TypeInit
<1>2. TypeOK /\ [Next]_vars => TypeOK'
  BY TypeNext
<1>3. QED BY <1>1, <1>2, PTL DEF Spec

-----------------------------------------------------------------------------
(***************************************************************************)
(* The safety invariants. SchedulerInv is inductive: each of its conjuncts *)
(* is shown to survive a step from a state that satisfies all of them. The *)
(* steps fall into three kinds, those of processPending, those of          *)
(* processCompleted, and the others, which neither change loaded nor start *)
(* a process.                                                              *)
(***************************************************************************)

\* A step of a request's handler, a loader, a timer, a handler that stops or
\* expires runners, or the environment: processes may end, never start.
Bystander ==
    /\ UNCHANGED <<loaded, ask, unloadedCh, pendingVars, completedVars>>
    /\ \/ unloadAllRunners
       \/ /\ UNCHANGED activeLoading
          /\ \A r \in Runners : alive'[r] => alive[r]

\* The handler of a request is a bystander.
LEMMA RequestBystander ==
    ASSUME NEW q \in Requests, RequestSteps(q) \/ ContextDone(q)
    PROVE  Bystander
<1> USE DEF Bystander, schedState, channels, runnerState, runnerRest, requestVars,
            pendingVars, completedVars
<1>1. CASE GetRunner(q) BY <1>1 DEF GetRunner
<1>2. CASE NeedsReload(q) BY <1>2 DEF NeedsReload
<1>3. CASE UseLoadedRunner(q) BY <1>3 DEF UseLoadedRunner
<1>4. CASE Enqueue(q) BY <1>4 DEF Enqueue
<1>5. CASE ReportFinished(q) BY <1>5 DEF ReportFinished
<1>6. CASE ContextDone(q) BY <1>6 DEF ContextDone
<1>7. QED BY <1>1, <1>2, <1>3, <1>4, <1>5, <1>6 DEF RequestSteps

\* So are the goroutines of a load, of a timer and of a retried event,
LEMMA RunnerBystander ==
    ASSUME NEW r \in Runners,
           LoaderSteps(r) \/ TimerFires(r) \/ CallbackSteps(r) \/ RetryExpired(r)
    PROVE  Bystander
<1> USE DEF Bystander, schedState, channels, runnerState, runnerRest, requestVars,
            pendingVars, completedVars
<1>1. CASE LoaderReady(r) BY <1>1 DEF LoaderReady
<1>2. CASE LoaderError(r) BY <1>2 DEF LoaderError
<1>3. CASE LoaderSendExpired(r) BY <1>3 DEF LoaderSendExpired, OnlyExpiredCh
<1>4. CASE TimerFires(r) BY <1>4 DEF TimerFires
<1>5. CASE TimerCallback(r) BY <1>5 DEF TimerCallback
<1>6. CASE TimerSendExpired(r) BY <1>6 DEF TimerSendExpired, OnlyExpiredCh
<1>7. CASE RetryExpired(r) BY <1>7 DEF RetryExpired, OnlyExpiredCh
<1>8. QED BY <1>1, <1>2, <1>3, <1>4, <1>5, <1>6, <1>7 DEF LoaderSteps, CallbackSteps

\* and the stop handlers and the environment.
LEMMA HandlerBystander ==
    ASSUME TypeOK, HandlerSteps \/ EnvironmentSteps
    PROVE  Bystander
<1> USE DEF Bystander, schedState, channels, runnerState, runnerRest, requestVars,
            pendingVars, completedVars
<1>1. CASE HandlerSendExpired BY <1>1 DEF HandlerSendExpired, OnlyExpiredCh
<1>2. ASSUME NEW r \in Runners, HandlerLock(r) PROVE Bystander
  <2>1. \A s \in Runners : alive'[s] => alive[s]
    BY <1>2 DEF HandlerLock, TypeOK, RunnerType
  <2>2. QED BY <1>2, <2>1 DEF HandlerLock
<1>3. CASE StopAllModelsHandler BY <1>3 DEF StopAllModelsHandler, unloadAllRunners
<1>4. CASE expireRunnersForRuntimeOOM
  BY <1>4 DEF expireRunnersForRuntimeOOM, HandlerStarts
<1>5. CASE ShutdownCancel BY <1>5 DEF ShutdownCancel
<1>6. CASE ShutdownUnload BY <1>6 DEF ShutdownUnload, unloadAllRunners
<1>7. ASSUME NEW m \in Models, StopModelHandler(m) \/ expireRunner(m) PROVE Bystander
  BY <1>7 DEF StopModelHandler, expireRunner, HandlerStarts
<1>8. ASSUME NEW r \in Runners, Crash(r) PROVE Bystander
  <2>1. \A s \in Runners : alive'[s] => alive[s]
    BY <1>8 DEF Crash, TypeOK, RunnerType
  <2>2. QED BY <1>8, <2>1 DEF Crash
<1>9. QED BY <1>1, <1>2, <1>3, <1>4, <1>5, <1>6, <1>7, <1>8
          DEF HandlerSteps, EnvironmentSteps

\* The three kinds of step, and stuttering.
LEMMA StepKinds ==
    ASSUME TypeOK, [Next]_vars
    PROVE  PendingSteps \/ CompletedSteps \/ Bystander
<1>1. CASE UNCHANGED vars
  BY <1>1 DEF vars, Bystander, channels, requestVars, pendingVars, completedVars
<1>2. CASE Next
  <2>1. ASSUME NEW q \in Requests,
               RequestSteps(q) \/ ContextDone(q) \/ LoaderSteps(q)
               \/ TimerFires(q) \/ CallbackSteps(q) \/ RetryExpired(q)
        PROVE  Bystander
    BY <2>1, RequestBystander, RunnerBystander DEF Runners
  <2>2. QED BY <1>2, <2>1, HandlerBystander DEF Next
<1>3. QED BY <1>1, <1>2

\* Only three steps of processPending touch loaded or a process.
LEMMA PendingKinds ==
    ASSUME PendingSteps
    PROVE  /\ UNCHANGED <<ask, completedVars>>
           /\ \/ LoadSpawn
              \/ LoadFailed
              \/ LoadInsert
              \/ UNCHANGED <<loaded, activeLoading, alive>>
<1> USE DEF schedState, channels, runnerState, runnerRest, requestVars, completedVars
<1>1. CASE PendingReceive BY <1>1 DEF PendingReceive
<1>2. CASE PendingIgnoreUnload BY <1>2 DEF PendingIgnoreUnload
<1>3. CASE PendingSnapshot BY <1>3 DEF PendingSnapshot
<1>4. CASE PendingNeedsReload BY <1>4 DEF PendingNeedsReload
<1>5. CASE PendingUseLoadedRunner BY <1>5 DEF PendingUseLoadedRunner
<1>6. CASE FindRunnerToUnload BY <1>6 DEF FindRunnerToUnload
<1>7. CASE FindIdleRunner BY <1>7 DEF FindIdleRunner
<1>8. CASE UpdateFreeSpace BY <1>8 DEF UpdateFreeSpace
<1>9. CASE LoadNoBatchConfig BY <1>9 DEF LoadNoBatchConfig
<1>10. CASE LoadRefused BY <1>10 DEF LoadRefused
<1>11. CASE LoadNeedsEviction BY <1>11 DEF LoadNeedsEviction
<1>12. CASE LoadSpawn BY <1>12 DEF LoadSpawn
<1>13. CASE LoadReturns BY <1>13 DEF LoadReturns
<1>14. CASE LoadFailed BY <1>14 DEF LoadFailed
<1>15. CASE LoadInsert BY <1>15 DEF LoadInsert
<1>16. CASE PendingEvict BY <1>16 DEF PendingEvict
<1>17. CASE PendingSendExpired BY <1>17 DEF PendingSendExpired
<1>18. CASE PendingUnloadCompleted BY <1>18 DEF PendingUnloadCompleted
<1>19. CASE PendingExit BY <1>19 DEF PendingExit
<1>20. QED BY <1>1, <1>2, <1>3, <1>4, <1>5, <1>6, <1>7, <1>8, <1>9, <1>10, <1>11, <1>12,
              <1>13, <1>14, <1>15, <1>16, <1>17, <1>18, <1>19 DEF PendingSteps

\* Only CompletedUnload touches loaded or a process.
LEMMA CompletedKinds ==
    ASSUME TypeOK, CompletedSteps
    PROVE  /\ UNCHANGED <<ask, activeLoading, pendingVars>>
           /\ CompletedUnload \/ UNCHANGED <<loaded, alive>>
           /\ UnloadEventComing => UnloadEventComing'
<1> USE DEF schedState, channels, runnerState, runnerRest, requestVars, pendingVars,
            UnloadEventComing
<1>1. CASE CompletedReceiveFinished BY <1>1 DEF CompletedReceiveFinished
<1>2. CASE CompletedRelease BY <1>2 DEF CompletedRelease
<1>3. CASE CompletedSendExpired BY <1>3 DEF CompletedSendExpired, OnlyExpiredCh
<1>4. CASE CompletedReceiveExpired BY <1>4 DEF CompletedReceiveExpired
<1>5. CASE CompletedExpired BY <1>5 DEF CompletedExpired
<1>6. CASE CompletedUnload BY <1>6 DEF CompletedUnload
<1>7. CASE CompletedRecovered BY <1>7 DEF CompletedRecovered
<1>8. CASE CompletedNotify BY <1>8 DEF CompletedNotify, TypeOK, SchedulerType
<1>9. CASE CompletedExit BY <1>9 DEF CompletedExit
<1>10. QED BY <1>1, <1>2, <1>3, <1>4, <1>5, <1>6, <1>7, <1>8, <1>9 DEF CompletedSteps

(***************************************************************************)
(* The load in progress and the processes                                  *)
(***************************************************************************)

\* The model of a request is a model.
LEMMA KeyType ==
    ASSUME TypeOK
    PROVE  \A q \in Requests : schedulerModelKey(q) \in Models
  BY DEF TypeOK, RequestType, Ask, schedulerModelKey

\* activeLoading stays the load of the request that the pending loop holds.
LEMMA OwnLoadNext == SchedulerInv /\ [Next]_vars => OwnLoad'
<1> SUFFICES ASSUME SchedulerInv, [Next]_vars PROVE OwnLoad'
  OBVIOUS
<1> USE DEF SchedulerInv, OwnLoad
<1>1. CASE Bystander
  BY <1>1 DEF Bystander, unloadAllRunners, pendingVars
<1>2. CASE CompletedSteps
  BY <1>2, CompletedKinds DEF pendingVars
<1>3. CASE PendingSteps
  <2>1. CASE LoadSpawn BY <2>1 DEF LoadSpawn
  <2>2. CASE LoadFailed
    <3>1. CASE activeLoading = None
      BY <2>2, <3>1 DEF LoadFailed
    <3>2. CASE activeLoading # None
      BY <2>2, <3>2 DEF LoadFailed
    <3>3. QED BY <3>1, <3>2
  <2>3. CASE LoadInsert BY <2>3 DEF LoadInsert
  <2>4. CASE UNCHANGED <<loaded, activeLoading, alive>>
    <3>1. SUFFICES ASSUME activeLoading # None PROVE OwnLoad'
      BY <2>4
    <3>2. activeLoading = pReq /\ pPc \in {"loading", "loadFailed", "insert"}
      BY <3>1
    <3>3. LoadReturns \/ LoadFailed \/ LoadInsert
      BY <1>3, <3>2 DEF PendingSteps, PendingReceive, PendingIgnoreUnload, PendingSnapshot,
         PendingNeedsReload, PendingUseLoadedRunner, FindRunnerToUnload, FindIdleRunner,
         UpdateFreeSpace, LoadNoBatchConfig, LoadRefused, LoadNeedsEviction, LoadSpawn,
         PendingEvict, PendingSendExpired, PendingUnloadCompleted, PendingExit
    <3>4. QED BY <3>2, <3>3, <2>4, <2>2, <2>3 DEF LoadReturns
  <2>5. QED BY <1>3, <2>1, <2>2, <2>3, <2>4, PendingKinds
<1>4. QED BY <1>1, <1>2, <1>3, StepKinds

\* A runner is inserted under its own key, and only there.
LEMMA KeyedByModelNext == SchedulerInv /\ [Next]_vars => KeyedByModel'
<1> SUFFICES ASSUME SchedulerInv, [Next]_vars PROVE KeyedByModel'
  OBVIOUS
<1> USE DEF SchedulerInv, KeyedByModel, schedulerModelKey
<1>1. CASE Bystander
  BY <1>1 DEF Bystander
<1>2. CASE CompletedSteps
  <2>1. CASE CompletedUnload
    BY <1>2, <2>1, CompletedKinds DEF CompletedUnload, TypeOK, SchedulerType
  <2>2. QED BY <1>2, <2>1, CompletedKinds
<1>3. CASE PendingSteps
  <2>1. CASE LoadInsert
    BY <1>3, <2>1, PendingKinds DEF LoadInsert, TypeOK, SchedulerType
  <2>2. QED BY <1>3, <2>1, PendingKinds DEF LoadSpawn, LoadFailed
<1>4. QED BY <1>1, <1>2, <1>3, StepKinds

\* A process that a step leaves running can still be reached.
LEMMA NoOrphanNext == SchedulerInv /\ [Next]_vars => NoOrphanProcess'
<1> SUFFICES ASSUME SchedulerInv, [Next]_vars PROVE NoOrphanProcess'
  OBVIOUS
<1> USE DEF SchedulerInv, NoOrphanProcess
<1>a. /\ alive \in [Runners -> BOOLEAN]
      /\ loaded \in [Models -> Runners \cup {None}]
      /\ None \notin Runners
  BY NoneAssumption DEF TypeOK, RunnerType, SchedulerType, Runners
<1>b. \A r \in Runners : schedulerModelKey(r) \in Models
  BY KeyType DEF Runners
<1>1. CASE Bystander
  <2>1. CASE unloadAllRunners
    <3>1. \A r \in Runners : alive[r] => r = activeLoading \/ r \in LoadedRunners
      BY <1>a, <1>b DEF LoadedRunners, LoadedKeys
    <3>2. \A r \in Runners : ~alive'[r]
      BY <2>1, <3>1 DEF unloadAllRunners
    <3>3. QED BY <3>2
  <2>2. QED BY <1>1, <2>1 DEF Bystander, schedulerModelKey
<1>2. CASE CompletedSteps
  <2>1. CASE CompletedUnload
    <3>1. SUFFICES ASSUME NEW r \in Runners, alive'[r]
                   PROVE  activeLoading' = r \/ loaded'[schedulerModelKey(r)] = r
      BY <1>2, CompletedKinds DEF schedulerModelKey
    <3>2. alive[r] /\ (loaded[schedulerModelKey(cRunner)] = None \/ r # cRunner)
      BY <1>a, <2>1, <3>1 DEF CompletedUnload, unload
    <3>3. CASE activeLoading = r
      BY <1>2, <3>3, CompletedKinds
    <3>4. CASE loaded[schedulerModelKey(r)] = r
      <4>1. CASE loaded[schedulerModelKey(cRunner)] = cRunner
        <5>1. schedulerModelKey(r) # schedulerModelKey(cRunner)
          BY <1>a, <3>2, <3>4, <4>1
        <5>2. loaded' = [loaded EXCEPT ![schedulerModelKey(cRunner)] = None]
          BY <2>1, <4>1 DEF CompletedUnload
        <5>3. QED BY <1>a, <1>b, <3>4, <5>1, <5>2
      <4>2. CASE loaded[schedulerModelKey(cRunner)] # cRunner
        BY <2>1, <3>4, <4>2 DEF CompletedUnload
      <4>3. QED BY <4>1, <4>2
    <3>5. QED BY <3>2, <3>3, <3>4
  <2>2. QED BY <1>2, <2>1, CompletedKinds DEF schedulerModelKey
<1>3. CASE PendingSteps
  <2>1. CASE LoadSpawn
    <3>1. activeLoading = None
      BY <2>1 DEF LoadSpawn, OwnLoad
    <3>2. QED BY <1>a, <1>b, <2>1, <3>1 DEF LoadSpawn, schedulerModelKey, requestVars
  <2>2. CASE LoadFailed
    <3>1. CASE activeLoading = None
      BY <2>2, <3>1 DEF LoadFailed, schedulerModelKey
    <3>2. CASE activeLoading # None
      BY <1>a, <2>2, <3>2 DEF LoadFailed, schedulerModelKey
    <3>3. QED BY <3>1, <3>2
  <2>3. CASE LoadInsert
    <3>1. SUFFICES ASSUME NEW r \in Runners, alive'[r]
                   PROVE  loaded'[schedulerModelKey(r)] = r
      BY <1>3, PendingKinds DEF schedulerModelKey
    <3>2. alive[r] /\ r # loaded[schedulerModelKey(pReq)]
      BY <1>a, <2>3, <3>1 DEF LoadInsert, unload
    <3>3. CASE activeLoading = r
      BY <1>a, <1>b, <2>3, <3>3 DEF LoadInsert, OwnLoad, Runners
    <3>4. CASE loaded[schedulerModelKey(r)] = r
      BY <1>a, <1>b, <2>3, <3>2, <3>4 DEF LoadInsert
    <3>5. QED BY <3>2, <3>3, <3>4
  <2>4. CASE UNCHANGED <<loaded, activeLoading, alive>>
    BY <1>3, <2>4, PendingKinds DEF schedulerModelKey
  <2>5. QED BY <1>3, <2>1, <2>2, <2>3, <2>4, PendingKinds
<1>4. QED BY <1>1, <1>2, <1>3, StepKinds

(***************************************************************************)
(* Evictions: capacity, exclusive loads and wake-ups                       *)
(***************************************************************************)

\* The slot a load will fill is free, and below the capacity.
Reserved ==
    /\ loaded[schedulerModelKey(pReq)] = None
    /\ Cardinality(LoadedKeys) < maxRunners

\* Removing models from loaded only makes room.
LEMMA FewerKeys ==
    ASSUME TypeOK, TypeOK', LoadedKeys' \subseteq LoadedKeys
    PROVE  /\ Cardinality(LoadedKeys) \in Nat
           /\ Cardinality(LoadedKeys') \in Nat
           /\ Cardinality(LoadedKeys') <= Cardinality(LoadedKeys)
<1>1. IsFiniteSet(LoadedKeys)
  BY LoadedFinite DEF TypeOK
<1>2. QED BY <1>1, FS_Subset, FS_CardinalityType

\* Only processPending inserts, and it has looked for room before.
LEMMA SlotReservedNext == SchedulerInv /\ [Next]_vars => SlotReserved'
<1> SUFFICES ASSUME SchedulerInv, [Next]_vars PROVE SlotReserved'
  OBVIOUS
<1>a. TypeOK /\ TypeOK' /\ SlotReserved
  BY TypeNext DEF SchedulerInv
<1>b. None \notin Runners
  BY NoneAssumption DEF Runners
<1> USE DEF maxRunners
<1>1. ASSUME LoadedKeys' \subseteq LoadedKeys, UNCHANGED <<ask, pPc, pReq>>,
             \A m \in Models : loaded[m] = None => loaded'[m] = None
      PROVE  SlotReserved'
  <2>1. /\ Cardinality(LoadedKeys) \in Nat
        /\ Cardinality(LoadedKeys') \in Nat
        /\ Cardinality(LoadedKeys') <= Cardinality(LoadedKeys)
    BY <1>a, <1>1, FewerKeys
  <2>2. pPc \in Inserting => schedulerModelKey(pReq) \in Models
    BY <1>a, KeyType DEF TypeOK, PendingType, Inserting
  <2>3. QED BY <1>1, <1>a, <2>1, <2>2 DEF SlotReserved, schedulerModelKey
<1>2. CASE Bystander
  <2>1. UNCHANGED <<loaded, ask, pPc, pReq>>
    BY <1>2 DEF Bystander, pendingVars
  <2>2. QED BY <2>1, <1>1 DEF LoadedKeys
<1>3. CASE CompletedSteps
  <2>1. UNCHANGED <<ask, pPc, pReq>>
    BY <1>3, <1>a, CompletedKinds DEF pendingVars
  <2>2. \A m \in Models : loaded[m] = None => loaded'[m] = None
    BY <1>3, <1>a, CompletedKinds DEF CompletedUnload, TypeOK, SchedulerType
  <2>3. LoadedKeys' \subseteq LoadedKeys
    BY <2>2 DEF LoadedKeys
  <2>4. QED BY <2>1, <2>2, <2>3, <1>1
<1>4. CASE PendingSteps
  <2>1. CASE LoadInsert
    <3> DEFINE m == schedulerModelKey(pReq)
    <3>1. m \in Models /\ m \notin LoadedKeys /\ Cardinality(LoadedKeys) < 2
      BY <2>1, <1>a, KeyType
         DEF LoadInsert, SlotReserved, Inserting, LoadedKeys, TypeOK, PendingType
    <3>2. LoadedKeys' = LoadedKeys \cup {m}
      BY <2>1, <1>a, <1>b, <3>1 DEF LoadInsert, LoadedKeys, TypeOK, SchedulerType,
         PendingType, Runners
    <3>3. IsFiniteSet(LoadedKeys) /\ Cardinality(LoadedKeys) \in Nat
      BY <1>a, LoadedFinite, FS_CardinalityType DEF TypeOK
    <3>4. Cardinality(LoadedKeys') = Cardinality(LoadedKeys) + 1
      BY <3>1, <3>2, <3>3, FS_AddElement
    <3>5. pPc' \notin Inserting
      BY <2>1 DEF LoadInsert, PendingIdle, Inserting
    <3>6. QED BY <3>1, <3>3, <3>4, <3>5 DEF SlotReserved
  <2>2. CASE ~LoadInsert
    <3>1. UNCHANGED <<loaded, ask>>
      BY <1>4, <2>2, PendingKinds DEF LoadSpawn, LoadFailed
    <3>2. UNCHANGED LoadedKeys
      BY <3>1 DEF LoadedKeys
    <3>3. CASE pPc' \notin Inserting
      BY <1>a, <3>2, <3>3 DEF SlotReserved
    <3>4. CASE pPc' \in Inserting
      <4>1. CASE PendingSnapshot
        <5>1. Reserved /\ UNCHANGED pReq
          <6>1. Cardinality(LoadedKeys) \in Nat
            BY <1>a, LoadedFinite, FS_CardinalityType DEF TypeOK
          <6>2. QED BY <4>1, <3>4, <6>1
                    DEF PendingSnapshot, AtCapacity, Inserting, Reserved
        <5>2. QED BY <1>a, <3>1, <3>2, <5>1 DEF SlotReserved, Reserved, schedulerModelKey
      <4>2. CASE pPc \in Inserting /\ UNCHANGED pReq
        BY <1>a, <3>1, <3>2, <4>2 DEF SlotReserved, schedulerModelKey
      <4>3. PendingSnapshot \/ (pPc \in Inserting /\ UNCHANGED pReq)
        BY <1>4, <2>2, <3>4 DEF PendingSteps, PendingReceive, PendingIgnoreUnload,
           PendingNeedsReload, PendingUseLoadedRunner, FindRunnerToUnload, FindIdleRunner,
           UpdateFreeSpace, LoadNoBatchConfig, LoadRefused, LoadNeedsEviction, LoadSpawn,
           LoadReturns, LoadFailed, PendingEvict, PendingSendExpired,
           PendingUnloadCompleted, PendingExit, PendingIdle, Inserting, pendingVars
      <4>4. QED BY <4>1, <4>2, <4>3
    <3>5. QED BY <3>3, <3>4
  <2>3. QED BY <2>1, <2>2
<1>5. QED BY <1>a, <1>2, <1>3, <1>4, StepKinds

\* A process is started on GPUs when nothing is loaded, so that nothing else
\* is alive.
LEMMA GpuLoadAloneNext == SchedulerInv /\ [Next]_vars => GpuLoadAlone'
<1> SUFFICES ASSUME SchedulerInv, [Next]_vars PROVE GpuLoadAlone'
  OBVIOUS
<1> USE DEF SchedulerInv
<1>a. /\ alive \in [Runners -> BOOLEAN]
      /\ None \notin Runners
      /\ \A r \in Runners : schedulerModelKey(r) \in Models
  BY NoneAssumption, KeyType DEF TypeOK, RunnerType, Runners
<1>1. ASSUME UNCHANGED <<ask, pReq>>,
             pPc' \in {"loading", "insert"} => pPc \in {"loading", "insert"},
             \A r \in Runners : alive'[r] => alive[r]
      PROVE  GpuLoadAlone'
  BY <1>1 DEF GpuLoadAlone
<1>2. CASE Bystander
  <2>1. \A r \in Runners : alive'[r] => alive[r]
    BY <1>2 DEF Bystander, unloadAllRunners
  <2>2. QED BY <1>1, <1>2, <2>1 DEF Bystander, pendingVars
<1>3. CASE CompletedSteps
  <2>1. \A r \in Runners : alive'[r] => alive[r]
    BY <1>3, <1>a, CompletedKinds DEF CompletedUnload, unload
  <2>2. QED BY <1>1, <1>3, <2>1, CompletedKinds DEF pendingVars
<1>4. CASE PendingSteps
  <2>1. CASE LoadSpawn
    <3>1. SUFFICES ASSUME ask[pReq].gpus, NEW r \in Runners \ {pReq}
                   PROVE  ~alive'[r]
      BY <2>1 DEF LoadSpawn, GpuLoadAlone, requestVars
    <3>2. LoadedKeys = {}
      BY <2>1, <3>1 DEF LoadSpawn, MustEvict
    <3>3. loaded[schedulerModelKey(r)] # r
      BY <1>a, <3>2 DEF LoadedKeys
    <3>4. activeLoading # r
      BY <1>a, <2>1 DEF LoadSpawn, OwnLoad
    <3>5. QED BY <1>a, <2>1, <3>3, <3>4 DEF LoadSpawn, NoOrphanProcess
  <2>2. CASE pPc' \notin {"loading", "insert"}
    BY <2>2 DEF GpuLoadAlone
  <2>3. CASE pPc' \in {"loading", "insert"} /\ ~LoadSpawn
    <3>1. LoadReturns \/ LoadFailed
      BY <1>4, <2>3 DEF PendingSteps, PendingReceive, PendingIgnoreUnload, PendingSnapshot,
         PendingNeedsReload, PendingUseLoadedRunner, FindRunnerToUnload, FindIdleRunner,
         UpdateFreeSpace, LoadNoBatchConfig, LoadRefused, LoadNeedsEviction, LoadInsert,
         PendingEvict, PendingSendExpired, PendingUnloadCompleted, PendingExit, PendingIdle,
         pendingVars
    <3>2. CASE LoadReturns
      BY <1>1, <3>2 DEF LoadReturns, runnerState, runnerRest, requestVars
    <3>3. CASE LoadFailed
      BY <2>3, <3>3 DEF LoadFailed, PendingIdle, pendingVars
    <3>4. QED BY <3>1, <3>2, <3>3
  <2>4. QED BY <2>1, <2>2, <2>3
<1>5. QED BY <1>2, <1>3, <1>4, StepKinds

\* A runner that is loaded, or whose unload event is coming, is so after every
\* step that does not take the event from the channel.
LEMMA TrackedNext ==
    ASSUME SchedulerInv, CompletedSteps \/ Bystander, NEW r \in Runners, Tracked(r)
    PROVE  Tracked(r)'
<1> USE DEF SchedulerInv, Tracked
<1>1. CASE Bystander
  BY <1>1 DEF Bystander, UnloadEventComing, completedVars, schedulerModelKey
<1>2. CASE CompletedSteps
  <2>1. CASE UnloadEventComing
    BY <1>2, <2>1, CompletedKinds
  <2>2. CASE UNCHANGED <<loaded, alive>>
    BY <1>2, <2>2, CompletedKinds DEF schedulerModelKey
  <2>3. CASE CompletedUnload
    <3>1. CASE loaded[schedulerModelKey(cRunner)] = cRunner
      BY <2>3, <3>1 DEF CompletedUnload, UnloadEventComing
    <3>2. CASE loaded[schedulerModelKey(cRunner)] # cRunner
      BY <1>2, <2>3, <3>2, <2>1, CompletedKinds DEF CompletedUnload, schedulerModelKey
    <3>3. QED BY <3>1, <3>2
  <2>4. QED BY <1>2, <2>1, <2>2, <2>3, CompletedKinds
<1>3. QED BY <1>1, <1>2

\* The runners that the pending loop points to stay loaded, or their event
\* is coming.
LEMMA PointersTrackedNext == SchedulerInv /\ [Next]_vars => PointersTracked'
<1> SUFFICES ASSUME SchedulerInv, [Next]_vars PROVE PointersTracked'
  OBVIOUS
<1> USE DEF SchedulerInv
<1>a. None \notin Runners
  BY NoneAssumption DEF Runners
<1>1. CASE CompletedSteps \/ Bystander
  <2>1. UNCHANGED pendingVars
    BY <1>1, CompletedKinds DEF Bystander
  <2>2. /\ pPc \in {"check", "scan", "evict", "send", "wait"} => pRunner \in Runners
        /\ \A i \in DOMAIN pList : pList[i] \in Runners
    BY DEF TypeOK, PendingType
  <2>3. QED BY <1>1, <2>1, <2>2, TrackedNext DEF PointersTracked, pendingVars
<1>2. CASE PendingSteps
  <2>1. ASSUME UNCHANGED <<loaded, ask, unloadedCh, cPc>>, NEW r, Tracked(r)
        PROVE  Tracked(r)'
    BY <2>1 DEF Tracked, UnloadEventComing, schedulerModelKey
  <2>2. ASSUME NEW r \in LoadedRunners PROVE Tracked(r)
    BY <2>2 DEF Tracked, LoadedRunners, LoadedKeys, KeyedByModel
  <2>3. CASE PendingSnapshot
    <3>1. SUFFICES ASSUME pPc' = "check" PROVE Tracked(pRunner)'
      BY <2>3 DEF PendingSnapshot, PointersTracked
    <3>2. schedulerModelKey(pReq) \in Models
      BY <2>3, KeyType DEF PendingSnapshot, TypeOK, PendingType
    <3>3. pRunner' \in LoadedRunners
      BY <2>3, <3>1, <3>2 DEF PendingSnapshot, LoadedRunners, LoadedKeys
    <3>4. \A r \in LoadedRunners : Tracked(r)'
      BY <2>1, <2>2, <2>3
         DEF PendingSnapshot, schedState, channels, requestVars, completedVars
    <3>5. QED BY <3>3, <3>4
  <2>4. CASE FindRunnerToUnload
    <3>1. CASE LoadedKeys = {}
      BY <2>4, <3>1 DEF FindRunnerToUnload, PointersTracked
    <3>2. CASE LoadedKeys # {}
      <4>1. /\ pList' # <<>> /\ pList' \in Seq(Runners)
            /\ \A i \in DOMAIN pList' : pList'[i] \in LoadedRunners
        BY <2>4, <3>2, SortedRunnersType DEF FindRunnerToUnload, TypeOK
      <4>2. pRunner' \in LoadedRunners
        BY <2>4, <3>2, <4>1 DEF FindRunnerToUnload
      <4>3. \A r \in LoadedRunners : Tracked(r)'
        BY <2>1, <2>2, <2>4
           DEF FindRunnerToUnload, schedState, channels, requestVars, completedVars
      <4>4. QED BY <2>4, <4>1, <4>2, <4>3 DEF FindRunnerToUnload, PointersTracked
    <3>3. QED BY <3>1, <3>2
  <2>5. CASE FindIdleRunner
    <3>1. pList \in Seq(Runners) /\ pList # <<>>
      BY <2>5 DEF FindIdleRunner, TypeOK, PendingType
    <3>2. Tracked(pRunner) /\ \A i \in DOMAIN pList : Tracked(pList[i])
      BY <2>5 DEF FindIdleRunner, PointersTracked
    <3>3. ASSUME NEW r, Tracked(r) PROVE Tracked(r)'
      BY <2>1, <2>5, <3>3
         DEF FindIdleRunner, schedState, channels, requestVars, completedVars
    <3>4. CASE refCount[Head(pList)] = 0
      <4>1. pRunner' = pList[1] /\ pList' = <<>> /\ 1 \in DOMAIN pList
        BY <2>5, <3>1, <3>4 DEF FindIdleRunner
      <4>2. pPc' = "evict"
        BY <2>5, <4>1 DEF FindIdleRunner
      <4>3. QED BY <3>2, <3>3, <4>1, <4>2 DEF PointersTracked
    <3>5. CASE refCount[Head(pList)] # 0
      <4>1. pRunner' = pRunner /\ pList' = Tail(pList)
        BY <2>5, <3>5 DEF FindIdleRunner
      <4>2. \A i \in DOMAIN Tail(pList) : i + 1 \in DOMAIN pList /\ Tail(pList)[i] = pList[i + 1]
        BY <3>1
      <4>3. QED BY <3>2, <3>3, <4>1, <4>2 DEF PointersTracked
    <3>6. QED BY <3>4, <3>5
  <2>6. CASE PendingNeedsReload \/ PendingEvict \/ PendingSendExpired
    <3>1. /\ pPc \in {"check", "evict", "send"} /\ pPc' # "scan"
          /\ UNCHANGED <<loaded, ask, unloadedCh, cPc, pRunner>>
      BY <2>6 DEF PendingNeedsReload, PendingEvict, PendingSendExpired, schedState, channels,
         requestVars, completedVars
    <3>2. Tracked(pRunner)
      BY <3>1 DEF PointersTracked
    <3>3. QED BY <2>1, <3>1, <3>2 DEF PointersTracked
  <2>7. CASE pPc' \notin {"check", "scan", "evict", "send", "wait"}
    BY <2>7 DEF PointersTracked
  <2>8. \/ PendingSnapshot \/ FindRunnerToUnload \/ FindIdleRunner
        \/ PendingNeedsReload \/ PendingEvict \/ PendingSendExpired
        \/ pPc' \notin {"check", "scan", "evict", "send", "wait"}
    BY <1>2 DEF PendingSteps, PendingReceive, PendingIgnoreUnload, PendingUseLoadedRunner,
       UpdateFreeSpace, LoadNoBatchConfig, LoadRefused, LoadNeedsEviction, LoadSpawn,
       LoadReturns, LoadFailed, LoadInsert, PendingUnloadCompleted, PendingExit,
       PendingIdle, pendingVars
  <2>9. QED BY <2>3, <2>4, <2>5, <2>6, <2>7, <2>8
<1>3. QED BY <1>1, <1>2, StepKinds

(***************************************************************************)
(* The theorems                                                            *)
(***************************************************************************)

\* Nothing is loaded, nothing runs at first.
LEMMA SafetyInit == Init => SchedulerInv
<1> SUFFICES ASSUME Init PROVE SchedulerInv
  OBVIOUS
<1>1. TypeOK
  BY TypeInit
<1>2. LoadedKeys = {}
  BY DEF Init, LoadedKeys
<1>3. OwnLoad /\ KeyedByModel
  BY DEF Init, OwnLoad, KeyedByModel
<1>4. NoOrphanProcess /\ GpuLoadAlone
  BY DEF Init, NoOrphanProcess, GpuLoadAlone
<1>5. SlotReserved
  <2>1. Cardinality(LoadedKeys) = 0
    BY <1>2, FS_EmptySet
  <2>2. QED BY <2>1 DEF Init, SlotReserved, Inserting, maxRunners
<1>6. PointersTracked
  BY DEF Init, PointersTracked
<1>7. QED BY <1>1, <1>3, <1>4, <1>5, <1>6 DEF SchedulerInv

\* SchedulerInv is inductive.
LEMMA SafetyNext == SchedulerInv /\ [Next]_vars => SchedulerInv'
<1> SUFFICES ASSUME SchedulerInv, [Next]_vars PROVE SchedulerInv'
  OBVIOUS
<1>1. TypeOK'
  BY TypeNext DEF SchedulerInv
<1>2. OwnLoad' /\ KeyedByModel' /\ NoOrphanProcess'
  BY OwnLoadNext, KeyedByModelNext, NoOrphanNext
<1>3. SlotReserved' /\ GpuLoadAlone' /\ PointersTracked'
  BY SlotReservedNext, GpuLoadAloneNext, PointersTrackedNext
<1>4. QED BY <1>1, <1>2, <1>3 DEF SchedulerInv

\* The strengthened invariant of the pending loop and its load holds in every
\* state that the scheduler reaches.
THEOREM SafetyCorrect == Spec => []SchedulerInv
<1>1. Init => SchedulerInv
  BY SafetyInit
<1>2. SchedulerInv /\ [Next]_vars => SchedulerInv'
  BY SafetyNext
<1>3. QED BY <1>1, <1>2, PTL DEF Spec

\* A llama-server process that runs can always be closed: it is reachable
\* through activeLoading or loaded, whatever stops, evictions, crashes and
\* shutdowns interleave with its load.
THEOREM ProcessesReachable == Spec => []NoOrphanProcess
<1>1. SchedulerInv => NoOrphanProcess
  BY DEF SchedulerInv
<1>2. QED BY <1>1, SafetyCorrect, PTL

\* processPending never has more than maxRunners models loaded, and load
\* never finds another runner in the slot it fills.
THEOREM CapacityRespected == Spec => []SlotReserved
<1>1. SchedulerInv => SlotReserved
  BY DEF SchedulerInv
<1>2. QED BY <1>1, SafetyCorrect, PTL

\* "evict before spawning" holds while the server starts: a model on GPUs is
\* started when no other llama-server process is alive.
THEOREM GpuLoadExclusive == Spec => []GpuLoadAlone
<1>1. SchedulerInv => GpuLoadAlone
  BY DEF SchedulerInv
<1>2. QED BY <1>1, SafetyCorrect, PTL

\* processPending never waits for an unload event that has already been taken:
\* its victim is still loaded, or the event is on its way or queued.
THEOREM WakeupNotLost == Spec => []NoLostWakeup
<1>1. SchedulerInv => NoLostWakeup
  BY DEF SchedulerInv, PointersTracked, Tracked, NoLostWakeup
<1>2. QED BY <1>1, SafetyCorrect, PTL

=============================================================================
