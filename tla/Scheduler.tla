----------------------------- MODULE Scheduler -----------------------------
(***************************************************************************)
(* The runner scheduler of server/sched.go: the goroutines processPending  *)
(* and processCompleted, the HTTP handlers that call getRunner, stop or    *)
(* expire runners, the goroutine that finishes each load, the keep-alive   *)
(* timers, and the llama-server child processes, over the four buffered    *)
(* channels, loadedMu and one refMu per runner.                            *)
(*                                                                         *)
(* A request is scheduled at most once, and loading it makes at most one   *)
(* runnerRef, so a runner is named by the request it was loaded for.       *)
(* A critical section that cannot block inside is one action, enabled when *)
(* its lock is free; one that sends on a channel while holding its lock is *)
(* two, so that a full channel is seen to block the sender with the lock.  *)
(***************************************************************************)
EXTENDS Naturals, Sequences, FiniteSets

CONSTANTS
    Requests,      \* the HTTP requests that ask for a runner
    Models,        \* schedulerModelKey values, numbered in path order
    None,          \* the nil pointer
    Asks,          \* what a request may ask for, a set of Ask records
    MaxQueue,      \* YOLLAMA_MAX_QUEUE: the capacity of the four channels
    DefaultKeepAlive, \* envconfig.KeepAlive(), used when a request names none
    RefModulus,    \* 2^64 in the code: refCount is an unsigned counter
    Events,        \* the environment's events that this instance may see
    MaxEvents      \* bound: how many of them may happen

\* Session durations, in the order that their uint64 values have.
Zero == 0
Finite == 1
Forever == 2
Durations == {Zero, Finite, Forever}
\* A request without keep_alive (sessionDuration == nil).
NoDuration == 3

\* The options of a request: opts is 0 when all are automatic, and otherwise
\* stands for one explicit choice; gpus says that len(gpus) > 0 for it;
\* batch says that NumBatch # 0.
Ask == [model: Models, keepAlive: Durations \cup {NoDuration},
        opts: Nat, gpus: BOOLEAN, batch: BOOLEAN]

EventKinds == {"crash", "stop", "stopAll", "expire", "oom", "noBatchConfig", "shutdown"}

ASSUME ModelsAssumption == Models \subseteq Nat /\ IsFiniteSet(Models)
ASSUME NoneAssumption == None \notin Requests
ASSUME AsksAssumption == Asks \subseteq Ask
ASSUME QueueAssumption == MaxQueue \in Nat \ {0}
ASSUME KeepAliveAssumption == DefaultKeepAlive \in Durations
ASSUME RefAssumption == RefModulus \in Nat /\ RefModulus > 1
ASSUME EventsAssumption == Events \subseteq EventKinds /\ MaxEvents \in Nat

VARIABLES
    \* type Scheduler
    loaded,          \* [Models -> runner or None]
    activeLoading,   \* the llama-server being started, or None
    loadedMu,        \* TRUE while held across a step
    pendingReqCh,    \* queued requests
    finishedReqCh,   \* requests whose context has ended
    expiredCh,       \* runners to unload
    unloadedCh,      \* number of unload notifications
    \* type runnerRef, per runner
    refMu,           \* "free", or who holds it across a step
    refCount,
    sessionDuration,
    expireTimer,     \* "nil", "armed", or "fired" (non-nil but expired)
    unloaded,        \* unload() has run: model, Options and gpus are nil
    alive,           \* the llama-server process runs
    callbacks,       \* timer callbacks that fired and wait for refMu
    retries,         \* goroutines that will queue the expired event again
    \* type LlmRequest, per request
    ask,
    phase,           \* where the handler of the request is
    ctxOpen,         \* the request's context is not done
    handle,          \* the runner the handler looked up or was given
    armed,           \* a goroutine waits for ctx.Done to report the finish
    \* processPending
    pPc, pReq, pRunner, pList,
    \* processCompleted
    cPc, cRunner,
    \* a handler that stops or expires runners
    hPc, hRunner, hTodo,
    \* the environment
    events, shutdown, panicked

channels == <<pendingReqCh, finishedReqCh, expiredCh, unloadedCh>>
requestVars == <<ask, phase, ctxOpen, handle, armed>>
pendingVars == <<pPc, pReq, pRunner, pList>>
completedVars == <<cPc, cRunner>>
handlerVars == <<hPc, hRunner, hTodo>>
envVars == <<events, shutdown, panicked>>
vars == <<loaded, activeLoading, loadedMu, channels, refMu, refCount,
          sessionDuration, expireTimer, unloaded, alive, callbacks, retries,
          requestVars, pendingVars, completedVars, handlerVars, envVars>>

Runners == Requests

\* maxRunners in processPending, a constant of the code.
maxRunners == 2

-----------------------------------------------------------------------------
(***************************************************************************)
(* Helpers                                                                 *)
(***************************************************************************)

schedulerModelKey(q) == ask[q].model

LoadedKeys == {m \in Models : loaded[m] # None}
LoadedRunners == {loaded[m] : m \in LoadedKeys}

\* A send on a buffered channel blocks while the channel is full.
HasRoom(ch) == Len(ch) < MaxQueue

\* needsReload's verdict on a runner whose process answers the ping in time:
\* reload if it was unloaded, or the request insists on other options.
\* A dead process never answers, and a living one may be too slow.
Incompatible(q, r) ==
    \/ unloaded[r]
    \/ ask[q].opts # 0 /\ ask[q].opts # ask[r].opts
    \/ ~alive[r]

\* ByDurationAndName.Less
Less(r1, r2) ==
    \/ sessionDuration[r1] < sessionDuration[r2]
    \/ /\ sessionDuration[r1] = sessionDuration[r2]
       /\ schedulerModelKey(r1) < schedulerModelKey(r2)

\* The orders sort.Sort may leave the loaded runners in.
SortedRunners ==
    {s \in [1..Cardinality(LoadedRunners) -> LoadedRunners] :
        \A i, j \in DOMAIN s : i < j => Less(s[i], s[j])}

\* useLoadedRunner, run by the handler or by processPending.
useLoadedRunner(q, r) ==
    /\ refMu[r] = "free"
    /\ refCount' = [refCount EXCEPT ![r] = (@ + 1) % RefModulus]
    /\ expireTimer' = [expireTimer EXCEPT ![r] = "nil"]
    /\ sessionDuration' = [sessionDuration EXCEPT ![r] =
           IF ask[q].keepAlive = NoDuration THEN @ ELSE ask[q].keepAlive]
    /\ phase' = [phase EXCEPT ![q] = "ok"]
    /\ handle' = [handle EXCEPT ![q] = r]
    /\ armed' = [armed EXCEPT ![q] = TRUE]
    /\ UNCHANGED refMu

\* Mutant: unload forgets to close the process.
UnloadWithoutClose(r) ==
    /\ expireTimer' = [expireTimer EXCEPT ![r] = "nil"]
    /\ unloaded' = [unloaded EXCEPT ![r] = TRUE]
    /\ UNCHANGED alive

\* runnerRef.unload: the timer is stopped, the process closed and the fields
\* that name the model cleared.
unload(r) ==
    /\ expireTimer' = [expireTimer EXCEPT ![r] = "nil"]
    /\ alive' = [alive EXCEPT ![r] = FALSE]
    /\ unloaded' = [unloaded EXCEPT ![r] = TRUE]

\* What every way to expire a runner does first, under refMu.
StopTimerAndKeepAlive(r) ==
    /\ expireTimer' = [expireTimer EXCEPT ![r] = "nil"]
    /\ sessionDuration' = [sessionDuration EXCEPT ![r] = Zero]

\* Mutant: the test on the reference count is inverted.
ExpireIfBusy(r) == refCount[r] > 0
\* refCount is unsigned, so that refCount <= 0 says it is zero.
ExpireNow(r) == refCount[r] = 0

\* s.expiredCh <- runner by the goroutine that holds refMu as holder.
SendExpired(r, holder) ==
    /\ refMu[r] = holder
    /\ HasRoom(expiredCh)
    /\ expiredCh' = Append(expiredCh, r)
    /\ refMu' = [refMu EXCEPT ![r] = "free"]

-----------------------------------------------------------------------------
(***************************************************************************)
(* The handler of a request: scheduleRunner and getRunner                  *)
(***************************************************************************)

runnerRest == <<unloaded, alive, callbacks, retries>>
runnerState == <<refMu, refCount, sessionDuration, expireTimer, runnerRest>>
schedState == <<loaded, activeLoading, loadedMu>>

\* getRunner looks the model up in loaded.
GetRunner(q) ==
    /\ phase[q] = "new"
    /\ ~loadedMu
    /\ LET r == loaded[schedulerModelKey(q)] IN
        /\ handle' = [handle EXCEPT ![q] = r]
        /\ phase' = [phase EXCEPT ![q] = IF r = None THEN "enqueue" ELSE "check"]
    /\ UNCHANGED <<schedState, channels, runnerState, ask, ctxOpen, armed,
                   pendingVars, completedVars, handlerVars, envVars>>

\* needsReload, under the runner's refMu, then released again.
NeedsReload(q) ==
    /\ phase[q] = "check"
    /\ refMu[handle[q]] = "free"
    /\ \/ phase' = [phase EXCEPT ![q] = "enqueue"]
       \/ /\ ~Incompatible(q, handle[q])
          /\ phase' = [phase EXCEPT ![q] = "use"]
    /\ UNCHANGED <<schedState, channels, runnerState, ask, ctxOpen, handle, armed,
                   pendingVars, completedVars, handlerVars, envVars>>

UseLoadedRunner(q) ==
    /\ phase[q] = "use"
    /\ useLoadedRunner(q, handle[q])
    /\ UNCHANGED <<schedState, channels, runnerRest, ask, ctxOpen,
                   pendingVars, completedVars, handlerVars, envVars>>

\* The send on pendingReqCh does not block: a full queue is ErrMaxQueue.
Enqueue(q) ==
    /\ phase[q] = "enqueue"
    /\ IF HasRoom(pendingReqCh)
         THEN /\ pendingReqCh' = Append(pendingReqCh, q)
              /\ phase' = [phase EXCEPT ![q] = "waiting"]
         ELSE /\ phase' = [phase EXCEPT ![q] = "err"]
              /\ UNCHANGED pendingReqCh
    /\ UNCHANGED <<schedState, finishedReqCh, expiredCh, unloadedCh, runnerState,
                   ask, ctxOpen, handle, armed,
                   pendingVars, completedVars, handlerVars, envVars>>

\* The handler returns, or the client goes away while it still waits.
ContextDone(q) ==
    /\ phase[q] # "new"
    /\ ctxOpen[q]
    /\ ctxOpen' = [ctxOpen EXCEPT ![q] = FALSE]
    /\ UNCHANGED <<schedState, channels, runnerState, ask, phase, handle, armed,
                   pendingVars, completedVars, handlerVars, envVars>>

\* The goroutine that waits for ctx.Done reports the request as finished.
ReportFinished(q) ==
    /\ armed[q]
    /\ ~ctxOpen[q]
    /\ HasRoom(finishedReqCh)
    /\ finishedReqCh' = Append(finishedReqCh, q)
    /\ armed' = [armed EXCEPT ![q] = FALSE]
    /\ UNCHANGED <<schedState, pendingReqCh, expiredCh, unloadedCh, runnerState,
                   ask, phase, ctxOpen, handle,
                   pendingVars, completedVars, handlerVars, envVars>>

-----------------------------------------------------------------------------
(***************************************************************************)
(* processPending                                                          *)
(***************************************************************************)

\* Back to the outer select; the locals of the inner loop are gone.
PendingIdle ==
    /\ pPc' = "idle"
    /\ pReq' = None
    /\ pRunner' = None
    /\ UNCHANGED pList

\* The outer select takes the next request; schedAttempts only reaches 1.
PendingReceive ==
    /\ pPc = "idle"
    /\ pendingReqCh # <<>>
    /\ pReq' = Head(pendingReqCh)
    /\ pendingReqCh' = Tail(pendingReqCh)
    /\ pPc' = "top"
    /\ UNCHANGED <<schedState, finishedReqCh, expiredCh, unloadedCh, runnerState,
                   requestVars, pRunner, pList, completedVars, handlerVars, envVars>>

\* The outer select drops an unload event that nobody waits for.
PendingIgnoreUnload ==
    /\ pPc = "idle"
    /\ unloadedCh > 0
    /\ unloadedCh' = unloadedCh - 1
    /\ UNCHANGED <<schedState, pendingReqCh, finishedReqCh, expiredCh, runnerState,
                   requestVars, pendingVars, completedVars, handlerVars, envVars>>

\* Mutant: off by one.
AboveCapacity == Cardinality(LoadedKeys) > maxRunners
AtCapacity == Cardinality(LoadedKeys) >= maxRunners

\* The inner loop looks at loaded and chooses what to do about the request.
PendingSnapshot ==
    /\ pPc = "top"
    /\ ~loadedMu
    /\ LET r == loaded[schedulerModelKey(pReq)] IN
        /\ pRunner' = r
        /\ pPc' = IF r # None THEN "check"
                  ELSE IF AtCapacity THEN "find"
                  ELSE "space"
    /\ UNCHANGED <<schedState, channels, runnerState, requestVars, pReq, pList,
                   completedVars, handlerVars, envVars>>

PendingNeedsReload ==
    /\ pPc = "check"
    /\ refMu[pRunner] = "free"
    /\ \/ pPc' = "evict"
       \/ /\ ~Incompatible(pReq, pRunner)
          /\ pPc' = "use"
    /\ UNCHANGED <<schedState, channels, runnerState, requestVars, pReq, pRunner, pList,
                   completedVars, handlerVars, envVars>>

\* Mutant: the break that leaves the inner loop is missing.
PendingUseAndLoop ==
    /\ pPc = "use"
    /\ useLoadedRunner(pReq, pRunner)
    /\ pPc' = "top"
    /\ pRunner' = None
    /\ UNCHANGED <<schedState, channels, runnerRest, ask, ctxOpen, pReq, pList,
                   completedVars, handlerVars, envVars>>

PendingUseLoadedRunner ==
    /\ pPc = "use"
    /\ useLoadedRunner(pReq, pRunner)
    /\ PendingIdle
    /\ UNCHANGED <<schedState, channels, runnerRest, ask, ctxOpen, completedVars, handlerVars, envVars>>

\* findRunnerToUnload copies and sorts the loaded runners. It returns nil
\* when there are none, and the loop starts again.
FindRunnerToUnload ==
    /\ pPc = "find"
    /\ ~loadedMu
    /\ \/ /\ LoadedKeys = {}
          /\ pPc' = "top"
          /\ UNCHANGED <<pRunner, pList>>
       \/ /\ LoadedKeys # {}
          /\ pList' \in SortedRunners
          /\ pRunner' = pList'[1]
          /\ pPc' = "scan"
    /\ UNCHANGED <<schedState, channels, runnerState, requestVars, pReq,
                   completedVars, handlerVars, envVars>>

\* It reads the runners' reference counts one refMu at a time, and settles
\* for the first idle one, or for the first of all when it has seen no idle one.
FindIdleRunner ==
    /\ pPc = "scan"
    /\ refMu[Head(pList)] = "free"
    /\ IF refCount[Head(pList)] = 0
         THEN /\ pRunner' = Head(pList)
              /\ pList' = <<>>
         ELSE /\ pList' = Tail(pList)
              /\ UNCHANGED pRunner
    /\ pPc' = IF pList' = <<>> THEN "evict" ELSE "scan"
    /\ UNCHANGED <<schedState, channels, runnerState, requestVars, pReq,
                   completedVars, handlerVars, envVars>>

\* updateFreeSpace takes the refMu of each loaded runner when there are GPUs.
\* The sizes it computes do not steer the scheduler: load evicts by count.
UpdateFreeSpace ==
    /\ pPc = "space"
    /\ ~loadedMu
    /\ ask[pReq].gpus => \A r \in LoadedRunners : refMu[r] = "free"
    /\ pPc' = "load"
    /\ UNCHANGED <<schedState, channels, runnerState, requestVars, pReq, pRunner, pList,
                   completedVars, handlerVars, envVars>>

\* A goroutine of the scheduler answers the request with an error.
Refuse(q) == phase' = [phase EXCEPT ![q] = "err"]

\* load: NumBatch is 0 and the configuration file cannot be read. The function
\* returns with loadedMu held and without an answer on errCh.
LoadNoBatchConfig ==
    /\ pPc = "load"
    /\ ~loadedMu
    /\ ~ask[pReq].batch
    /\ "noBatchConfig" \in Events
    /\ events < MaxEvents
    /\ events' = events + 1
    /\ loadedMu' = TRUE
    /\ PendingIdle
    /\ UNCHANGED <<loaded, activeLoading, channels, runnerState, requestVars,
                   completedVars, handlerVars, shutdown, panicked>>

\* load: the model's metadata cannot be read, or the server cannot be created.
LoadRefused ==
    /\ pPc = "load"
    /\ ~loadedMu
    /\ Refuse(pReq)
    /\ PendingIdle
    /\ UNCHANGED <<schedState, channels, runnerState, ask, ctxOpen, handle, armed,
                   completedVars, handlerVars, envVars>>

\* Mutant: eviction only when the scheduler is full.
MustEvictWhenFull == AtCapacity /\ ask[pReq].gpus

\* "evict before spawning": a model on GPUs is started only when it is alone.
MustEvict == LoadedKeys # {} /\ ask[pReq].gpus

LoadNeedsEviction ==
    /\ pPc = "load"
    /\ ~loadedMu
    /\ MustEvict
    /\ pPc' = "find"
    /\ UNCHANGED <<schedState, channels, runnerState, requestVars, pReq, pRunner, pList,
                   completedVars, handlerVars, envVars>>

\* newServerFn starts the process.
LoadSpawn ==
    /\ pPc = "load"
    /\ ~loadedMu
    /\ ~MustEvict
    /\ activeLoading' = pReq
    /\ alive' = [alive EXCEPT ![pReq] = TRUE]
    /\ pPc' = "loading"
    /\ UNCHANGED <<loaded, loadedMu, channels, refMu, refCount, sessionDuration,
                   expireTimer, unloaded, callbacks, retries, requestVars,
                   pReq, pRunner, pList, completedVars, handlerVars, envVars>>

\* llama.Load returns: the server answers, or the process has died, the
\* client has gone, or the load timeout has passed.
LoadReturns ==
    /\ pPc = "loading"
    /\ \/ alive[pReq] /\ ctxOpen[pReq] /\ pPc' = "insert"
       \/ pPc' = "loadFailed"
    /\ UNCHANGED <<schedState, channels, runnerState, requestVars, pReq, pRunner, pList,
                   completedVars, handlerVars, envVars>>

\* The failed load is closed through activeLoading, which is read without
\* loadedMu: it is a nil dereference once unloadAllRunners has cleared it.
LoadFailed ==
    /\ pPc = "loadFailed"
    /\ IF activeLoading = None
         THEN panicked' = TRUE /\ UNCHANGED <<activeLoading, alive, phase, pendingVars>>
         ELSE /\ alive' = [alive EXCEPT ![activeLoading] = FALSE]
              /\ activeLoading' = None
              /\ Refuse(pReq)
              /\ PendingIdle
              /\ UNCHANGED panicked
    /\ UNCHANGED <<loaded, loadedMu, channels, refMu, refCount, sessionDuration,
                   expireTimer, unloaded, callbacks, retries, ask, ctxOpen, handle, armed,
                   completedVars, handlerVars, events, shutdown>>

\* Mutant: activeLoading is not cleared.
LoadInsertStillActive ==
    LET m == schedulerModelKey(pReq)
        old == loaded[m]
    IN
    /\ pPc = "insert"
    /\ ~loadedMu
    /\ old # None => refMu[old] = "free"
    /\ IF old # None THEN unload(old) ELSE UNCHANGED <<expireTimer, alive, unloaded>>
    /\ UNCHANGED activeLoading
    /\ loaded' = [loaded EXCEPT ![m] = pReq]
    /\ refMu' = [refMu EXCEPT ![pReq] = "load"]
    /\ sessionDuration' = [sessionDuration EXCEPT ![pReq] =
           IF ask[pReq].keepAlive = NoDuration THEN DefaultKeepAlive ELSE ask[pReq].keepAlive]
    /\ PendingIdle
    /\ UNCHANGED <<loadedMu, channels, refCount, callbacks, retries, requestVars,
                   completedVars, handlerVars, envVars>>

\* The new runner enters loaded with its refMu held by the goroutine that
\* finishes the load. A runner still loaded under the key would be unloaded.
LoadInsert ==
    LET m == schedulerModelKey(pReq)
        old == loaded[m]
    IN
    /\ pPc = "insert"
    /\ ~loadedMu
    /\ old # None => refMu[old] = "free"
    /\ IF old # None THEN unload(old) ELSE UNCHANGED <<expireTimer, alive, unloaded>>
    /\ activeLoading' = None
    /\ loaded' = [loaded EXCEPT ![m] = pReq]
    /\ refMu' = [refMu EXCEPT ![pReq] = "load"]
    /\ sessionDuration' = [sessionDuration EXCEPT ![pReq] =
           IF ask[pReq].keepAlive = NoDuration THEN DefaultKeepAlive ELSE ask[pReq].keepAlive]
    /\ PendingIdle
    /\ UNCHANGED <<loadedMu, channels, refCount, callbacks, retries, requestVars,
                   completedVars, handlerVars, envVars>>

\* "Trigger an expiration to unload once it's done"
PendingEvict ==
    /\ pPc = "evict"
    /\ refMu[pRunner] = "free"
    /\ StopTimerAndKeepAlive(pRunner)
    /\ IF ExpireNow(pRunner)
         THEN /\ refMu' = [refMu EXCEPT ![pRunner] = "pending"]
              /\ pPc' = "send"
         ELSE /\ pPc' = "wait"
              /\ UNCHANGED refMu
    /\ UNCHANGED <<schedState, channels, refCount, runnerRest, requestVars,
                   pReq, pRunner, pList, completedVars, handlerVars, envVars>>

PendingSendExpired ==
    /\ pPc = "send"
    /\ SendExpired(pRunner, "pending")
    /\ pPc' = "wait"
    /\ UNCHANGED <<schedState, pendingReqCh, finishedReqCh, unloadedCh, refCount,
                   sessionDuration, expireTimer, runnerRest, requestVars,
                   pReq, pRunner, pList, completedVars, handlerVars, envVars>>

\* "waiting for pending requests to complete and unload to occur"
PendingUnloadCompleted ==
    /\ pPc = "wait"
    /\ unloadedCh > 0
    /\ unloadedCh' = unloadedCh - 1
    /\ pPc' = "top"
    /\ pRunner' = None
    /\ UNCHANGED <<schedState, pendingReqCh, finishedReqCh, expiredCh, runnerState,
                   requestVars, pReq, pList, completedVars, handlerVars, envVars>>

\* Mutant: the inner select does not watch the context.
PendingExitFromIdle ==
    /\ pPc = "idle"
    /\ shutdown # "running"
    /\ pPc' = "exit"
    /\ UNCHANGED <<schedState, channels, runnerState, requestVars, pReq, pRunner, pList,
                   completedVars, handlerVars, envVars>>

\* Both selects also watch the scheduler's context.
PendingExit ==
    /\ pPc \in {"idle", "wait"}
    /\ shutdown # "running"
    /\ pPc' = "exit"
    /\ UNCHANGED <<schedState, channels, runnerState, requestVars, pReq, pRunner, pList,
                   completedVars, handlerVars, envVars>>

-----------------------------------------------------------------------------
(***************************************************************************)
(* The goroutine load starts: it holds refMu until the server runs         *)
(***************************************************************************)

LoaderReady(r) ==
    /\ refMu[r] = "load"
    /\ alive[r]
    /\ ctxOpen[r]
    /\ refCount' = [refCount EXCEPT ![r] = (@ + 1) % RefModulus]
    /\ armed' = [armed EXCEPT ![r] = TRUE]
    /\ phase' = [phase EXCEPT ![r] = "ok"]
    /\ handle' = [handle EXCEPT ![r] = r]
    /\ refMu' = [refMu EXCEPT ![r] = "free"]
    /\ UNCHANGED <<schedState, channels, sessionDuration, expireTimer, runnerRest,
                   ask, ctxOpen, pendingVars, completedVars, handlerVars, envVars>>

\* Mutant: the return after the error is missing.
LoaderErrorGoesOn(r) ==
    /\ refMu[r] = "load"
    /\ Refuse(r)
    /\ UNCHANGED <<schedState, channels, runnerState, ask, ctxOpen, handle, armed,
                   pendingVars, completedVars, handlerVars, envVars>>

LoaderError(r) ==
    /\ refMu[r] = "load"
    /\ Refuse(r)
    /\ refMu' = [refMu EXCEPT ![r] = "loadError"]
    /\ UNCHANGED <<schedState, channels, refCount, sessionDuration, expireTimer, runnerRest,
                   ask, ctxOpen, handle, armed, pendingVars, completedVars, handlerVars, envVars>>

\* Every send on expiredCh that changes nothing else but the sender's lock.
OnlyExpiredCh == UNCHANGED
    <<schedState, pendingReqCh, finishedReqCh, unloadedCh, refCount, sessionDuration,
      expireTimer, unloaded, alive, callbacks, requestVars, pendingVars, envVars>>

LoaderSendExpired(r) ==
    /\ SendExpired(r, "loadError")
    /\ OnlyExpiredCh
    /\ UNCHANGED <<retries, completedVars, handlerVars>>

-----------------------------------------------------------------------------
(***************************************************************************)
(* Keep-alive timers                                                       *)
(***************************************************************************)

\* From here on Stop no longer prevents the callback.
TimerFires(r) ==
    /\ expireTimer[r] = "armed"
    /\ sessionDuration[r] = Finite
    /\ expireTimer' = [expireTimer EXCEPT ![r] = "fired"]
    /\ callbacks' = [callbacks EXCEPT ![r] = @ + 1]
    /\ UNCHANGED <<schedState, channels, refMu, refCount, sessionDuration, unloaded,
                   alive, retries, requestVars, pendingVars, completedVars, handlerVars, envVars>>

TimerCallback(r) ==
    /\ callbacks[r] > 0
    /\ refMu[r] = "free"
    /\ callbacks' = [callbacks EXCEPT ![r] = @ - 1]
    /\ expireTimer' = [expireTimer EXCEPT ![r] = "nil"]
    /\ refMu' = [refMu EXCEPT ![r] = "timer"]
    /\ UNCHANGED <<schedState, channels, refCount, sessionDuration, unloaded,
                   alive, retries, requestVars, pendingVars, completedVars, handlerVars, envVars>>

TimerSendExpired(r) ==
    /\ SendExpired(r, "timer")
    /\ OnlyExpiredCh
    /\ UNCHANGED <<retries, completedVars, handlerVars>>

-----------------------------------------------------------------------------
(***************************************************************************)
(* processCompleted                                                        *)
(***************************************************************************)

CompletedIdle == cPc' = "idle" /\ cRunner' = None

\* Mutant: the nil check after the lookup is missing.
AfterLookupUnchecked(r) == "finished"
\* "finished request signal received after model unloaded"
AfterLookup(r) == IF r = None THEN "idle" ELSE "finished"

\* A finished request is looked up by its model, not by the runner it used.
CompletedReceiveFinished ==
    /\ cPc = "idle"
    /\ finishedReqCh # <<>>
    /\ ~loadedMu
    /\ finishedReqCh' = Tail(finishedReqCh)
    /\ LET r == loaded[schedulerModelKey(Head(finishedReqCh))] IN
        /\ cRunner' = r
        /\ cPc' = AfterLookup(r)
    /\ UNCHANGED <<schedState, pendingReqCh, expiredCh, unloadedCh, runnerState,
                   requestVars, pendingVars, handlerVars, envVars>>

\* The reference is dropped; an idle runner is expired or its timer set.
CompletedRelease ==
    LET left == (refCount[cRunner] + RefModulus - 1) % RefModulus
        expire == left = 0 /\ sessionDuration[cRunner] = Zero
    IN
    /\ cPc = "finished"
    /\ refMu[cRunner] = "free"
    /\ refCount' = [refCount EXCEPT ![cRunner] = left]
    /\ expireTimer' = [expireTimer EXCEPT ![cRunner] =
           IF left # 0 THEN @ ELSE IF expire THEN "nil" ELSE "armed"]
    /\ IF expire
         THEN /\ refMu' = [refMu EXCEPT ![cRunner] = "completed"]
              /\ cPc' = "send"
              /\ UNCHANGED cRunner
         ELSE CompletedIdle /\ UNCHANGED refMu
    /\ UNCHANGED <<schedState, channels, sessionDuration, runnerRest,
                   requestVars, pendingVars, handlerVars, envVars>>

\* processCompleted is also the only receiver of the channel it sends on.
CompletedSendExpired ==
    /\ cPc = "send"
    /\ SendExpired(cRunner, "completed")
    /\ CompletedIdle
    /\ OnlyExpiredCh
    /\ UNCHANGED <<retries, handlerVars>>

CompletedReceiveExpired ==
    /\ cPc = "idle"
    /\ expiredCh # <<>>
    /\ cRunner' = Head(expiredCh)
    /\ expiredCh' = Tail(expiredCh)
    /\ cPc' = "expired"
    /\ UNCHANGED <<schedState, pendingReqCh, finishedReqCh, unloadedCh, runnerState,
                   requestVars, pendingVars, handlerVars, envVars>>

\* A runner in use is tried again later; an idle one keeps its refMu locked.
CompletedExpired ==
    /\ cPc = "expired"
    /\ refMu[cRunner] = "free"
    /\ IF refCount[cRunner] > 0
         THEN /\ retries' = [retries EXCEPT ![cRunner] = @ + 1]
              /\ CompletedIdle
              /\ UNCHANGED refMu
         ELSE /\ refMu' = [refMu EXCEPT ![cRunner] = "completed"]
              /\ cPc' = "unload"
              /\ UNCHANGED <<retries, cRunner>>
    /\ UNCHANGED <<schedState, channels, refCount, sessionDuration, expireTimer, unloaded,
                   alive, callbacks, requestVars, pendingVars, handlerVars, envVars>>

\* The goroutine that sleeps 10 ms and sends the event again.
RetryExpired(r) ==
    /\ retries[r] > 0
    /\ HasRoom(expiredCh)
    /\ retries' = [retries EXCEPT ![r] = @ - 1]
    /\ expiredCh' = Append(expiredCh, r)
    /\ OnlyExpiredCh
    /\ UNCHANGED <<refMu, completedVars, handlerVars>>

\* With loadedMu too: a duplicate event is ignored, an orphan (its key now
\* names another process) is closed, a loaded runner is closed and removed.
CompletedUnload ==
    LET m == schedulerModelKey(cRunner) IN
    /\ cPc = "unload"
    /\ ~loadedMu
    /\ IF loaded[m] = None
         THEN UNCHANGED <<expireTimer, alive, unloaded>>
         ELSE unload(cRunner)
    /\ IF loaded[m] = cRunner
         THEN /\ loaded' = [loaded EXCEPT ![m] = None]
              /\ cPc' = "recover"
              /\ UNCHANGED <<refMu, cRunner>>
         ELSE /\ refMu' = [refMu EXCEPT ![cRunner] = "free"]
              /\ CompletedIdle
              /\ UNCHANGED loaded
    /\ UNCHANGED <<activeLoading, loadedMu, channels, refCount, sessionDuration, callbacks,
                   retries, requestVars, pendingVars, handlerVars, envVars>>

\* waitForVRAMRecovery has seen the memory come back, or has timed out.
CompletedRecovered ==
    /\ cPc = "recover"
    /\ refMu' = [refMu EXCEPT ![cRunner] = "free"]
    /\ cPc' = "notify"
    /\ UNCHANGED <<schedState, channels, refCount, sessionDuration, expireTimer, runnerRest,
                   requestVars, pendingVars, cRunner, handlerVars, envVars>>

\* Mutant: the runner is removed but nobody is told.
CompletedSilent ==
    /\ cPc = "notify"
    /\ CompletedIdle
    /\ UNCHANGED <<schedState, channels, runnerState,
                   requestVars, pendingVars, handlerVars, envVars>>

CompletedNotify ==
    /\ cPc = "notify"
    /\ unloadedCh < MaxQueue
    /\ unloadedCh' = unloadedCh + 1
    /\ CompletedIdle
    /\ UNCHANGED <<schedState, pendingReqCh, finishedReqCh, expiredCh, runnerState,
                   requestVars, pendingVars, handlerVars, envVars>>

CompletedExit ==
    /\ cPc = "idle"
    /\ shutdown # "running"
    /\ cPc' = "exit"
    /\ UNCHANGED <<schedState, channels, runnerState, requestVars, pendingVars,
                   cRunner, handlerVars, envVars>>

-----------------------------------------------------------------------------
(***************************************************************************)
(* Handlers that stop or expire runners, and the environment               *)
(***************************************************************************)

\* An event of the environment, counted against the bound.
Happens(kind) ==
    /\ kind \in Events
    /\ events < MaxEvents
    /\ events' = events + 1

\* The handler has looked up the runners todo and goes on under their refMu.
HandlerStarts(pc, todo) ==
    /\ hPc = "idle"
    /\ ~loadedMu
    /\ todo # {}
    /\ hPc' = pc
    /\ hTodo' = todo
    /\ UNCHANGED <<schedState, channels, runnerState, requestVars, pendingVars,
                   completedVars, hRunner, shutdown, panicked>>

\* StopModelHandler, and expireRunner for a chat that asks to unload.
StopModelHandler(m) == Happens("stop") /\ HandlerStarts("stop", {loaded[m]} \ {None})
expireRunner(m) == Happens("expire") /\ HandlerStarts("expire", {loaded[m]} \ {None})

\* A chat failed for lack of memory: every loaded runner is expired.
expireRunnersForRuntimeOOM ==
    /\ \E q \in Requests : phase[q] = "ok"
    /\ Happens("oom")
    /\ HandlerStarts("expire", LoadedRunners)

\* The handler has no more to do with runner r.
HandlerNext(r) ==
    /\ hTodo' = hTodo \ {r}
    /\ hRunner' = None
    /\ hPc' = IF hTodo' = {} THEN "idle" ELSE "expire"

\* Under refMu: a stop kills the process whoever uses it and always queues the
\* event; an expiration leaves a runner in use to its last request.
HandlerLock(r) ==
    /\ hPc \in {"stop", "expire"}
    /\ r \in hTodo
    /\ refMu[r] = "free"
    /\ StopTimerAndKeepAlive(r)
    /\ alive' = [alive EXCEPT ![r] = @ /\ hPc # "stop"]
    /\ IF hPc = "stop" \/ ExpireNow(r)
         THEN /\ refMu' = [refMu EXCEPT ![r] = "handler"]
              /\ hRunner' = r
              /\ hPc' = "send"
              /\ UNCHANGED hTodo
         ELSE HandlerNext(r) /\ UNCHANGED refMu
    /\ UNCHANGED <<schedState, channels, refCount, unloaded, callbacks, retries,
                   requestVars, pendingVars, completedVars, envVars>>

HandlerSendExpired ==
    /\ hPc = "send"
    /\ SendExpired(hRunner, "handler")
    /\ HandlerNext(hRunner)
    /\ OnlyExpiredCh
    /\ UNCHANGED <<retries, completedVars>>

\* unloadAllRunners closes every process but leaves the runners in loaded.
unloadAllRunners ==
    /\ ~loadedMu
    /\ alive' = [r \in Runners |-> alive[r] /\ r # activeLoading /\ r \notin LoadedRunners]
    /\ activeLoading' = None
    /\ UNCHANGED <<loaded, loadedMu, channels, refMu, refCount, sessionDuration, expireTimer,
                   unloaded, callbacks, retries, requestVars, pendingVars, completedVars,
                   handlerVars, panicked>>

StopAllModelsHandler == Happens("stopAll") /\ unloadAllRunners /\ UNCHANGED shutdown

\* A llama-server process dies.
Crash(r) ==
    /\ Happens("crash")
    /\ alive[r]
    /\ alive' = [alive EXCEPT ![r] = FALSE]
    /\ UNCHANGED <<schedState, channels, refMu, refCount, sessionDuration, expireTimer,
                   unloaded, callbacks, retries, requestVars, pendingVars, completedVars,
                   handlerVars, shutdown, panicked>>

\* Serve's signal goroutine: schedDone, then unloadAllRunners.
ShutdownCancel ==
    /\ shutdown = "running"
    /\ Happens("shutdown")
    /\ shutdown' = "cancelled"
    /\ UNCHANGED <<schedState, channels, runnerState, requestVars, pendingVars,
                   completedVars, handlerVars, panicked>>

ShutdownUnload ==
    /\ shutdown = "cancelled"
    /\ shutdown' = "unloaded"
    /\ unloadAllRunners
    /\ UNCHANGED events

-----------------------------------------------------------------------------
Init ==
    /\ loaded = [m \in Models |-> None]
    /\ activeLoading = None
    /\ loadedMu = FALSE
    /\ pendingReqCh = <<>>
    /\ finishedReqCh = <<>>
    /\ expiredCh = <<>>
    /\ unloadedCh = 0
    /\ refMu = [r \in Runners |-> "free"]
    /\ refCount = [r \in Runners |-> 0]
    /\ sessionDuration = [r \in Runners |-> Zero]
    /\ expireTimer = [r \in Runners |-> "nil"]
    /\ unloaded = [r \in Runners |-> FALSE]
    /\ alive = [r \in Runners |-> FALSE]
    /\ callbacks = [r \in Runners |-> 0]
    /\ retries = [r \in Runners |-> 0]
    /\ ask \in [Requests -> Asks]
    /\ phase = [q \in Requests |-> "new"]
    /\ ctxOpen = [q \in Requests |-> TRUE]
    /\ handle = [q \in Requests |-> None]
    /\ armed = [q \in Requests |-> FALSE]
    /\ pPc = "idle" /\ pReq = None /\ pRunner = None /\ pList = <<>>
    /\ cPc = "idle" /\ cRunner = None
    /\ hPc = "idle" /\ hRunner = None /\ hTodo = {}
    /\ events = 0 /\ shutdown = "running" /\ panicked = FALSE

RequestSteps(q) ==
    \/ GetRunner(q) \/ NeedsReload(q) \/ UseLoadedRunner(q) \/ Enqueue(q)
    \/ ReportFinished(q)

PendingSteps ==
    \/ PendingReceive \/ PendingIgnoreUnload \/ PendingSnapshot
    \/ PendingNeedsReload \/ PendingUseLoadedRunner
    \/ FindRunnerToUnload \/ FindIdleRunner \/ UpdateFreeSpace
    \/ LoadNoBatchConfig \/ LoadRefused \/ LoadNeedsEviction \/ LoadSpawn
    \/ LoadReturns \/ LoadFailed \/ LoadInsert
    \/ PendingEvict \/ PendingSendExpired \/ PendingUnloadCompleted \/ PendingExit

CompletedSteps ==
    \/ CompletedReceiveFinished \/ CompletedRelease \/ CompletedSendExpired
    \/ CompletedReceiveExpired \/ CompletedExpired \/ CompletedUnload
    \/ CompletedRecovered \/ CompletedNotify \/ CompletedExit

LoaderSteps(r) == LoaderReady(r) \/ LoaderError(r) \/ LoaderSendExpired(r)

CallbackSteps(r) == TimerCallback(r) \/ TimerSendExpired(r)

HandlerSteps == HandlerSendExpired \/ \E r \in Runners : HandlerLock(r)

EnvironmentSteps ==
    \/ StopAllModelsHandler
    \/ expireRunnersForRuntimeOOM
    \/ ShutdownCancel \/ ShutdownUnload
    \/ \E m \in Models : StopModelHandler(m) \/ expireRunner(m)
    \/ \E r \in Runners : Crash(r)

\* A panic in any goroutine ends the program.
Next ==
    /\ ~panicked
    /\ \/ \E q \in Requests :
             RequestSteps(q) \/ ContextDone(q) \/ LoaderSteps(q)
             \/ TimerFires(q) \/ CallbackSteps(q) \/ RetryExpired(q)
       \/ PendingSteps \/ CompletedSteps \/ HandlerSteps \/ EnvironmentSteps

Spec == Init /\ [][Next]_vars

-----------------------------------------------------------------------------
(***************************************************************************)
(* Fairness. Go runs every goroutine that is ready, hands a contended      *)
(* mutex over, serves blocked channel operations in order, and a select    *)
(* chooses at random among its ready cases. llama.Load and                 *)
(* WaitUntilRunning end by their timeout, and a handler that has its       *)
(* answer returns in the end. Only the last conjunct is about a choice     *)
(* that repeats: a finished request is received although the retried       *)
(* expired event is ready as often.                                        *)
(***************************************************************************)

\* Steps that goroutines other than the two loops take on their own.
GoroutineSteps ==
    \E q \in Requests :
        \/ RequestSteps(q)
        \/ LoaderSteps(q)
        \/ CallbackSteps(q)
        \/ phase[q] \in {"ok", "err"} /\ ContextDone(q)

Fairness ==
    /\ WF_vars(~panicked /\ (GoroutineSteps \/ HandlerSteps))
    /\ WF_vars(~panicked /\ \E r \in Runners : TimerFires(r))
    /\ WF_vars(~panicked /\ \E r \in Runners : RetryExpired(r))
    /\ WF_vars(~panicked /\ PendingSteps)
    /\ WF_vars(~panicked /\ CompletedSteps)
    /\ SF_vars(~panicked /\ CompletedReceiveFinished)

FairSpec == Spec /\ Fairness

-----------------------------------------------------------------------------
(***************************************************************************)
(* Properties                                                              *)
(***************************************************************************)

PendingPcs == {"idle", "top", "check", "use", "find", "scan", "space", "load", "loading",
               "loadFailed", "insert", "evict", "send", "wait", "exit"}
CompletedPcs == {"idle", "finished", "send", "expired", "unload", "recover", "notify", "exit"}
Holders == {"free", "load", "loadError", "pending", "completed", "timer", "handler"}
Phases == {"new", "check", "use", "enqueue", "waiting", "ok", "err"}

SchedulerType ==
    /\ loaded \in [Models -> Runners \cup {None}]
    /\ activeLoading \in Runners \cup {None}
    /\ loadedMu \in BOOLEAN
    /\ pendingReqCh \in Seq(Requests)
    /\ finishedReqCh \in Seq(Requests)
    /\ expiredCh \in Seq(Runners)
    /\ unloadedCh \in Nat

RunnerType ==
    /\ refMu \in [Runners -> Holders]
    /\ refCount \in [Runners -> 0..(RefModulus - 1)]
    /\ sessionDuration \in [Runners -> Durations]
    /\ expireTimer \in [Runners -> {"nil", "armed", "fired"}]
    /\ unloaded \in [Runners -> BOOLEAN]
    /\ alive \in [Runners -> BOOLEAN]
    /\ callbacks \in [Runners -> Nat]
    /\ retries \in [Runners -> Nat]

RequestType ==
    /\ ask \in [Requests -> Ask]
    /\ phase \in [Requests -> Phases]
    /\ ctxOpen \in [Requests -> BOOLEAN]
    /\ handle \in [Requests -> Runners \cup {None}]
    /\ armed \in [Requests -> BOOLEAN]
    /\ \A q \in Requests : phase[q] \in {"check", "use"} => handle[q] # None

PendingType ==
    /\ pPc \in PendingPcs
    /\ pReq \in Requests \cup {None}
    /\ pPc \notin {"idle", "exit"} => pReq # None
    /\ pRunner \in Runners \cup {None}
    /\ pPc \in {"check", "use", "scan", "evict", "send", "wait"} => pRunner # None
    /\ pList \in Seq(Runners)
    /\ pPc = "scan" => pList # <<>>

CompletedType ==
    /\ cPc \in CompletedPcs
    /\ cRunner \in Runners \cup {None}
    /\ cPc \notin {"idle", "exit"} => cRunner # None

HandlerType ==
    /\ hPc \in {"idle", "stop", "expire", "send"}
    /\ hRunner \in Runners \cup {None}
    /\ hPc = "send" => hRunner # None
    /\ hTodo \in SUBSET Runners

EnvironmentType ==
    /\ events \in Nat
    /\ shutdown \in {"running", "cancelled", "unloaded"}
    /\ panicked \in BOOLEAN

\* Every variable keeps its type, and the pointers that a goroutine is about
\* to follow are not nil: pReq, pRunner, cRunner, hRunner, and the runner that
\* the handler of a request has looked up.
TypeOK ==
    /\ SchedulerType
    /\ RunnerType
    /\ RequestType
    /\ PendingType
    /\ CompletedType
    /\ HandlerType
    /\ EnvironmentType

\* A llama-server process that runs is always reachable, through activeLoading
\* or through loaded under its model's key: no interleaving of load, stop,
\* eviction and expiration leaves a process that nobody would ever close.
NoOrphanProcess ==
    \A r \in Runners : alive[r] => activeLoading = r \/ loaded[schedulerModelKey(r)] = r

\* While a runner is being loaded its slot in loaded stays empty ("Shouldn't
\* happen" in load) and there is room for it below maxRunners.
Inserting == {"space", "load", "loading", "loadFailed", "insert"}
SlotReserved ==
    /\ Cardinality(LoadedKeys) <= maxRunners
    /\ pPc \in Inserting =>
        /\ loaded[schedulerModelKey(pReq)] = None
        /\ Cardinality(LoadedKeys) < maxRunners

\* "evict before spawning": while a model is being started on GPUs no other
\* llama-server process is alive.
GpuLoadAlone ==
    pPc \in {"loading", "insert"} /\ ask[pReq].gpus =>
        \A r \in Runners \ {pReq} : ~alive[r]

\* No lost wake-up: once processPending has chosen a runner to evict, that
\* runner is still loaded, or its unload event is on its way or queued.
UnloadEventComing == cPc \in {"recover", "notify"} \/ unloadedCh > 0
NoLostWakeup ==
    pPc \in {"evict", "send", "wait"} =>
        loaded[schedulerModelKey(pRunner)] = pRunner \/ UnloadEventComing

\* The inductive strengthening of the invariants above. activeLoading is a
\* local of the pending loop in all but name, a runner is found under its own
\* key, and not only the victim of an eviction but every runner the loop holds
\* a pointer to is loaded, or its unload event is coming.
OwnLoad ==
    activeLoading # None =>
        activeLoading = pReq /\ pPc \in {"loading", "loadFailed", "insert"}
KeyedByModel ==
    \A m \in Models : loaded[m] # None => schedulerModelKey(loaded[m]) = m
Tracked(r) == loaded[schedulerModelKey(r)] = r \/ UnloadEventComing
PointersTracked ==
    /\ pPc \in {"check", "scan", "evict", "send", "wait"} => Tracked(pRunner)
    /\ pPc = "scan" => \A i \in DOMAIN pList : Tracked(pList[i])

\* What the proofs carry from step to step about processPending, its load and
\* what the other goroutines remove from loaded meanwhile.
SchedulerInv ==
    /\ TypeOK
    /\ OwnLoad
    /\ KeyedByModel
    /\ NoOrphanProcess
    /\ SlotReserved
    /\ GpuLoadAlone
    /\ PointersTracked

\* One answer: a request that waits is in one place only, the queue, the
\* pending loop or the load goroutine, and none of them has an answered
\* request. A second answer would block its sender on a full channel.
Occurrences(q) == Cardinality({i \in DOMAIN pendingReqCh : pendingReqCh[i] = q})
OneAnswer ==
    \A q \in Requests :
        LET places == Occurrences(q) + (IF pReq = q THEN 1 ELSE 0)
                        + (IF refMu[q] = "load" THEN 1 ELSE 0)
        IN places <= 1 /\ (places = 1 => phase[q] = "waiting")

\* The end of a request that was given runner r has still to be counted.
Reported(q) == \E i \in DOMAIN finishedReqCh : finishedReqCh[i] = q
InUse(r) ==
    \/ \E q \in Requests : handle[q] = r /\ (armed[q] \/ Reported(q))
    \/ cRunner = r /\ cPc = "finished"

\* Something will ask processCompleted to unload r: a timer, its callback, a
\* queued event, one that is tried again, or one that is being looked at.
WillExpire(r) ==
    \/ expireTimer[r] = "armed"
    \/ callbacks[r] > 0
    \/ retries[r] > 0
    \/ \E i \in DOMAIN expiredCh : expiredCh[i] = r
    \/ cRunner = r /\ cPc = "expired"

\* A loaded runner with a count of zero that nobody uses and that is not kept
\* forever will expire, however finishes, timers, stops, evictions and new uses
\* are interleaved. (A count that has wrapped below zero is brought back to zero
\* by the next use, with the timer stopped: such a runner is in use.)
IdleRunnerWillExpire ==
    \A r \in LoadedRunners :
        refMu[r] = "free" /\ refCount[r] = 0 /\ ~InUse(r) /\ sessionDuration[r] # Forever =>
            WillExpire(r)

\* The inductive strengthening: only a request that was given a runner reports
\* its end, and a runner that has been removed is not loaded again.
ReportsAfterUse == \A q \in Requests : armed[q] \/ Reported(q) => phase[q] = "ok"
RemovedForGood == cPc = "recover" => cRunner \notin LoadedRunners
IdleInv ==
    /\ ReportsAfterUse
    /\ RemovedForGood
    /\ IdleRunnerWillExpire

\* Every request that has arrived is answered, unless the server shuts down.
EveryRequestAnswered ==
    \A q \in Requests :
        phase[q] # "new" ~> phase[q] \in {"ok", "err"} \/ shutdown # "running"

\* Once the clients have gone no llama-server process is left running, if
\* none was asked to stay forever and the server is not shut down.
MemoryReclaimed == <>[](shutdown # "running" \/ \A r \in Runners : ~alive[r])

\* "spawns go routines for the scheduler which will shutdown when ctx is done"
\* (Run): once the context is cancelled both loops end, unless the program does.
LoopsStop == shutdown # "running" ~> panicked \/ (pPc = "exit" /\ cPc = "exit")

-----------------------------------------------------------------------------
(***************************************************************************)
(* What a comment of the code promises and the code does not keep          *)
(***************************************************************************)

Uses(q, r) == phase[q] = "ok" /\ handle[q] = r

\* "refCount uint // prevent unloading if > 0": a runner is not unloaded while
\* a request that was given it is still being served.
BusyRunnerNotUnloaded ==
    [][\A r \in Runners : ~unloaded[r] /\ unloaded'[r] =>
           ~\E q \in Requests : Uses(q, r) /\ ctxOpen[q]]_vars

=============================================================================
