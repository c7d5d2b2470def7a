-------------------------- MODULE SchedulerService --------------------------
(***************************************************************************)
(* The scheduler implements RunnerService: how its variables give the      *)
(* answers and the processes of the abstract specification.                *)
(***************************************************************************)
EXTENDS Scheduler

\* The load of r is past the start of its process.
Spawned(r) ==
    \/ pReq = r /\ pPc \in {"loading", "loadFailed", "insert"}
    \/ refMu[r] = "load"

wantedOf == [q \in Requests |-> [model |-> ask[q].model, gpus |-> ask[q].gpus]]

answerOf == [q \in Requests |->
    CASE phase[q] = "ok" -> handle[q]
      [] phase[q] = "err" -> "error"
      [] OTHER -> "waiting"]

processOf == [r \in Runners |->
    CASE alive[r] -> "running"
      [] ~alive[r] /\ (phase[r] \in {"ok", "err"} \/ Spawned(r)) -> "gone"
      [] OTHER -> "absent"]

\* "maxRunners"
RoomBeside(running) == Cardinality(running) < maxRunners

Service == INSTANCE RunnerService
    WITH wanted <- wantedOf, answer <- answerOf, process <- processOf

\* Whatever the interleaving of handlers, loops, loads, timers, stops and
\* crashes, the scheduler behaves like RunnerService: no request is answered
\* twice or with a runner of another model or with one that never started, no
\* process is started beyond maxRunners or beside another one when it is on
\* GPUs, and none comes back.
ImplementsService == Service!Spec

-----------------------------------------------------------------------------
(***************************************************************************)
(* Why it does: what holds between the steps beside SchedulerInv           *)
(***************************************************************************)

\* The load of r has come to a runnerRef, or will never be.
Begun(r) == phase[r] \in {"ok", "err"} \/ refMu[r] = "load"

\* Something in the scheduler leads to the runnerRef r.
InLoaded(r) == \E m \in Models : loaded[m] = r
Scheduled(r) == \/ refMu[r] # "free" \/ expireTimer[r] # "nil"
                \/ callbacks[r] > 0 \/ retries[r] > 0
Held(r) == \/ r \in {pRunner, cRunner, hRunner} \cup hTodo
           \/ \E q \in Requests : handle[q] = r
Listed(r) == \/ \E i \in DOMAIN pList : pList[i] = r
             \/ \E i \in DOMAIN expiredCh : expiredCh[i] = r
PointedTo(r) == InLoaded(r) \/ Scheduled(r) \/ Held(r) \/ Listed(r)

\* Nothing leads to a runner before its load has begun.
PointersBegun == \A r \in Runners : PointedTo(r) => Begun(r)

\* A request that waits is in one place: the queue, once, the pending loop or
\* the goroutine of its load; and a request in one of them waits.
QueueWaits ==
    /\ \A i \in DOMAIN pendingReqCh :
          LET q == pendingReqCh[i] IN phase[q] = "waiting" /\ refMu[q] # "load" /\ q # pReq
    /\ \A i, j \in DOMAIN pendingReqCh : pendingReqCh[i] = pendingReqCh[j] => i = j
LoopWaits == pReq # None => phase[pReq] = "waiting" /\ refMu[pReq] # "load"
LoadWaits == \A r \in Runners : refMu[r] = "load" => phase[r] = "waiting"

\* processCompleted unlocks a refMu that it has locked.
CompletedHolds == cPc \in {"unload", "recover"} => refMu[cRunner] = "completed"

\* A runner that a request may be given is of its model.
SameModel ==
    /\ \A q \in Requests :
          handle[q] # None => schedulerModelKey(handle[q]) = schedulerModelKey(q)
    /\ pPc \in {"check", "use"} => schedulerModelKey(pRunner) = schedulerModelKey(pReq)

\* What the proof of ImplementsService carries from step to step about who may
\* answer a request, and with what.
ServiceInv ==
    /\ PointersBegun
    /\ QueueWaits
    /\ LoopWaits
    /\ LoadWaits
    /\ CompletedHolds
    /\ SameModel
=============================================================================
