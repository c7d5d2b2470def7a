# Yollama: TLA+ models, checks and proofs

Yollama is a local server for language models: an HTTP API in Go that pulls
models from a registry, keeps them as blobs and manifests on disk, and serves
requests by starting one `llama-server` child process per loaded model. This
directory models its core: the scheduler that owns those processes, the chats
they answer, the download of blobs, the store of manifests and blobs with the
requests that change it, the merging of sharded models, and Modelfiles. TLC
checks the models, TLAPS proves safety properties of them, and the scheduler is
shown to implement an abstract specification. `PROJECT.json` lists the
components, the runs, the source lines behind every definition, the hazards,
the findings and the theorems.

## 1. Inventory

| Component | State it keeps | Operations | Interacts with |
|---|---|---|---|
| Scheduler (`server/sched.go`) | `loaded`, `activeLoading`, four buffered channels, `loadedMu`; per runner `refMu`, `refCount`, `sessionDuration`, `expireTimer`, process | `getRunner`, `processPending`, `processCompleted`, `load` and its goroutine, `useLoadedRunner`, `unload`, timers, `expireRunner`, `unloadAllRunners` | handlers call it; it starts and closes processes |
| Stop handlers (`server/model_stop.go`) | none of their own | stop one model, stop all | take `refMu`, close processes, send on `expiredCh` |
| HTTP server (`server/routes.go`) | a context per request | chat, generate, pull, create, copy, delete, show, list, shutdown on a signal | scheduler, storage, streaming relay |
| llama-server process (`llm/llama_server.go`, `llm/status.go`) | child process, request semaphore, exit status, load progress | start, `Load`, `WaitUntilRunning`, `Chat`, `Close` | scheduler, handlers |
| Blob download (`server/download.go`) | a map of downloads in progress, part files, reference count | join or start, prepare, fetch parts with retry and stall detection, resume, cancel | pull handler, disk, registry |
| Pull, copy, prune (`server/unified_shard_conductor.go`), shards (`server/multi_shard_conductor.go`) | manifests and blobs on disk, a staging directory | pull, merge shards, copy, prune unused layers | downloads, manifest store |
| Manifest store (`manifest/`) | manifest files in a primary and an auxiliary directory, layers | write, read, remove, scan, remove layers | pull, create, copy, delete, show, prune at start |
| Create (`server/create.go`, `server/quantization.go`) | none across requests | make layers, write a manifest | manifest store |
| Show cache (`server/model_show_cache.go`, `server/gguf_metadata.go`) | cached answers by name and digest; metadata files extracted from blobs | get, set; load, extract, publish, remove, prune | show handler, manifests, blobs |
| Discovery (`discover/`), devices (`ml/device.go`) | cached device list | probe, refresh free memory | scheduler |
| Modelfiles (`parser/`, `server/model_data.go`) | the state of a parser over runes | print, parse | show, create |
| File formats (`fs/ggml`, `fs/gguf`), `template/`, `types/model`, names | none | decode, format | handlers |
| Code that nothing imports (`server/internal/`, `thinking/`, `tools/`) | | | not part of the program |
| Client (`cmd/`, `api/`, `readline/`, `progress/`) | a terminal | one command at a time | HTTP API |
| Vendored code (`cobra`, `pflag`, `blackfriday`, `go-yaml`, ...) | | | not part of this project |

What is hard, component by component, with the property that makes it right:

- **Scheduler.** Two loops, one goroutine per load, per timer, per retried
  event and per finished request, and the HTTP handlers interleave over two
  levels of locks and channels that block when they are full. It is right when
  every request gets exactly one answer, no process is ever lost, a model in
  use is not unloaded, an idle one is in the end, the pending loop is never
  left waiting for an event that nobody will send, a GPU load is alone, and a
  shutdown ends both loops.
- **llama-server process and streaming.** A client that goes away, a process
  that dies, and a stream that nobody reads any more; every request must give
  its semaphore back.
- **Blob download.** A second pull joins a download before it is prepared; a
  part stalls, is retried, resumed after a crash; the last waiter to leave
  cancels it. A blob at its final name must be complete.
- **Manifest store.** No lock guards it. A crash or a second request comes
  between two file operations; what is unused is decided by a scan and removed
  later. A manifest that can be read must name blobs that exist.
- **Show cache and metadata files.** An answer must not be served for another
  version of the model; a metadata file must not outlive its blob because the
  writer and the remover each left it to the other.
- **Shard conductor.** All pulls share one staging directory and one assembly
  file. What one leaves behind must not end up in the model of the next.
- **Modelfiles.** A model printed by `show` and read by `create` must be the
  same model; a value must not end early or be taken for a command.

## 2. Plan

Done: `Scheduler` with its proofs, `RunnerService` (what the scheduler
promises) with the refinement checked and proved, `BlobDownload`, `ModelStore`,
`ChatStream`, `ShardConductor` and `Modelfile`, each with an inductive invariant
that is checked and proved and the safety properties that follow from it.

Every safety property of the passing runs has a theorem. What is left is liveness,
which is out of the prover's reach (section 5); beyond that the code with control of
its own is covered, and section 6 says what is left out and why.

## 3. Modules

| Module | What it is |
|---|---|
| `Scheduler` | the specification: state, one action per critical section, fairness, properties, the inductive invariant |
| `MCScheduler` | what the clients ask for in each TLC instance |
| `SchedulerProofs` | type correctness: one lemma per part that a step leaves alone, one step per action; then `SchedulerInv` is inductive, and the safety theorems that follow |
| `RunnerService` | what the scheduler promises the handlers, without goroutines, locks and channels |
| `SchedulerService` | the refinement mapping from `Scheduler` to `RunnerService`, and the invariant it rests on |
| `SchedulerServiceProofs` | `ServiceInv` is inductive, every step of the scheduler is one of the service or none |
| `SchedulerIdleProofs` | `IdleInv` is inductive beside the two: a runner that nobody uses will expire |
| `BlobDownload` | the download of one blob: pulls, manager entry, run, workers, files, crash and restart |
| `MCBlobDownload` | the symmetry of its pulls for TLC |
| `BlobDownloadProofs` | `BlobInv` is inductive with the types, and the theorems that follow |
| `ModelStore`, `MCModelStore` | manifests, blobs, metadata files and the show cache under pull, create, copy, delete, show, upload, crash and start |
| `ModelStoreProofs` | types, `StoreInv` and `MetadataSwept` are inductive, and the theorems that follow |
| `ChatStream`, `MCChatStream` | chats of one runner: producer, channel, handler, client, llama-server |
| `ChatStreamProofs` | `ChatInv` is inductive with the types, and the theorems that follow |
| `ShardConductor`, `MCShardConductor` | pulls of sharded models over the shared staging directory and assembly file |
| `ShardConductorProofs` | `ShardInv` is inductive with the types, and the theorems that follow |
| `Modelfile`, `MCModelfile` | printing and parsing of Modelfiles, one rune at a time |
| `ModelfileProofs` | `ParserInv` is inductive, and the two theorems that follow: what is printed is read |

How they fit together: `ModelStore` takes a download as one step that puts a
blob in place, which is what `BlobDownload` shows of it (`PullOkMeansBlob`), and
a sharded pull as one that puts a merged blob in place, which `ShardConductor`
details. `ChatStream` takes from `Scheduler` that a chat gets a runner of the day
and that a runner is closed when the contexts of its chats are done, and
`RunnerService` says what may be relied on there.

### How `Scheduler` corresponds to the code

*State.* `loaded`, `activeLoading`, `pendingReqCh`, `finishedReqCh`,
`expiredCh`, `unloadedCh` (a count: its elements carry nothing), `refCount`
(modulo `RefModulus`, 2^64 in the code), `sessionDuration` and `expireTimer` are
the fields of the same names. A runner is named by the request it was loaded
for: a request is scheduled at most once and loads at most once. `refMu` names
the goroutine that holds a runner's mutex across a step; `loadedMu` is TRUE only
while it is held across a step, which one path of `load` does forever.
`callbacks` counts timer functions that have started and wait for `refMu`,
`retries` the goroutines that sleep 10 ms before they send an expired event
again. `phase`, `handle`, `ctxOpen` and `armed` are a request's handler and the
goroutine that waits for its context. `pPc`, `cPc` and `hPc` are the positions
of `processPending`, of `processCompleted`, and of a handler that stops or
expires runners, with their locals.

*Steps.* A critical section that cannot block inside is one action, enabled
when its locks are free. A section that sends on a channel with its lock held
(`s.expiredCh <- runner` under `refMu`) is two, so that a full channel blocks
the sender with the lock. Reading a pointer under `loadedMu` and using it under
`refMu` are different steps, as in the code: most hazards live there.

*Data.* A session duration is zero, finite or forever. An option is "automatic"
or one explicit choice. A model runs on GPUs or on the CPU. Memory sizes are
left out: `load` evicts by count and by the presence of GPUs, and the sizes that
`updateFreeSpace` computes do not steer the loop. `needsReload` may always say
yes, because its ping has a timeout.

*Environment.* A process crashes; a client stops a model, stops all models, or
asks to unload; a chat runs out of memory; the batch configuration is
unreadable; a signal shuts the server down. `Events` selects the kinds that an
instance may see, `MaxEvents` how many.

*Code that no execution reaches* is left out: the branches of `processPending`
for a repeated attempt (`schedAttempts` never exceeds 1), the out-of-memory retry
inside `load`, `ErrLoadRequiredFull`, a `maxRunners` that is not positive (it is
the constant 2), and a `load` that finds `activeLoading` set. `LogValue` and the
list of loaded models only read. A queue capacity of 0, which makes the channels
unbuffered, is not modelled (`MaxQueue` is at least 1).

### How `BlobDownload` corresponds to the code

*State.* One digest. `manager` is its entry in `blobDownloadManager`; `parts`,
`completed`, `done`, `err`, `cancelFunc` and `references` are the fields of a
`blobDownload`, which is named by the pull that made it. `rPc` is the position
of `run`, `wPc`, `got` and `tries` those of the errgroup's workers; `pc`, `mine`
and `ctxOpen` belong to the calls of `downloadBlob`. On disk are the part files
(`partFile`, `partDone`), the data file (`fileLen`, `written`) and the blob.

*Steps.* `Stat` and `LoadOrStore` are two steps, and so are setting up an entry,
starting `run`, setting `CancelFunc`, deleting the entry and closing `done`:
everything another pull can come between. `Receive` writes one unit of data at
its offset; a transfer ends with all of it, an unexpected end, a stall or the
context, keeps its progress and saves its part file, or fails and rolls back.
`RunStart` truncates to the sum of the known parts, `RunRemovePart` removes by
index and fails on a missing file, as the code does. `Verify` is `verifyBlob`,
whose mismatch error is commented out. `ReleasePanics` is a release that calls a
`CancelFunc` not set yet: nothing recovers the panic, and the process ends.

*Environment.* `Faults` names what may go wrong: a crash of the process, the
prune at the next start, a network error, stalls (as many as you like), a full
disk, an answer without a length; `MaxFaults` bounds all but stalls. A crash of
the process keeps what was written; a crash of the machine, which may lose it, is
not modelled. The prune looks at the age of each file by itself, and the data
file may be up to a stall older than the part file saved after it, so any of
them may go.

*Abstracted.* Parts of equal size, contents as "written or not", and the
progress numbers shown to the user. The ticks of `Wait` stay, since a report
blocks on the response.

### `RunnerService` and the refinement

`RunnerService` has three functions: what each request wants, its answer
(waiting, an error, or a process) and the state of the process named after it
(absent, running, gone). A process starts for a waiting request, when there is
room, alone when it is on GPUs, and never again once it is gone; a request is
answered once, with an error or with a process of its model that has started.
It does not promise that the process still lives: the code hands out runners that
may have died since (see `sched_busy`), and the chat then fails.

In the mapping `answerOf` reads `phase` and `handle`, and `processOf` reads
`alive`; a process that is not alive is gone when its request is answered or the
load has passed the start of it (`Spawned`), and absent before. `Decline` may
leave a process that runs (an answer by timeout of the context) or turn an absent
one to gone, because nothing will start it any more.

### How `ModelStore` corresponds to the code

*State.* `file[d][n]` is the manifest file of a name in a directory: absent, torn
(truncated and not yet written, as `os.WriteFile`, `os.Create` and `io.Copy`
leave it in between) or the set of layers it names. `blobs` and `metadata` are
the files in their directories, `cache` the show cache. A handler is a record of
its position and locals. `risk`, `unwritten` and `leftover` are history: whether
requests have overlapped or a name was ever in both directories, which config
blobs are missing because a sharded pull failed to write them without noticing,
and which metadata files lost their cleaner in a crash or could not be removed.

*Steps.* One file operation each: a layer fetched, the manifest truncated, then
written, a blob removed, its metadata removed (at once in a pull, after all blobs
otherwise, as in the code), a file renamed into place and looked at again. The
scan of all manifests is one step. A manifest unlinked while another request has
it open keeps being written or read by that request (`WriteUnlinked`,
`CopyWrite`). A create from a model that is not there runs a pull first and
resumes (`PullBase`, `Resume`). When that fails the client is told, and
`CreateHandler` goes on without base layers (kind "told"); since nobody receives a
second message after the error, it blocks before it writes the manifest.

A sharded pull moves the merged blob into place (`MergeShards`) and writes its
config blob (`WriteConfig`), whose errors the code discards while it names the blob
all the same; when an earlier step of it fails, the pull goes on as a unified one
(`ShardsFail`). Removals fail as the code lets them: a delete whose directory cannot
be pruned leaves the layers (`SkipRemoval`), a blob that cannot be removed stops a
delete and is skipped by a pull (`KeepBlob`), a metadata file that cannot be removed
stays for the next start (`DropMetadata`).

*Data.* A layer is a digest, a manifest the set of its digests, and two manifests
with the same layers have the same digest. A layer is a GGUF layer, a config or
another. `Serve` prunes the blobs older than the grace period, any set of them.
Blobs of the auxiliary directory are left out: new blobs go to the primary one.
Directories are left out, too: `PruneDirectory` may remove one that another
writer has just made, which makes that writer fail as `Fail` does.

### How `ChatStream` corresponds to the code

`producer[c]` is the goroutine of `handleNativeChat` inside `Chat`, `handler[c]` the
HTTP handler in `streamResponse` or `writeChatResponse`, `body[c]` the answer of
llama-server as it arrives (chunks, final event, end of file, broken off, silent),
`sem[g]` the semaphore of runner `g`, `proc[g]` its process: running, exited, or
reaped by the goroutine of `startProcess`. The channel is unbuffered: `Deliver`
moves both sides. `c.Stream` looks for a client that has gone before each message
and not while it waits for one; a handler that collects the answer never looks.
Every return of `Chat` goes through `Release`, which is its deferred call. A chat
holds its lease of the runner until its context is done, which is when the handler
returns or the client has left (`Leases`); a producer may go on after that, and the
runner may be closed under it. `Close` of a runner whose process cannot be killed
returns without waiting (`StopProcess`). llama-server is external and may end, hang,
break off or crash at any point. `PullHandler` and `CreateHandler` use the same
channel and `streamResponse`, without a slot to lose.

### How `ShardConductor` corresponds to the code

`staged` and `asm` are the shard files and `yollama_direct_assembly.gguf`, with
their content (a model, torn, or mixed), `creator` and `merger` say who emptied
them last, and a pull's `linked` and `output` whether the file it has open still
has a name, and which: renames and removals by other pulls change that. The
digest of a file is its content. The merge tool is external: it empties its
output, reads all the shards and fills it, and goes on when the server is killed
(`orphan`). A read error while the file is hashed is `log.Fatal`, which is a `Crash`.
The error of `os.RemoveAll` is ignored: the directory may stay with any of its files
(`stale`). A `Crash` includes the prune of the next start, which may take the assembly
file and any blob that no manifest names. The config blob of the synthetic manifest is
part of `ModelStore`.

### How `Modelfile` corresponds to the code

The state is that of `ParseFile`: position, `curr`, buffer, command, role and
the commands so far; an action per state transition. Command words, roles and
parameter names are single runes that count as letters. The input is what
`Modelfile.String` prints for a model with one interesting value, with comments
and blank lines in between. A carriage return ends a line for the parser, while
`quote` looks for newlines and spaces only; a rune that `strconv.IsPrint` rejects
and that is no blank is left out of the buffer (`Unprintable` stands for all of
them). Values are valid UTF-8: the decoder's replacement of other bytes is left out.

`Survives` is the reference: which values come back. It shows that not all do. A
value with an unprintable rune loses it. A value that is printed without quotes must
have no carriage return, must not begin with a quote, and must not begin or end with a
tab. In a value that is printed in quotes no line, ended by a newline or a carriage
return, may end in three quotes. Every other value is changed, or the file is rejected,
when the printed Modelfile is read again.

## 4. Runs

| Run | Expect | What it shows |
|---|---|---|
| `sched_events` | pass | two requests, two models, all seven kinds of event, one of them at any point: `TypeOK`, `NoOrphanProcess`, `GpuLoadAlone`, and `ImplementsService`, the refinement |
| `sched_crowded` | pass | three requests for three models, more than `maxRunners`: `NoLostWakeup`, `OneAnswer`, `IdleRunnerWillExpire`, `SlotReserved`, `ImplementsService`, and `SchedulerInv` and `ServiceInv`, the invariants the proofs use |
| `sched_live` | pass | two models that replace each other, with a crash, a stop or a shutdown at any point, under fairness: `EveryRequestAnswered`, `MemoryReclaimed`, `LoopsStop` |
| `sched_busy` | violation | `refCount uint // prevent unloading if > 0` is not kept: a finished request is counted against whichever runner its model has now |
| `blob_pulls` | pass | two pulls, two parts of two units, every fault but pruning, one of them at any point and any number of stalls: `TypeOK`, `OneWriter`, `PullOkMeansBlob`, `BlobNotHoled`, and `BlobInv`, the invariant the proofs use |
| `blob_abandoned` | pass | under fairness, endless stalls and pruned part files, `AbandonedDownloadStops` |
| `store` | pass | three requests one after the other or two at a time, two names, two directories, four layers, failures, a crash and a prune anywhere: `TypeOK`, `StoreSound` (a config whose failed write went unnoticed apart) with its invariant `StoreInv`, `MetadataSwept`, `ShownIsCurrent` |
| `store_race` | violation | a copy beside the delete of the same model: `RemoveLayers deletes the layers no other manifest references` is not kept, because the copy, which has the unlinked manifest open, writes it under its new name after the scan (`RemovesUnused`) |
| `stream` | pass | two chats on a runner with one slot and a reload, everything that can go wrong: `TypeOK`, `SlotsCounted`, `StrandedByLeaver`, `AnswerInOrder`, `EndIsTold`, and `ChatInv`, the invariant the proofs use |
| `stream_live` | pass | the same under fairness, without a reload: `LeaverReturns`, `ChatAnswered` |
| `shards` | pass | three pulls, two at a time, shards of the same names, failures, a crash and a prune: `TypeOK`, `PulledAlone`, `StageRemoved`, `BlobKept`, and `ShardInv`, the invariant the proofs use |
| `modelfile` | pass | every value of up to five runes of six kinds, and of up to four with a command word, a hash sign or an unprintable rune among them, in three commands, with three fillers: `RoundTrip`, `ReadsInOrder` |

*Bounds.* `maxRunners` is 2 in the code, so three models are enough to be at
capacity and have a request beyond it, and two requests are enough for every pair of
goroutines that share a runner: every lock and every channel has at most two sides.
Violations about a runner that is replaced need a third request, and those runs have
it. `MaxQueue` is 3 so that no channel fills by accident. One event is enough to
meet every point of an execution; the theorems cover the rest. `RefModulus` is 8,
above every count that can be reached, so that only a decrement below zero wraps.
Requests are interchangeable and the safety runs use that symmetry; the liveness
runs do not. For the download, two pulls are a first one and one that joins or
follows it, and after a crash each may do so again; two parts of two units let a
part be missing, empty, half there or complete beside another; two attempts are one
that is retried and one that is the last. In the store, two names and two GGUF
layers let manifests share a layer, replace one and copy one; three requests in a
row are one that makes a model, one that changes it and one that meets the result,
and two at a time are every pair of handlers (`MaxOverlapping`). `StoreSound` and
`ShownIsCurrent` say nothing once requests have overlapped: `store_race` shows a
removal of layers in use then; `MetadataSwept` holds for every interleaving. Two
chats on one slot are one that holds it and one that waits. Three sharded pulls are
two that get in each other's way and one that comes after; five runes are the least
that hold three quotes, a newline or carriage return and something after it.

*Deadlock* is not checked: clients are finite here, and a server with no client
left stops. That it does not stop earlier is what `EveryRequestAnswered`,
`MemoryReclaimed` and `LoopsStop` say.

*Fairness.* Weak fairness of each loop, of the other goroutines together, of
timers, and of retried events: the Go scheduler runs what is ready, mutexes are
handed over, and channel operations are served in order. `llama.Load` and
`WaitUntilRunning` have timeouts, and a handler that has its answer returns.
Strong fairness is assumed of one step only, receiving a finished request: the
`select` of `processCompleted` chooses at random among its ready cases, so a
retried expired event cannot win every time. Nothing is assumed of clients that
still wait, of crashes, stops or signals. In `BlobDownload` goroutines, requests
and file operations go on (weak fairness); `Wait`'s `select` cannot choose the
tick every time (strong fairness of the steps that return from it); no data has
to arrive, and the response of a client that has left takes no progress. In
`ChatStream` goroutines go on (weak fairness), `semaphore.Weighted` serves its
waiters in order (strong fairness of `Acquire`), and llama-server makes a step or
hangs; it need not answer, and clients need not leave.

### Departures that the models show

The models contain these behaviours of the code; no property of a passing run
denies them, and the liveness properties name them as exceptions or are checked
without the event that starts them.

- A finished request is counted against the runner that its model has now. A
  count may so reach zero early, or wrap below it; a wrapped count is not zero when
  the users have gone, so no timer is set, the runner stays loaded, and an eviction
  of it waits for ever (`CompletedReceiveFinished`, `CompletedRelease`). It takes a
  runner that is replaced, and four requests for one model in all.
- An expired event that a keep-alive timer has queued unloads the runner although
  a later request asked to keep it (`CompletedExpired`).
- A request with `keep_alive` -1 that joins a runner marked for eviction keeps it,
  and `processPending` waits with it (`PendingEvict`, `UseLoadedRunner`).
- `load` returns with `loadedMu` locked when the batch configuration cannot be
  read (`LoadNoBatchConfig`); stop-all during a load that fails makes `load` call a
  nil `activeLoading` (`LoadFailed`).
- With `YOLLAMA_MAX_QUEUE=1` `processCompleted` can block on the channel that only
  it receives from (`CompletedSendExpired`).
- After a crash between two part files the next pull takes the ones it finds for
  all of them, and `verifyBlob`, whose mismatch error is commented out, lets the
  short blob pass (`Prepare`, `Verify`).
- Pulls that joined a download whose `Prepare` fails are never told, and the last
  of them to leave ends the process (`ReleasePanics`).
- A streamed chat whose client leaves can leave its producer on the channel, with
  its slot, for as long as the runner lives (`Stranded`).
- A torn manifest cannot be deleted, though `Serve` says `Re-pull or delete to
  clear` (`DeleteModel`), and keeps every start from pruning.
- With an auxiliary directory a pull of a name that the primary one holds writes a
  manifest that nobody reads, and the blobs it fetched count as unused (`risk`
  "shadow").
- A sharded pull whose config blob cannot be written succeeds, with a manifest that
  names the missing blob (`WriteConfig`, `unwritten`).
- A create whose base model cannot be read or pulled blocks for good after the error
  was sent, since nobody receives its next message (kind "told").
- A value with a carriage return or an unprintable rune may be printed so that the
  parser cuts, changes or rejects it (`Survives`).
- Overlapping pulls of sharded models may swap their models or mix them
  (`disturbed`).

## 5. Proofs

For every set of requests and models, every queue capacity, every default
keep-alive and every sequence of events, from the named assumptions in
`Scheduler` (`ModelsAssumption` to `EventsAssumption`: models are finitely many
numbers, `None` is not a request, the capacity is positive, the modulus exceeds
one):

- `TypeCorrect`: `TypeOK`. Besides types it says that no goroutine follows a nil
  pointer of its own. The invariant is split by owner (scheduler, runners,
  requests, each loop, handlers, environment), and each action only touches a
  few parts.
- `SafetyCorrect`: `SchedulerInv` is an invariant, and from it
  `ProcessesReachable` (`NoOrphanProcess`), `CapacityRespected` (`SlotReserved`),
  `GpuLoadExclusive` (`GpuLoadAlone`) and `WakeupNotLost` (`NoLostWakeup`).

Why the strengthening is needed: `NoOrphanProcess` fails after a `LoadSpawn` that
overwrites `activeLoading`, so `OwnLoad` says that it is set only for the request
in the load's hands; `GpuLoadAlone` at the spawn needs `NoOrphanProcess` and
`OwnLoad` (nothing loaded and nothing loading means nothing alive);
`NoLostWakeup` speaks of the victim once it is chosen, and to be inductive has to
hold of every runner that the loop may still choose (`PointersTracked`), which
comes out of the snapshot of `loaded` because runners are found under their own
key (`KeyedByModel`). The proof first sorts the steps into those of
`processPending`, those of `processCompleted` and bystanders, which neither
change `loaded` nor start a process (`StepKinds`).

- `ServiceInvCorrect`: `ServiceInv` is an invariant; from it and `SchedulerInv`
  `ServiceImplemented`, the refinement (`ImplementsService`), and `AnsweredOnce`
  (`OneAnswer`).

The refinement needs to know, at each step that answers a request, that the
request still waits, and at each step that hands out a runner, that the runner
has started and is of the request's model. The first is `QueueWaits`, `LoopWaits`
and `LoadWaits`: a waiting request is in the queue once, or with the pending loop,
or with the goroutine of its load. The second is `PointersBegun`: whatever leads
to a runner (the map, a timer, a channel, a local of a loop or a handler) leads to
one whose load has come far enough to have made it; without it a crash of a
process not yet started, or a runner named twice, could not be excluded.
`SameModel` follows a runner from `loaded`, which is keyed by model, to the
request. `CompletedHolds` is there because `refMu` tells who may answer: the
completed loop unlocks only what it has locked. The room for a new process comes
from `SlotReserved` and `NoOrphanProcess`: every running process is in `loaded` or
loading. The proof goes action by action, grouped by the goroutine that takes it;
each action is shown to be one of `Start`, `Stop`, `Grant`, `Share`, `Decline` or a
stutter.

- `IdleRunnersExpire`: `IdleRunnerWillExpire`. A loaded runner with a count of zero
  whose mutex is free, that nobody uses and that is not kept forever has an armed
  timer, a callback, a retry or an expired event on its way. The invariant `IdleInv`
  adds that only a request that was given a runner reports its end
  (`ReportsAfterUse`), and that a runner that was removed is not loaded again
  (`RemovedForGood`). It needs both invariants above: `KeyedByModel` and `SameModel`
  because an end is looked up by model, so that it reaches the runner in question if
  that is loaded; `SlotReserved` and `PointersBegun` because an insertion must not
  replace a runner or bring one back.

For any finite set of pulls, any number of parts, units, retries and faults, from
`PullsAssumption` to `FaultsAssumption` (`None` is not a pull, pulls are finitely
many, the numbers are positive):

- `BlobTypeCorrect` (`TypeOK`) and `SharedDownload` (`BlobInv`), proved together: the
  reference count stays in its range because it counts the pulls that wait
  (`RefsCounted`). From `BlobInv` follow `SingleWriter` (`OneWriter`),
  `SuccessMeansBlob` (`PullOkMeansBlob`) and `ResumedWithoutHoles` (`BlobNotHoled`).

`OneWriter` by itself is not inductive: that a new entry is made only when no
other download writes needs `WriterIsEntry`, and that `Delete` removes the
deleter's own entry needs `RunAfterPrepare`, which keeps the two places that
delete apart. `PullOkMeansBlob` rests on the order in which `run` ends:
`SuccessHasBlob` and `ClosedAtEnd`. `BlobNotHoled` needs an account of every unit
of data: what a part file or a download says has arrived is in the data file
(`FilesTrue`, `DownloadTrue`), and a worker that is over has completed its part
(`WorkerSound`). This is not so once the server has been killed between the removals
of part files: the next run finds a suffix of the parts and truncates the data file to
their length, which cuts off data that they say is there. What keeps that file from
becoming the blob is only that the removal starts at part 0 again, whose file is gone, and
fails; hence the clauses about part 0.

For any names, layers, contents, handlers, crashes and either setting of the
auxiliary directory and of pruning, from `LayersAssumption` to `BoundsAssumption`
of `ModelStore`:

- `StoreTypeCorrect` (`TypeOK`), `StoreInvCorrect` (`StoreInv`), and from it
  `ManifestsNameBlobs` (`StoreSound`) and the action property `ShowAnswersCurrent`
  (`ShownIsCurrent`); `MetadataHasSweeper` (`MetadataSwept`), which is inductive given
  `StoreInv` and holds for every overlap of requests.

`StoreSound` is about requests that come one at a time. Between its steps a handler
relies on what it has found (`HandlerSound`): fetched layers are there, layers to be
removed are in no manifest, the base of a create is still what was read. That no
other handler disturbs it is `OneActive`, that no second file hides the one it wrote
`OneFile`; each holds until the history variable `risk` records otherwise. The one
layer that may be missing is a config in `unwritten`, and it is missing only until
some request writes that blob. `OpenFiles`
says which files a write may assume to exist, `MetadataOfModels` that metadata
belongs to GGUF layers, which a create never removes by itself.

For any finite set of chats, any number of slots, chunks and reloads, from
`ChatsAssumption` to `BoundsAssumption` of `ChatStream`:

- `ChatTypeCorrect` (`TypeOK`), `ChatInvCorrect` (`ChatInv`), and from them
  `SlotsAreCounted` (`SlotsCounted`), `OnlyLeaversStrand` (`StrandedByLeaver`),
  `AnswersInOrder` (`AnswerInOrder`) and `EndsAreTold` (`EndIsTold`).

`ChatInv` says at each position of the producer what the client has been sent
(`AnswerSoFar`), and when the handler may have returned (`HandlerSoFar`): only behind
a channel that is closed, or with a streamed client that has gone. Types and slots
go together, since a semaphore stays in its range because it counts its holders.

For any pulls, models, shard files and crashes, from `ShardsAssumption` to
`BoundsAssumption` of `ShardConductor`:

- `ShardTypeCorrect` (`TypeOK`), `ShardInvCorrect` (`ShardInv`), and from them
  `AlonePullsWhole` (`PulledAlone`), `StageIsRemoved` (`StageRemoved`) and the action
  property `BlobsAreKept` (`BlobKept`).

`ShardInv` follows a pull that nobody overlaps: the shards it has downloaded are its
own although files of the same names were there before (`os.Create` empties them),
then the assembly file, then the blob (`AloneSoFar`). `StageRemoved` speaks of the time
since the last crash or failed removal of the directory, which `stale` records; a
removal that succeeds clears it. `BlobKept` lets the prune at a start take a blob that
no manifest names.

For any set of values of any length and any fillers between the commands, from
`ValuesAssumption` and `FillersAssumption` of `Modelfile` (both are sequences of
runes; a filler is blank but for its comments, and no comment of it lacks its
line end, which would swallow the command behind it):

- `ParserInvariant` (`ParserInv`), and from it `PrintedIsRead` (`RoundTrip`) and
  `ReadInOrder` (`ReadsInOrder`).

`RoundTrip` speaks only of the end of the file and `ReadsInOrder` only of what has
been read when the value survives, so neither is inductive. `ParserInv` says where
each rune of the text lies (`Laid`) and at every position what `ParseFile` has made
of what came before it: in one of the three commands or the fillers, with the word,
the name or the prefix of the value in its buffer (`ReadsFirst` to `HasRead`), and
in a comment exactly if the filler is (`AtFiller`). The argument is in the value.
Within its quotes a newline must not end it, which for triple quotes depends on the
lines before it (`Unbroken`); without them a carriage return must not have ended it,
which is so only while a quote it began with is not closed (`Open`); at its last
rune it must end, and unquoting must give back what was quoted. A value that does
not survive takes one of four ways out, and each must be shown never to lead back to
the right answer: it has been read as something else (`Differs`, which later
commands cannot mend), ParseFile has failed (`Rejects`), its line did not close a
quote it began with, and the text that follows is now part of it (`Overruns`, where
the newline in the buffer tells it from what was printed, whether or not a later
quote ends it), or it holds an unprintable rune (`Loses`): then no more has to be
followed, since no command that is read ever holds one (`Texts`). What `TrimSpace`
leaves (`TrimShape`) rests on sets of indices having a least and a greatest element,
which comes from the well-foundedness of `<` and needs no induction of its own. TLC
checked `ParserInv` on the instance of the `modelfile` run before it was proved; the
run itself checks the two properties.

Proving changed the models in five places. `IdleRunnerWillExpire` was false as
stated before, which took four requests and 39 steps to show: a count that has
wrapped comes back to zero with the next use, which stops the timer. It now excludes
runners in use, which is also what it is about. `ModelStore`'s type invariant did not
hold of three handlers at a time, which no run has. The assumption on the shards of
`ShardConductor` did not say that each model has some. `BlobInv` had to treat part 0
as above. `FillersAssumption` of `Modelfile` said only that fillers are texts, of which
`RoundTrip` does not hold.

Only model-checked: the liveness properties, which need fairness (`sched_live`,
`blob_abandoned`, `stream_live`).

## 6. Not modelled

Most of the tree is not Yollama's own: three quarters of its Go code
are vendored libraries (`go-lang`, `go-yaml`, `cobra`, `pflag`,
`blackfriday`, ...). Of its own code the following is left out for good:

- code that nothing imports: `server/internal/` (a blob cache, relay readers,
  names), `thinking/`, `tools/`, and the methods of the runner other than `Chat`;
- the command line client, terminal editing and progress bars, whose state is a
  terminal and which make one request at a time;
- device probing, the arithmetic of memory sizes, tensor conversion, quantization
  and the decoding of GGUF files: pure computation on bytes and numbers, in which
  nothing interleaves. In `Scheduler` the recovery of memory may end at any
  time, which covers whatever `waitForVRAMRecovery` computes;
- templates, prompts and names: formatting, covered by the repository's tests;
- the registry protocol and authentication: requests that succeed or fail;
- crashes of the machine, which lose what was written and not synced.
