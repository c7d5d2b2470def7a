---------------------------- MODULE BlobDownload ----------------------------
(***************************************************************************)
(* The download of one blob, server/download.go: the pulls that ask for    *)
(* it, the entry they share in blobDownloadManager, the goroutine that     *)
(* runs the download, the errgroup worker of each part, and the files: the *)
(* data file "-partial", one metadata file per part, and the blob itself.  *)
(*                                                                         *)
(* A pull starts at most one download between two crashes, so a download   *)
(* is named by the pull that started it. Parts have equal sizes, and sizes *)
(* are counted in units of data. A crash ends the process and keeps the    *)
(* files; the next start may prune files that are more than an hour old.   *)
(* Of the disk's failures only a full disk is modelled.                    *)
(***************************************************************************)
EXTENDS Naturals, FiniteSets

CONSTANTS
    Pulls,         \* the calls of downloadBlob for the blob's digest
    None,          \* no entry, no download
    NumParts,      \* the number of parts that the blob's length gives
    PartSize,      \* the units of data in a part
    maxRetries,    \* attempts per part, 6 in the code
    Faults,        \* what may go wrong in this instance
    MaxFaults      \* bound: how often

FaultKinds == {"crash", "prune", "net", "stall", "noSpace", "noLength"}

ASSUME PullsAssumption == None \notin Pulls /\ IsFiniteSet(Pulls)
ASSUME PartsAssumption == NumParts \in Nat \ {0} /\ PartSize \in Nat \ {0}
ASSUME RetriesAssumption == maxRetries \in Nat \ {0}
ASSUME FaultsAssumption == Faults \subseteq FaultKinds /\ MaxFaults \in Nat

VARIABLES
    \* the files
    partFile,      \* per part: "absent", "torn" (not decodable) or "json"
    partDone,      \* the Completed that a part's file holds
    fileLen,       \* the length of the data file, in parts
    written,       \* per part: units that are in the data file
    blob,          \* "absent", "whole", "short" or "holed"
    \* blobDownloadManager
    manager,
    \* type blobDownload, per download
    parts,         \* the parts in Parts, by number
    completed,     \* per part: Completed
    done,          \* the channel: "nil", "open" or "closed"
    err,           \* run returned an error
    cancelFunc,    \* "nil", "set" or "called"
    references,
    rPc,           \* where run is
    removed,       \* how many part files run has removed
    \* the workers of a download, per part
    wPc, got, tries,
    \* the pulls
    pc, mine, ctxOpen,
    \* the environment
    faults

files == <<partFile, partDone, fileLen, written, blob>>
objects == <<parts, completed, done, err, cancelFunc, references>>
runVars == <<rPc, removed>>
workerVars == <<wPc, got, tries>>
pullVars == <<pc, mine, ctxOpen>>
vars == <<files, manager, objects, runVars, workerVars, pullVars, faults>>

Downloads == Pulls
PartIds == 0..(NumParts - 1)

\* The pull is over, with the blob, with an error, or because its client left.
Ended == {"ok", "failed", "gone"}

\* The pull that started the download still holds it in its own hands.
Preparing == {"prepare", "head", "newPart", "run"}

\* run has work to do, or has only to tell that it is over.
Running == {"start", "url", "fetch", "remove", "rename", "delete"}

Happens(kind) ==
    /\ kind \in Faults
    /\ faults < MaxFaults
    /\ faults' = faults + 1

\* Something makes one more fault, or the request is cancelled with its client.
Fails(q, kind) == Happens(kind) \/ (~ctxOpen[q] /\ UNCHANGED faults)

-----------------------------------------------------------------------------
(***************************************************************************)
(* The process ends and is started again                                   *)
(***************************************************************************)

Saving == {"saveOver", "saveRetry", "saveStalled", "saveFailed"}

\* Part files that are being written.
InWrite ==
    {p \in PartIds : \E d \in Downloads : wPc[d][p] \in Saving}
    \cup {p \in PartIds : \E q \in Pulls : pc[q] = "newPart" /\ p = Cardinality(parts[q])}

\* The process ends: the memory is lost, and a part file that was being written
\* is torn or not.
ProcessEnds ==
    /\ \E torn \in SUBSET InWrite :
           partFile' = [p \in PartIds |-> IF p \in torn THEN "torn" ELSE partFile[p]]
    /\ manager' = None
    /\ parts' = [d \in Downloads |-> {}]
    /\ completed' = [d \in Downloads |-> [p \in PartIds |-> 0]]
    /\ done' = [d \in Downloads |-> "nil"]
    /\ err' = [d \in Downloads |-> FALSE]
    /\ cancelFunc' = [d \in Downloads |-> "nil"]
    /\ references' = [d \in Downloads |-> 0]
    /\ rPc' = [d \in Downloads |-> "off"]
    /\ removed' = [d \in Downloads |-> 0]
    /\ wPc' = [d \in Downloads |-> [p \in PartIds |-> "off"]]
    /\ got' = [d \in Downloads |-> [p \in PartIds |-> 0]]
    /\ tries' = [d \in Downloads |-> [p \in PartIds |-> 0]]
    /\ pc' = [q \in Pulls |-> IF pc[q] \in Ended THEN pc[q] ELSE "down"]
    /\ mine' = [q \in Pulls |-> None]
    /\ ctxOpen' = [q \in Pulls |-> TRUE]
    /\ UNCHANGED <<partDone, fileLen, written, blob>>

Crash == Happens("crash") /\ ProcessEnds

\* The next start, after which the clients pull again. PruneLayers takes the
\* files of a download for blobs that no manifest names, and removes those that
\* are more than an hour old: any part files, and the data file, which can be
\* older than part files saved after its last write. (ModelStore has the pruning
\* of whole blobs.)
Start ==
    /\ \E q \in Pulls : pc[q] = "down"
    /\ \E old \in SUBSET PartIds, oldData \in BOOLEAN :
        /\ "prune" \notin Faults => old = {} /\ ~oldData
        /\ partFile' = [p \in PartIds |-> IF p \in old THEN "absent" ELSE partFile[p]]
        /\ fileLen' = IF oldData THEN 0 ELSE fileLen
        /\ written' = [p \in PartIds |-> IF oldData THEN 0 ELSE written[p]]
    /\ pc' = [q \in Pulls |-> IF pc[q] = "down" THEN "new" ELSE pc[q]]
    /\ UNCHANGED <<partDone, blob, manager, objects, runVars, workerVars, mine, ctxOpen,
                   faults>>

-----------------------------------------------------------------------------
(***************************************************************************)
(* downloadBlob                                                            *)
(***************************************************************************)

\* os.Stat finds the blob, whatever is in it, or the pull goes on.
Stat(q) ==
    /\ pc[q] = "new"
    /\ pc' = [pc EXCEPT ![q] = IF blob = "absent" THEN "join" ELSE "ok"]
    /\ UNCHANGED <<files, manager, objects, runVars, workerVars, mine, ctxOpen, faults>>

\* Mutant: the entry is looked up and stored in two steps, so both pulls store.
LoadThenStore(q) ==
    /\ pc[q] = "join"
    /\ manager' = q
    /\ mine' = [mine EXCEPT ![q] = q]
    /\ pc' = [pc EXCEPT ![q] = "prepare"]
    /\ UNCHANGED <<files, objects, runVars, workerVars, ctxOpen, faults>>
\* blobDownloadManager.LoadOrStore: the first pull makes the entry and has to
\* prepare it, the others join it in whatever state it is.
LoadOrStore(q) ==
    /\ pc[q] = "join"
    /\ IF manager = None
         THEN /\ manager' = q
              /\ mine' = [mine EXCEPT ![q] = q]
              /\ pc' = [pc EXCEPT ![q] = "prepare"]
         ELSE /\ mine' = [mine EXCEPT ![q] = manager]
              /\ pc' = [pc EXCEPT ![q] = "acquire"]
              /\ UNCHANGED manager
    /\ UNCHANGED <<files, objects, runVars, workerVars, ctxOpen, faults>>

\* Prepare returns an error: the entry is deleted and the pull fails. The
\* done channel stays open.
PrepareFails(q) ==
    /\ manager' = None
    /\ pc' = [pc EXCEPT ![q] = "failed"]

\* Prepare reads the part files that an earlier attempt has left.
Prepare(q) ==
    LET found == {p \in PartIds : partFile[p] # "absent"} IN
    /\ pc[q] = "prepare"
    /\ done' = [done EXCEPT ![q] = "open"]
    /\ IF \E p \in found : partFile[p] = "torn"
         THEN PrepareFails(q) /\ UNCHANGED <<parts, completed>>
         ELSE /\ parts' = [parts EXCEPT ![q] = found]
              /\ completed' = [completed EXCEPT ![q] =
                     [p \in PartIds |-> IF p \in found THEN partDone[p] ELSE 0]]
              /\ pc' = [pc EXCEPT ![q] = IF found = {} THEN "head" ELSE "run"]
              /\ UNCHANGED manager
    /\ UNCHANGED <<files, err, cancelFunc, references, runVars, workerVars,
                   mine, ctxOpen, faults>>

\* The length of the blob is asked for, under the context of the pull. An
\* answer that does not give it counts as length 0, which needs no part.
HeadOk(q) ==
    /\ pc[q] = "head"
    /\ \/ pc' = [pc EXCEPT ![q] = "newPart"] /\ UNCHANGED faults
       \/ pc' = [pc EXCEPT ![q] = "run"] /\ Happens("noLength")
    /\ UNCHANGED <<files, manager, objects, runVars, workerVars, mine, ctxOpen>>

HeadFails(q) ==
    /\ pc[q] = "head"
    /\ Fails(q, "net")
    /\ PrepareFails(q)
    /\ UNCHANGED <<files, objects, runVars, workerVars, mine, ctxOpen>>

\* newPart writes the file of the next part.
NewPart(q) ==
    LET n == Cardinality(parts[q]) IN
    /\ pc[q] = "newPart"
    /\ partFile' = [partFile EXCEPT ![n] = "json"]
    /\ partDone' = [partDone EXCEPT ![n] = 0]
    /\ parts' = [parts EXCEPT ![q] = @ \cup {n}]
    /\ pc' = [pc EXCEPT ![q] = IF n + 1 = NumParts THEN "run" ELSE "newPart"]
    /\ UNCHANGED <<fileLen, written, blob, manager, completed, done, err, cancelFunc,
                   references, runVars, workerVars, mine, ctxOpen, faults>>

NewPartFails(q) ==
    /\ pc[q] = "newPart"
    /\ Happens("noSpace")
    /\ partFile' = [partFile EXCEPT ![Cardinality(parts[q])] = "torn"]
    /\ PrepareFails(q)
    /\ UNCHANGED <<partDone, fileLen, written, blob, objects, runVars, workerVars,
                   mine, ctxOpen>>

\* go download.Run
GoRun(q) ==
    /\ pc[q] = "run"
    /\ rPc' = [rPc EXCEPT ![q] = "start"]
    /\ pc' = [pc EXCEPT ![q] = "acquire"]
    /\ UNCHANGED <<files, manager, objects, removed, workerVars, mine, ctxOpen, faults>>

-----------------------------------------------------------------------------
(***************************************************************************)
(* Wait                                                                    *)
(***************************************************************************)

\* Mutant: a pull waits for the download and does not count.
AcquireNothing(q) ==
    /\ pc[q] = "acquire"
    /\ pc' = [pc EXCEPT ![q] = "wait"]
    /\ UNCHANGED <<files, manager, objects, runVars, workerVars, mine, ctxOpen, faults>>
\* acquire
Acquire(q) ==
    /\ pc[q] = "acquire"
    /\ references' = [references EXCEPT ![mine[q]] = @ + 1]
    /\ pc' = [pc EXCEPT ![q] = "wait"]
    /\ UNCHANGED <<files, manager, parts, completed, done, err, cancelFunc, runVars,
                   workerVars, mine, ctxOpen, faults>>

\* A tick: the progress is sent on the unbuffered channel of the response.
Report(q) ==
    /\ pc[q] = "wait"
    /\ pc' = [pc EXCEPT ![q] = "report"]
    /\ UNCHANGED <<files, manager, objects, runVars, workerVars, mine, ctxOpen, faults>>

\* The response takes it. Once the client has gone it may never do so.
Reported(q) ==
    /\ pc[q] = "report"
    /\ pc' = [pc EXCEPT ![q] = "wait"]
    /\ UNCHANGED <<files, manager, objects, runVars, workerVars, mine, ctxOpen, faults>>

\* Mutant: the last reference to leave does not cancel.
LastOut(d) == FALSE
\* release: references.Add(-1) == 0
LastReference(d) == references[d] = 1

\* Wait returns with the outcome of the download, or because the client has
\* gone; release runs CancelFunc when the count falls to zero.
Release(q, outcome) ==
    LET d == mine[q] IN
    /\ LastReference(d) => cancelFunc[d] # "nil"
    /\ references' = [references EXCEPT ![d] = @ - 1]
    /\ cancelFunc' = [cancelFunc EXCEPT ![d] = IF LastReference(d) THEN "called" ELSE @]
    /\ pc' = [pc EXCEPT ![q] = outcome]
    /\ UNCHANGED <<files, manager, parts, completed, done, err, runVars, workerVars,
                   mine, ctxOpen, faults>>

WaitDone(q) ==
    /\ pc[q] = "wait"
    /\ done[mine[q]] = "closed"
    /\ Release(q, IF err[mine[q]] THEN "failed" ELSE "verify")

WaitGone(q) ==
    /\ pc[q] = "wait"
    /\ ~ctxOpen[q]
    /\ Release(q, "gone")

\* The last to leave calls CancelFunc before run has set it, and the panic of
\* its goroutine ends the process.
ReleasePanics(q) ==
    /\ pc[q] = "wait"
    /\ ~ctxOpen[q]
    /\ LastReference(mine[q]) /\ cancelFunc[mine[q]] = "nil"
    /\ ProcessEnds
    /\ UNCHANGED faults

\* verifyBlob compares the digests of a blob that was downloaded, and lets the
\* pull go on whatever it finds: the error is commented out.
Verify(q) ==
    /\ pc[q] = "verify"
    /\ pc' = [pc EXCEPT ![q] = "ok"]
    /\ UNCHANGED <<files, manager, objects, runVars, workerVars, mine, ctxOpen, faults>>

ClientLeaves(q) ==
    /\ pc[q] \notin Ended \cup {"down"}
    /\ ctxOpen[q]
    /\ ctxOpen' = [ctxOpen EXCEPT ![q] = FALSE]
    /\ UNCHANGED <<files, manager, objects, runVars, workerVars, pc, mine, faults>>

-----------------------------------------------------------------------------
(***************************************************************************)
(* run                                                                     *)
(***************************************************************************)

\* Mutant: the error of run is lost.
RunReturnsNil(d, failed) ==
    /\ err' = [err EXCEPT ![d] = FALSE]
    /\ rPc' = [rPc EXCEPT ![d] = "delete"]
\* run returns: the entry is deleted first, then the waiters are told.
RunReturns(d, failed) ==
    /\ err' = [err EXCEPT ![d] = failed]
    /\ rPc' = [rPc EXCEPT ![d] = "delete"]

\* CancelFunc is set only now; the data file is opened and cut or extended to
\* Total, the sum of the sizes of the parts that are known.
RunStart(d) ==
    LET total == Cardinality(parts[d]) IN
    /\ rPc[d] = "start"
    /\ cancelFunc' = [cancelFunc EXCEPT ![d] = "set"]
    /\ fileLen' = total
    /\ written' = [p \in PartIds |-> IF p < total THEN written[p] ELSE 0]
    /\ rPc' = [rPc EXCEPT ![d] = "url"]
    /\ UNCHANGED <<partFile, partDone, blob, manager, parts, completed, done, err,
                   references, removed, workerVars, pullVars, faults>>


\* The data file cannot be opened.
RunOpenFails(d) ==
    /\ rPc[d] = "start"
    /\ Happens("noSpace")
    /\ cancelFunc' = [cancelFunc EXCEPT ![d] = "set"]
    /\ RunReturns(d, TRUE)
    /\ UNCHANGED <<files, manager, parts, completed, done, references, removed,
                   workerVars, pullVars>>

\* The direct URL is known: a worker starts for every part that is incomplete.
RunFetch(d) ==
    /\ rPc[d] = "url"
    /\ wPc' = [wPc EXCEPT ![d] = [p \in PartIds |->
           IF p \in parts[d] /\ completed[d][p] # PartSize THEN "copy" ELSE "off"]]
    /\ rPc' = [rPc EXCEPT ![d] = "fetch"]
    /\ UNCHANGED <<files, manager, objects, removed, got, tries, pullVars, faults>>

\* The retries for the direct URL end after two minutes or with the context.
RunNoURL(d) ==
    /\ rPc[d] = "url"
    /\ Happens("net") \/ (cancelFunc[d] = "called" /\ UNCHANGED faults)
    /\ RunReturns(d, TRUE)
    /\ UNCHANGED <<files, manager, parts, completed, done, cancelFunc, references,
                   removed, workerVars, pullVars>>

\* Mutant: a worker that is over is enough.
SomeOver(d) == \E p \in PartIds : wPc[d][p] \in {"off", "over", "failed"}
\* g.Wait returns once every worker is over.
AllOver(d) == \A p \in PartIds : wPc[d][p] \in {"off", "over", "failed"}

RunFetched(d) ==
    /\ rPc[d] = "fetch"
    /\ AllOver(d)
    /\ IF \E p \in PartIds : wPc[d][p] = "failed"
         THEN RunReturns(d, TRUE)
         ELSE /\ rPc' = [rPc EXCEPT ![d] = IF parts[d] = {} THEN "rename" ELSE "remove"]
              /\ UNCHANGED err
    /\ UNCHANGED <<files, manager, parts, completed, done, cancelFunc, references,
                   removed, workerVars, pullVars, faults>>

\* os.Remove of the i-th part file; a file that is missing is an error.
RunRemovePart(d) ==
    LET i == removed[d] IN
    /\ rPc[d] = "remove"
    /\ IF partFile[i] = "absent"
         THEN RunReturns(d, TRUE) /\ UNCHANGED <<partFile, removed>>
         ELSE /\ partFile' = [partFile EXCEPT ![i] = "absent"]
              /\ removed' = [removed EXCEPT ![d] = i + 1]
              /\ rPc' = [rPc EXCEPT ![d] =
                     IF i + 1 = Cardinality(parts[d]) THEN "rename" ELSE "remove"]
              /\ UNCHANGED err
    /\ UNCHANGED <<partDone, fileLen, written, blob, manager, parts, completed, done,
                   cancelFunc, references, workerVars, pullVars, faults>>

\* What a file of the data file's length and contents would be as the blob.
Content ==
    IF \E p \in PartIds : p < fileLen /\ written[p] < PartSize THEN "holed"
    ELSE IF fileLen < NumParts THEN "short"
    ELSE "whole"

RunRename(d) ==
    /\ rPc[d] = "rename"
    /\ blob' = Content
    /\ fileLen' = 0
    /\ written' = [p \in PartIds |-> 0]
    /\ RunReturns(d, FALSE)
    /\ UNCHANGED <<partFile, partDone, manager, parts, completed, done, cancelFunc,
                   references, removed, workerVars, pullVars, faults>>

RunRenameFails(d) ==
    /\ rPc[d] = "rename"
    /\ Happens("noSpace")
    /\ RunReturns(d, TRUE)
    /\ UNCHANGED <<files, manager, parts, completed, done, cancelFunc, references,
                   removed, workerVars, pullVars>>

\* Mutant: the waiters are told before the entry is deleted and run has returned.
RunDeleteTells(d) ==
    /\ rPc[d] = "delete"
    /\ manager' = None
    /\ done' = [done EXCEPT ![d] = "closed"]
    /\ rPc' = [rPc EXCEPT ![d] = "close"]
    /\ UNCHANGED <<files, parts, completed, err, cancelFunc, references, removed,
                   workerVars, pullVars, faults>>
\* defer blobDownloadManager.Delete
RunDelete(d) ==
    /\ rPc[d] = "delete"
    /\ manager' = None
    /\ rPc' = [rPc EXCEPT ![d] = "close"]
    /\ UNCHANGED <<files, objects, removed, workerVars, pullVars, faults>>

\* Run: defer close(b.done)
RunClose(d) ==
    /\ rPc[d] = "close"
    /\ done' = [done EXCEPT ![d] = "closed"]
    /\ rPc' = [rPc EXCEPT ![d] = "ended"]
    /\ UNCHANGED <<files, manager, parts, completed, err, cancelFunc, references,
                   removed, workerVars, pullVars, faults>>

-----------------------------------------------------------------------------
(***************************************************************************)
(* The worker of a part, and downloadChunk                                 *)
(***************************************************************************)

\* The context of the errgroup: of the download, or ended by a failed worker.
Cancelled(d) == cancelFunc[d] = "called" \/ \E p \in PartIds : wPc[d][p] = "failed"

larger(a, b) == IF a > b THEN a ELSE b

\* A unit of data goes through the TeeReader to its place in the data file.
Receive(d, p) ==
    LET at == completed[d][p] + got[d][p] IN
    /\ wPc[d][p] = "copy"
    /\ at < PartSize
    /\ got' = [got EXCEPT ![d][p] = @ + 1]
    /\ written' = [written EXCEPT ![p] = larger(@, at + 1)]
    /\ fileLen' = larger(fileLen, p + 1)
    /\ UNCHANGED <<partFile, partDone, blob, manager, objects, runVars, wPc, tries,
                   pullVars, faults>>

\* The transfer ends with all the data, with an unexpected end of the body, by
\* the watcher that saw it stall, or with the context, and in every case its
\* progress is kept. (A cancelled context is seen before a stall of 30 s.)
CopyEnds(d, p) ==
    /\ wPc[d][p] = "copy"
    /\ \/ /\ completed[d][p] + got[d][p] = PartSize
          /\ wPc' = [wPc EXCEPT ![d][p] = "saveOver"]
          /\ UNCHANGED faults
       \/ /\ Happens("net")
          /\ wPc' = [wPc EXCEPT ![d][p] = "saveRetry"]
       \/ /\ "stall" \in Faults /\ ~Cancelled(d)
          /\ wPc' = [wPc EXCEPT ![d][p] = "saveStalled"]
          /\ UNCHANGED faults
       \/ /\ Cancelled(d)
          /\ wPc' = [wPc EXCEPT ![d][p] = "saveFailed"]
          /\ UNCHANGED faults
    /\ UNCHANGED <<files, manager, objects, runVars, got, tries, pullVars>>

\* An attempt is used up; after maxRetries the worker fails.
Retry(d, p) ==
    /\ tries' = [tries EXCEPT ![d][p] = @ + 1]
    /\ wPc' = [wPc EXCEPT ![d][p] = IF tries[d][p] + 1 < maxRetries THEN "copy" ELSE "failed"]

\* Any other error: the progress is rolled back. The worker gives up when the
\* disk is full, or when the context ended before there was a response.
CopyFails(d, p) ==
    /\ wPc[d][p] = "copy"
    /\ got' = [got EXCEPT ![d][p] = 0]
    /\ \/ Happens("net") /\ Retry(d, p)
       \/ /\ Happens("noSpace")
          /\ wPc' = [wPc EXCEPT ![d][p] = "failed"]
          /\ UNCHANGED tries
       \/ /\ Cancelled(d) /\ got[d][p] = 0
          /\ wPc' = [wPc EXCEPT ![d][p] = "failed"]
          /\ UNCHANGED <<tries, faults>>
    /\ UNCHANGED <<files, manager, objects, runVars, pullVars>>

\* The progress is added to the part and its file is written again.
SavePart(d, p) ==
    /\ wPc[d][p] \in Saving
    /\ completed' = [completed EXCEPT ![d][p] = @ + got[d][p]]
    /\ got' = [got EXCEPT ![d][p] = 0]
    /\ partFile' = [partFile EXCEPT ![p] = "json"]
    /\ partDone' = [partDone EXCEPT ![p] = completed[d][p] + got[d][p]]
    /\ \/ /\ wPc[d][p] = "saveOver"
          /\ wPc' = [wPc EXCEPT ![d][p] = "over"]
          /\ UNCHANGED tries
       \/ wPc[d][p] = "saveRetry" /\ Retry(d, p)
       \/ /\ wPc[d][p] = "saveStalled"
          /\ wPc' = [wPc EXCEPT ![d][p] = "copy"]
          /\ UNCHANGED tries
       \/ /\ wPc[d][p] = "saveFailed"
          /\ wPc' = [wPc EXCEPT ![d][p] = "failed"]
          /\ UNCHANGED tries
    /\ UNCHANGED <<fileLen, written, blob, manager, parts, done, err, cancelFunc,
                   references, runVars, pullVars, faults>>

\* The disk is full: the part file is left empty and the worker gives up, but
\* for a stall, which is the first error of the errgroup and is tried again.
SaveFails(d, p) ==
    /\ wPc[d][p] \in Saving
    /\ Happens("noSpace")
    /\ completed' = [completed EXCEPT ![d][p] = @ + got[d][p]]
    /\ got' = [got EXCEPT ![d][p] = 0]
    /\ partFile' = [partFile EXCEPT ![p] = "torn"]
    /\ wPc' = [wPc EXCEPT ![d][p] = IF @ = "saveStalled" THEN "copy" ELSE "failed"]
    /\ UNCHANGED <<partDone, fileLen, written, blob, manager, parts, done, err, cancelFunc,
                   references, runVars, tries, pullVars>>

-----------------------------------------------------------------------------
Init ==
    /\ partFile = [p \in PartIds |-> "absent"]
    /\ partDone = [p \in PartIds |-> 0]
    /\ fileLen = 0
    /\ written = [p \in PartIds |-> 0]
    /\ blob = "absent"
    /\ manager = None
    /\ parts = [d \in Downloads |-> {}]
    /\ completed = [d \in Downloads |-> [p \in PartIds |-> 0]]
    /\ done = [d \in Downloads |-> "nil"]
    /\ err = [d \in Downloads |-> FALSE]
    /\ cancelFunc = [d \in Downloads |-> "nil"]
    /\ references = [d \in Downloads |-> 0]
    /\ rPc = [d \in Downloads |-> "off"]
    /\ removed = [d \in Downloads |-> 0]
    /\ wPc = [d \in Downloads |-> [p \in PartIds |-> "off"]]
    /\ got = [d \in Downloads |-> [p \in PartIds |-> 0]]
    /\ tries = [d \in Downloads |-> [p \in PartIds |-> 0]]
    /\ pc = [q \in Pulls |-> "new"]
    /\ mine = [q \in Pulls |-> None]
    /\ ctxOpen = [q \in Pulls |-> TRUE]
    /\ faults = 0

PullSteps(q) ==
    \/ Stat(q) \/ LoadOrStore(q) \/ Prepare(q) \/ HeadOk(q) \/ HeadFails(q)
    \/ NewPart(q) \/ NewPartFails(q) \/ GoRun(q) \/ Acquire(q)
WaitSteps(q) == WaitDone(q) \/ WaitGone(q) \/ ReleasePanics(q)
RunSteps(d) ==
    \/ RunStart(d) \/ RunOpenFails(d) \/ RunFetch(d) \/ RunNoURL(d) \/ RunFetched(d)
    \/ RunRemovePart(d) \/ RunRename(d) \/ RunRenameFails(d) \/ RunDelete(d) \/ RunClose(d)
WorkerSteps(d, p) ==
    CopyEnds(d, p) \/ CopyFails(d, p) \/ SavePart(d, p) \/ SaveFails(d, p)

Next ==
    \/ \E q \in Pulls :
          \/ PullSteps(q) \/ WaitSteps(q) \/ Report(q) \/ Reported(q) \/ Verify(q)
          \/ ClientLeaves(q) \/ RunSteps(q)
          \/ \E p \in PartIds : Receive(q, p) \/ WorkerSteps(q, p)
    \/ Crash \/ Start

Spec == Init /\ [][Next]_vars

-----------------------------------------------------------------------------
(***************************************************************************)
(* Fairness                                                                *)
(***************************************************************************)

\* Goroutines run on, requests end, and files are written. Wait's select may
\* find a tick first any number of times, but not for ever. No data needs to
\* arrive, and the response of a client that has left takes no messages.
Fairness ==
    \A q \in Pulls :
        /\ WF_vars(PullSteps(q))
        /\ SF_vars(WaitSteps(q))
        /\ WF_vars(ctxOpen[q] /\ (Reported(q) \/ Verify(q)))
        /\ WF_vars(RunSteps(q))
        /\ \A p \in PartIds : WF_vars(WorkerSteps(q, p))

FairSpec == Spec /\ Fairness

-----------------------------------------------------------------------------
(***************************************************************************)
(* Properties                                                              *)
(***************************************************************************)

\* The values that the variables of the download code can have.
TypeOK ==
    /\ partFile \in [PartIds -> {"absent", "torn", "json"}]
    /\ partDone \in [PartIds -> 0..PartSize]
    /\ fileLen \in 0..NumParts
    /\ written \in [PartIds -> 0..PartSize]
    /\ blob \in {"absent", "whole", "short", "holed"}
    /\ manager \in Downloads \cup {None}
    /\ parts \in [Downloads -> SUBSET PartIds]
    /\ completed \in [Downloads -> [PartIds -> 0..PartSize]]
    /\ done \in [Downloads -> {"nil", "open", "closed"}]
    /\ err \in [Downloads -> BOOLEAN]
    /\ cancelFunc \in [Downloads -> {"nil", "set", "called"}]
    /\ references \in [Downloads -> 0..Cardinality(Pulls)]
    /\ rPc \in [Downloads -> Running \cup {"off", "close", "ended"}]
    /\ removed \in [Downloads -> 0..NumParts]
    /\ wPc \in [Downloads -> [PartIds -> Saving \cup {"off", "copy", "over", "failed"}]]
    /\ got \in [Downloads -> [PartIds -> 0..PartSize]]
    /\ tries \in [Downloads -> [PartIds -> 0..maxRetries]]
    /\ pc \in [Pulls -> Preparing \cup Ended \cup {"new", "join", "acquire", "wait", "report", "verify", "down"}]
    /\ mine \in [Pulls -> Downloads \cup {None}]
    /\ ctxOpen \in [Pulls -> BOOLEAN]
    /\ faults \in 0..MaxFaults

\* A download writes the files of the blob from Prepare until run has returned.
Writing(d) == pc[d] \in Preparing \/ rPc[d] \in Running

\* No two downloads of a blob write its part files, its data file and the blob
\* at the same time, however pulls join, fail in Prepare, leave or start anew
\* while an older download ends (LoadOrStore, and both places that Delete).
OneWriter == \A d, e \in Downloads : Writing(d) /\ Writing(e) => d = e

\* A pull that is told that the download succeeded finds a blob, also a pull
\* that joined late and reads err after close(b.done).
PullOkMeansBlob == \A q \in Pulls : pc[q] \in {"verify", "ok"} => blob # "absent"

\* The parts of the inductive invariant behind these properties.
ControlTypes ==
    /\ manager \in Downloads \cup {None}
    /\ done \in [Downloads -> {"nil", "open", "closed"}]
    /\ err \in [Downloads -> BOOLEAN]
    /\ rPc \in [Downloads -> Running \cup {"off", "close", "ended"}]
    /\ pc \in [Pulls -> Preparing \cup Ended \cup {"new", "join", "acquire", "wait", "report", "verify", "down"}]
    /\ mine \in [Pulls -> Downloads \cup {None}]

\* The download that writes is the entry in blobDownloadManager.
WriterIsEntry == \A d \in Downloads : Writing(d) => manager = d

\* run starts after Prepare.
RunAfterPrepare ==
    \A d \in Downloads :
        pc[d] \in Preparing \cup {"new", "join", "down"} => rPc[d] = "off"

\* The done channel is closed when run has returned and the entry is gone.
ClosedAtEnd == \A d \in Downloads : done[d] = "closed" => rPc[d] = "ended"

\* A run that returned without an error has made the blob.
SuccessHasBlob ==
    \A d \in Downloads :
        rPc[d] \in {"delete", "close", "ended"} /\ ~err[d] => blob # "absent"

\* A pull that prepares a download or waits has one to wait for.
WaitsForDownload ==
    \A q \in Pulls :
        pc[q] \in Preparing \cup {"acquire", "wait", "report"} => mine[q] \in Downloads

\* The entry of blobDownloadManager is the only writer, and the order in which
\* run returns, deletes the entry and closes the done channel lets a waiter
\* trust what it reads.
ControlInv ==
    /\ ControlTypes
    /\ WriterIsEntry
    /\ RunAfterPrepare
    /\ ClosedAtEnd
    /\ SuccessHasBlob
    /\ WaitsForDownload
    /\ PullOkMeansBlob

\* A download counts the pulls that are between acquire and release.
Waiters(d) == {q \in Pulls : mine[q] = d /\ pc[q] \in {"wait", "report"}}
RefsCounted == \A d \in Downloads : references[d] = Cardinality(Waiters(d))

\* A worker works while run waits for it, on a part that is known; it is over
\* when the part is complete, and has attempts left while it is not.
WorkerSound(d, p) ==
    /\ rPc[d] \in {"off", "start", "url"} =>
          wPc[d][p] = "off" /\ got[d][p] = 0 /\ tries[d][p] = 0
    /\ completed[d][p] + got[d][p] <= PartSize
    /\ wPc[d][p] \in Saving \cup {"copy"} =>
          rPc[d] = "fetch" /\ p \in parts[d] /\ tries[d][p] < maxRetries
    /\ wPc[d][p] = "saveOver" => completed[d][p] + got[d][p] = PartSize
    /\ wPc[d][p] = "over" => completed[d][p] = PartSize
    /\ rPc[d] = "fetch" /\ p \in parts[d] /\ wPc[d][p] = "off" => completed[d][p] = PartSize

\* The parts are made in order, and their files are removed once.
PartsSound(d) ==
    /\ pc[d] = "head" => parts[d] = {}
    /\ pc[d] = "newPart" => \E n \in PartIds : parts[d] = 0..(n - 1)
    /\ rPc[d] \in {"off", "start", "url", "fetch"} => removed[d] = 0
    /\ rPc[d] = "remove" => removed[d] < Cardinality(parts[d])

\* The part files that are there, and the data file as it is known to be when
\* they are removed and it is renamed.
Present == {p \in PartIds : partFile[p] # "absent"}
DataWhole == \A p \in PartIds : p < fileLen => written[p] = PartSize

\* What a download resumes from is in the data file. This is so only while the
\* file of part 0 is there: a crash in the middle of the removal leaves later
\* part files behind, the next run cuts the data file to the length of those,
\* and what saves the blob is that the removal starts at part 0 again and fails.
FilesTrue ==
    0 \in Present =>
        /\ \E n \in PartIds : Present = 0..n
        /\ \A p \in PartIds : partFile[p] = "json" => partDone[p] <= written[p]

\* What download d takes to be in the files is there.
DownloadTrue(d) ==
    /\ pc[d] \in {"head", "newPart"} =>
          parts[d] = Present /\ \A p \in PartIds : completed[d][p] = 0
    /\ pc[d] = "run" \/ rPc[d] \in {"start", "url", "fetch"} =>
          /\ parts[d] = Present
          /\ 0 \in Present => \A p \in Present : completed[d][p] + got[d][p] <= written[p]
    /\ rPc[d] \in {"url", "fetch"} /\ (Present = {} \/ 0 \in Present) =>
          fileLen = Cardinality(Present)
    /\ rPc[d] = "remove" => \/ DataWhole /\ (removed[d] = 0 \/ 0 \notin Present)
                            \/ removed[d] = 0 /\ 0 \notin Present
    /\ rPc[d] = "rename" => DataWhole /\ 0 \notin Present

ResumeSound ==
    /\ FilesTrue
    /\ \A d \in Downloads : DownloadTrue(d)
    /\ blob # "holed"

\* The invariant from which the properties here follow: who writes, who
\* waits, how far each part is, and, as long as nothing is pruned, that what
\* the part files and the download say of the data file is true.
BlobInv ==
    /\ ControlInv
    /\ RefsCounted
    /\ \A d \in Downloads : PartsSound(d) /\ \A p \in PartIds : WorkerSound(d, p)
    /\ "prune" \notin Faults => ResumeSound

\* As long as nothing is pruned, the data file takes the place of the blob only
\* when each part that it covers is there: resuming after a crash, a stall or an
\* unexpected end never skips data (StartsAt, Completed and the part files).
BlobNotHoled == "prune" \notin Faults => blob # "holed"

\* A download that nobody waits for ends, even when its transfers stall for
\* ever: the last release cancels it, or ends the process with its panic.
AbandonedDownloadStops ==
    \A d \in Downloads :
        (rPc[d] \in Running /\ \A q \in Pulls : mine[q] = d => pc[q] \in Ended)
            ~> rPc[d] \notin Running

=============================================================================
