-------------------------- MODULE BlobDownloadProofs --------------------------
(***************************************************************************)
(* Proofs about BlobDownload, for any number of pulls, parts, retries and  *)
(* faults: the downloads of a blob never write at the same time, a pull    *)
(* that is told of success finds a blob, and a blob has no hole where a    *)
(* download was resumed. All follow from BlobInv, which every step keeps.  *)
(***************************************************************************)
EXTENDS BlobDownload, FiniteSetTheorems, TLAPS

USE DEF Downloads, Preparing, Ended, Running, Writing

\* Nothing is written, waited for or told of before the first pull.
LEMMA ControlInvInit == Init => ControlInv
  BY PullsAssumption DEF Init, ControlInv, ControlTypes, WriterIsEntry, RunAfterPrepare, ClosedAtEnd,
        SuccessHasBlob, WaitsForDownload, PullOkMeansBlob

\* The pulls, downloadBlob and Wait, keep the invariant.
LEMMA PullStepKeepsInv ==
    ASSUME ControlInv, NEW q \in Pulls,
           PullSteps(q) \/ WaitSteps(q) \/ Report(q) \/ Reported(q) \/ Verify(q)
           \/ ClientLeaves(q)
    PROVE  ControlInv'
  <1>1. CASE Stat(q)
    BY <1>1, PullsAssumption DEF Stat,
        ControlInv, ControlTypes, WriterIsEntry, RunAfterPrepare, ClosedAtEnd,
        SuccessHasBlob, WaitsForDownload, PullOkMeansBlob,
        files, objects, runVars, workerVars, pullVars
  <1>2. CASE LoadOrStore(q)
    BY <1>2, PullsAssumption DEF LoadOrStore,
        ControlInv, ControlTypes, WriterIsEntry, RunAfterPrepare, ClosedAtEnd,
        SuccessHasBlob, WaitsForDownload, PullOkMeansBlob,
        files, objects, runVars, workerVars, pullVars
  <1>3. CASE Prepare(q)
    BY <1>3, PullsAssumption DEF Prepare, PrepareFails,
        ControlInv, ControlTypes, WriterIsEntry, RunAfterPrepare, ClosedAtEnd,
        SuccessHasBlob, WaitsForDownload, PullOkMeansBlob,
        files, objects, runVars, workerVars, pullVars
  <1>4. CASE HeadOk(q)
    BY <1>4, PullsAssumption DEF HeadOk,
        ControlInv, ControlTypes, WriterIsEntry, RunAfterPrepare, ClosedAtEnd,
        SuccessHasBlob, WaitsForDownload, PullOkMeansBlob,
        files, objects, runVars, workerVars, pullVars
  <1>5. CASE HeadFails(q)
    BY <1>5, PullsAssumption DEF HeadFails, PrepareFails,
        ControlInv, ControlTypes, WriterIsEntry, RunAfterPrepare, ClosedAtEnd,
        SuccessHasBlob, WaitsForDownload, PullOkMeansBlob,
        files, objects, runVars, workerVars, pullVars
  <1>6. CASE NewPart(q)
    BY <1>6, PullsAssumption DEF NewPart,
        ControlInv, ControlTypes, WriterIsEntry, RunAfterPrepare, ClosedAtEnd,
        SuccessHasBlob, WaitsForDownload, PullOkMeansBlob,
        files, objects, runVars, workerVars, pullVars
  <1>7. CASE NewPartFails(q)
    BY <1>7, PullsAssumption DEF NewPartFails, PrepareFails,
        ControlInv, ControlTypes, WriterIsEntry, RunAfterPrepare, ClosedAtEnd,
        SuccessHasBlob, WaitsForDownload, PullOkMeansBlob,
        files, objects, runVars, workerVars, pullVars
  <1>8. CASE GoRun(q)
    <2>1. ControlTypes'
      BY <1>8 DEF GoRun, files, objects,
          ControlInv, ControlTypes
    <2>2. WriterIsEntry'
      BY <1>8 DEF GoRun, files, objects,
          ControlInv, ControlTypes, WriterIsEntry
    <2>3. RunAfterPrepare'
      BY <1>8 DEF GoRun, files, objects,
          ControlInv, ControlTypes, RunAfterPrepare
    <2>4. ClosedAtEnd'
      BY <1>8 DEF GoRun, files, objects,
          ControlInv, ControlTypes, RunAfterPrepare, ClosedAtEnd
    <2>5. SuccessHasBlob'
      BY <1>8 DEF GoRun, files, objects,
          ControlInv, ControlTypes, SuccessHasBlob
    <2>6. WaitsForDownload' /\ PullOkMeansBlob'
      BY <1>8 DEF GoRun, files, objects,
          ControlInv, ControlTypes, WaitsForDownload, PullOkMeansBlob
    <2>7. QED
      BY <2>1, <2>2, <2>3, <2>4, <2>5, <2>6 DEF ControlInv
  <1>9. CASE Acquire(q)
    BY <1>9, PullsAssumption DEF Acquire,
        ControlInv, ControlTypes, WriterIsEntry, RunAfterPrepare, ClosedAtEnd,
        SuccessHasBlob, WaitsForDownload, PullOkMeansBlob,
        files, objects, runVars, workerVars, pullVars
  <1>10. CASE WaitDone(q)
    BY <1>10, PullsAssumption DEF WaitDone, Release,
        ControlInv, ControlTypes, WriterIsEntry, RunAfterPrepare, ClosedAtEnd,
        SuccessHasBlob, WaitsForDownload, PullOkMeansBlob,
        files, objects, runVars, workerVars, pullVars
  <1>11. CASE WaitGone(q)
    BY <1>11, PullsAssumption DEF WaitGone, Release,
        ControlInv, ControlTypes, WriterIsEntry, RunAfterPrepare, ClosedAtEnd,
        SuccessHasBlob, WaitsForDownload, PullOkMeansBlob,
        files, objects, runVars, workerVars, pullVars
  <1>12. CASE ReleasePanics(q)
    BY <1>12, PullsAssumption DEF ReleasePanics, ProcessEnds,
        ControlInv, ControlTypes, WriterIsEntry, RunAfterPrepare, ClosedAtEnd,
        SuccessHasBlob, WaitsForDownload, PullOkMeansBlob,
        files, objects, runVars, workerVars, pullVars
  <1>13. CASE Report(q)
    BY <1>13, PullsAssumption DEF Report,
        ControlInv, ControlTypes, WriterIsEntry, RunAfterPrepare, ClosedAtEnd,
        SuccessHasBlob, WaitsForDownload, PullOkMeansBlob,
        files, objects, runVars, workerVars, pullVars
  <1>14. CASE Reported(q)
    BY <1>14, PullsAssumption DEF Reported,
        ControlInv, ControlTypes, WriterIsEntry, RunAfterPrepare, ClosedAtEnd,
        SuccessHasBlob, WaitsForDownload, PullOkMeansBlob,
        files, objects, runVars, workerVars, pullVars
  <1>15. CASE Verify(q)
    BY <1>15, PullsAssumption DEF Verify,
        ControlInv, ControlTypes, WriterIsEntry, RunAfterPrepare, ClosedAtEnd,
        SuccessHasBlob, WaitsForDownload, PullOkMeansBlob,
        files, objects, runVars, workerVars, pullVars
  <1>16. CASE ClientLeaves(q)
    BY <1>16, PullsAssumption DEF ClientLeaves,
        ControlInv, ControlTypes, WriterIsEntry, RunAfterPrepare, ClosedAtEnd,
        SuccessHasBlob, WaitsForDownload, PullOkMeansBlob,
        files, objects, runVars, workerVars, pullVars
  <1>17. QED
    BY <1>1, <1>2, <1>3, <1>4, <1>5, <1>6, <1>7, <1>8, <1>9, <1>10, <1>11, <1>12, <1>13, <1>14, <1>15, <1>16
    DEF PullSteps, WaitSteps

\* run, from the goroutine's start to close(b.done), keeps the invariant.
LEMMA RunStepKeepsInv ==
    ASSUME ControlInv, NEW d \in Downloads, RunSteps(d)
    PROVE  ControlInv'
  <1>1. CASE RunStart(d)
    BY <1>1, PullsAssumption DEF RunStart,
        ControlInv, ControlTypes, WriterIsEntry, RunAfterPrepare, ClosedAtEnd,
        SuccessHasBlob, WaitsForDownload, PullOkMeansBlob,
        files, objects, runVars, workerVars, pullVars
  <1>2. CASE RunOpenFails(d)
    BY <1>2, PullsAssumption DEF RunOpenFails, RunReturns,
        ControlInv, ControlTypes, WriterIsEntry, RunAfterPrepare, ClosedAtEnd,
        SuccessHasBlob, WaitsForDownload, PullOkMeansBlob,
        files, objects, runVars, workerVars, pullVars
  <1>3. CASE RunFetch(d)
    BY <1>3, PullsAssumption DEF RunFetch,
        ControlInv, ControlTypes, WriterIsEntry, RunAfterPrepare, ClosedAtEnd,
        SuccessHasBlob, WaitsForDownload, PullOkMeansBlob,
        files, objects, runVars, workerVars, pullVars
  <1>4. CASE RunNoURL(d)
    BY <1>4, PullsAssumption DEF RunNoURL, RunReturns,
        ControlInv, ControlTypes, WriterIsEntry, RunAfterPrepare, ClosedAtEnd,
        SuccessHasBlob, WaitsForDownload, PullOkMeansBlob,
        files, objects, runVars, workerVars, pullVars
  <1>5. CASE RunFetched(d)
    <2>1. ControlTypes'
      BY <1>5 DEF RunFetched, RunReturns, files, pullVars,
          ControlInv, ControlTypes
    <2>2. WriterIsEntry'
      BY <1>5 DEF RunFetched, RunReturns, files, pullVars,
          ControlInv, ControlTypes, WriterIsEntry
    <2>3. RunAfterPrepare'
      BY <1>5 DEF RunFetched, RunReturns, files, pullVars,
          ControlInv, ControlTypes, RunAfterPrepare
    <2>4. ClosedAtEnd'
      BY <1>5 DEF RunFetched, RunReturns, files, pullVars,
          ControlInv, ControlTypes, RunAfterPrepare, ClosedAtEnd
    <2>5. SuccessHasBlob'
      BY <1>5 DEF RunFetched, RunReturns, files, pullVars,
          ControlInv, ControlTypes, SuccessHasBlob
    <2>6. WaitsForDownload' /\ PullOkMeansBlob'
      BY <1>5 DEF RunFetched, RunReturns, files, pullVars,
          ControlInv, ControlTypes, WaitsForDownload, PullOkMeansBlob
    <2>7. QED
      BY <2>1, <2>2, <2>3, <2>4, <2>5, <2>6 DEF ControlInv
  <1>6. CASE RunRemovePart(d)
    <2>1. ControlTypes'
      BY <1>6 DEF RunRemovePart, RunReturns, pullVars,
          ControlInv, ControlTypes
    <2>2. WriterIsEntry'
      BY <1>6 DEF RunRemovePart, RunReturns, pullVars,
          ControlInv, ControlTypes, WriterIsEntry
    <2>3. RunAfterPrepare'
      BY <1>6 DEF RunRemovePart, RunReturns, pullVars,
          ControlInv, ControlTypes, RunAfterPrepare
    <2>4. ClosedAtEnd'
      BY <1>6 DEF RunRemovePart, RunReturns, pullVars,
          ControlInv, ControlTypes, RunAfterPrepare, ClosedAtEnd
    <2>5. SuccessHasBlob'
      BY <1>6 DEF RunRemovePart, RunReturns, pullVars,
          ControlInv, ControlTypes, SuccessHasBlob
    <2>6. WaitsForDownload' /\ PullOkMeansBlob'
      BY <1>6 DEF RunRemovePart, RunReturns, pullVars,
          ControlInv, ControlTypes, WaitsForDownload, PullOkMeansBlob
    <2>7. QED
      BY <2>1, <2>2, <2>3, <2>4, <2>5, <2>6 DEF ControlInv
  <1>7. CASE RunRename(d)
    BY <1>7, PullsAssumption DEF RunRename, RunReturns, Content,
        ControlInv, ControlTypes, WriterIsEntry, RunAfterPrepare, ClosedAtEnd,
        SuccessHasBlob, WaitsForDownload, PullOkMeansBlob,
        files, objects, runVars, workerVars, pullVars
  <1>8. CASE RunRenameFails(d)
    BY <1>8, PullsAssumption DEF RunRenameFails, RunReturns,
        ControlInv, ControlTypes, WriterIsEntry, RunAfterPrepare, ClosedAtEnd,
        SuccessHasBlob, WaitsForDownload, PullOkMeansBlob,
        files, objects, runVars, workerVars, pullVars
  <1>9. CASE RunDelete(d)
    BY <1>9, PullsAssumption DEF RunDelete,
        ControlInv, ControlTypes, WriterIsEntry, RunAfterPrepare, ClosedAtEnd,
        SuccessHasBlob, WaitsForDownload, PullOkMeansBlob,
        files, objects, runVars, workerVars, pullVars
  <1>10. CASE RunClose(d)
    BY <1>10, PullsAssumption DEF RunClose,
        ControlInv, ControlTypes, WriterIsEntry, RunAfterPrepare, ClosedAtEnd,
        SuccessHasBlob, WaitsForDownload, PullOkMeansBlob,
        files, objects, runVars, workerVars, pullVars
  <1>11. QED
    BY <1>1, <1>2, <1>3, <1>4, <1>5, <1>6, <1>7, <1>8, <1>9, <1>10
    DEF RunSteps

\* The workers write data and part files only.
LEMMA WorkerStepKeepsInv ==
    ASSUME ControlInv, NEW d \in Downloads, NEW p \in PartIds,
           Receive(d, p) \/ WorkerSteps(d, p)
    PROVE  ControlInv'
  <1>1. UNCHANGED <<manager, done, err, rPc, pc, mine, blob>>
    BY DEF WorkerSteps, Receive, CopyEnds, CopyFails, SavePart, SaveFails,
        files, objects, runVars, pullVars
  <1>2. QED
    BY <1>1 DEF ControlInv, ControlTypes, WriterIsEntry, RunAfterPrepare, ClosedAtEnd,
        SuccessHasBlob, WaitsForDownload, PullOkMeansBlob

\* After a crash no download is in memory, and the blob is as it was.
LEMMA RestartKeepsInv ==
    ASSUME ControlInv, Crash \/ Start
    PROVE  ControlInv'
  <1>1. CASE Crash
    BY <1>1 DEF Crash, ProcessEnds,
        ControlInv, ControlTypes, WriterIsEntry, RunAfterPrepare, ClosedAtEnd,
        SuccessHasBlob, WaitsForDownload, PullOkMeansBlob
  <1>2. CASE Start
    BY <1>2 DEF Start, objects, runVars,
        ControlInv, ControlTypes, WriterIsEntry, RunAfterPrepare, ClosedAtEnd,
        SuccessHasBlob, WaitsForDownload, PullOkMeansBlob
  <1>3. QED
    BY <1>1, <1>2

\* Every step keeps the invariant.
LEMMA ControlInvNext == ControlInv /\ [Next]_vars => ControlInv'
  <1> SUFFICES ASSUME ControlInv, [Next]_vars PROVE ControlInv'
    OBVIOUS
  <1>1. CASE Crash \/ Start
    BY <1>1, RestartKeepsInv
  <1>2. ASSUME NEW q \in Pulls,
               \/ PullSteps(q) \/ WaitSteps(q) \/ Report(q) \/ Reported(q) \/ Verify(q)
               \/ ClientLeaves(q) \/ RunSteps(q)
               \/ \E p \in PartIds : Receive(q, p) \/ WorkerSteps(q, p)
        PROVE  ControlInv'
    <2>1. CASE PullSteps(q) \/ WaitSteps(q) \/ Report(q) \/ Reported(q)
                \/ Verify(q) \/ ClientLeaves(q)
      BY <2>1, PullStepKeepsInv
    <2>2. CASE RunSteps(q)
      BY <2>2, RunStepKeepsInv
    <2>3. CASE \E p \in PartIds : Receive(q, p) \/ WorkerSteps(q, p)
      BY <2>3, WorkerStepKeepsInv
    <2>4. QED
      BY <1>2, <2>1, <2>2, <2>3
  <1>3. CASE UNCHANGED vars
    BY <1>3 DEF vars, files, objects, runVars, pullVars,
        ControlInv, ControlTypes, WriterIsEntry, RunAfterPrepare, ClosedAtEnd,
        SuccessHasBlob, WaitsForDownload, PullOkMeansBlob
  <1>4. QED
    BY <1>1, <1>2, <1>3 DEF Next

-----------------------------------------------------------------------------
(***************************************************************************)
(* The pulls that wait, and the parts                                      *)
(***************************************************************************)

\* Each download by itself.
Sound(d) == PartsSound(d) /\ \A p \in PartIds : WorkerSound(d, p)

\* The pulls that wait for a download can be counted.
LEMMA WaitersFinite ==
    \A d : /\ IsFiniteSet(Waiters(d)) /\ Cardinality(Waiters(d)) \in Nat
           /\ Cardinality(Waiters(d)) <= Cardinality(Pulls)
           /\ IsFiniteSet(Waiters(d)') /\ Cardinality(Waiters(d)') \in Nat
           /\ Cardinality(Waiters(d)') <= Cardinality(Pulls)
<1> TAKE d
<1>1. Waiters(d) \subseteq Pulls /\ Waiters(d)' \subseteq Pulls
  BY DEF Waiters
<1>2. QED
  BY <1>1, PullsAssumption, FS_Subset, FS_CardinalityType

\* A step that no pull begins or ends to wait with.
LEMMA RefsKept ==
    ASSUME RefsCounted, UNCHANGED references,
           \A q \in Pulls : /\ pc'[q] \in {"wait", "report"} <=> pc[q] \in {"wait", "report"}
                            /\ pc[q] \in {"wait", "report"} => mine'[q] = mine[q]
    PROVE  RefsCounted'
<1>1. \A d : Waiters(d)' = Waiters(d)
  BY DEF Waiters
<1>2. QED
  BY <1>1 DEF RefsCounted

\* acquire counts the pull that joins.
LEMMA AcquireCounted ==
    ASSUME TypeOK, RefsCounted, WaitsForDownload, NEW q \in Pulls, Acquire(q)
    PROVE  RefsCounted' /\ references' \in [Downloads -> 0..Cardinality(Pulls)]
<1>1. PICK d \in Downloads : d = mine[q]
  BY DEF Acquire, WaitsForDownload
<1>2. /\ mine' = mine /\ pc' = [pc EXCEPT ![q] = "wait"] /\ pc[q] = "acquire"
      /\ references' = [references EXCEPT ![d] = references[d] + 1]
  BY <1>1 DEF Acquire
<1>3. Waiters(d)' = Waiters(d) \cup {q} /\ q \notin Waiters(d)
  BY <1>1, <1>2 DEF Waiters, TypeOK
<1>4. Cardinality(Waiters(d)') = Cardinality(Waiters(d)) + 1
  BY <1>3, WaitersFinite, FS_AddElement
<1>5. \A e \in Downloads \ {d} : Waiters(e)' = Waiters(e)
  BY <1>1, <1>2 DEF Waiters, TypeOK
<1>6. references'[d] = references[d] + 1 /\ \A e \in Downloads \ {d} : references'[e] = references[e]
  BY <1>2 DEF TypeOK
<1>7. \A e \in Downloads : references'[e] = Cardinality(Waiters(e)')
  BY <1>4, <1>5, <1>6 DEF RefsCounted
<1>8. \A e \in Downloads : references'[e] \in 0..Cardinality(Pulls)
  BY <1>7, WaitersFinite, PullsAssumption, FS_CardinalityType
<1>9. DOMAIN references' = Downloads /\ references' = [e \in Downloads |-> references'[e]]
  BY <1>2 DEF TypeOK
<1>10. QED
  BY <1>7, <1>8, <1>9 DEF RefsCounted

\* release takes the pull that leaves off the count.
LEMMA ReleaseCounted ==
    ASSUME TypeOK, RefsCounted, WaitsForDownload, NEW q \in Pulls, pc[q] = "wait",
           NEW outcome \in {"failed", "verify", "gone"}, Release(q, outcome)
    PROVE  RefsCounted' /\ references' \in [Downloads -> 0..Cardinality(Pulls)]
<1>1. PICK d \in Downloads : d = mine[q]
  BY DEF WaitsForDownload
<1>2. /\ mine' = mine /\ pc' = [pc EXCEPT ![q] = outcome]
      /\ references' = [references EXCEPT ![d] = references[d] - 1]
  BY <1>1 DEF Release
<1>3. Waiters(d)' = Waiters(d) \ {q} /\ q \in Waiters(d)
  BY <1>1, <1>2 DEF Waiters, TypeOK
<1>4. Cardinality(Waiters(d)') = Cardinality(Waiters(d)) - 1
  BY <1>3, WaitersFinite, FS_RemoveElement
<1>5. \A e \in Downloads \ {d} : Waiters(e)' = Waiters(e)
  BY <1>1, <1>2 DEF Waiters, TypeOK
<1>6. references'[d] = references[d] - 1 /\ \A e \in Downloads \ {d} : references'[e] = references[e]
  BY <1>2 DEF TypeOK
<1>7. \A e \in Downloads : references'[e] = Cardinality(Waiters(e)')
  BY <1>4, <1>5, <1>6 DEF RefsCounted
<1>8. \A e \in Downloads : references'[e] \in 0..Cardinality(Pulls)
  BY <1>7, WaitersFinite, PullsAssumption, FS_CardinalityType
<1>9. DOMAIN references' = Downloads /\ references' = [e \in Downloads |-> references'[e]]
  BY <1>2 DEF TypeOK
<1>10. QED
  BY <1>7, <1>8, <1>9 DEF RefsCounted

\* How many parts there can be.
LEMMA PartsFinite ==
    /\ 0 \in PartIds /\ IsFiniteSet(PartIds) /\ Cardinality(PartIds) = NumParts
    /\ \A S \in SUBSET PartIds : /\ IsFiniteSet(S) /\ Cardinality(S) \in 0..NumParts
                                 /\ (Cardinality(S) = 0 <=> S = {})
    /\ \A n \in PartIds : /\ Cardinality(0..n) = n + 1 /\ Cardinality(0..(n - 1)) = n
                          /\ 0..(n - 1) \cup {n} = 0..n /\ 0..n \subseteq PartIds
<1>1. 0 \in PartIds /\ IsFiniteSet(PartIds) /\ Cardinality(PartIds) = NumParts
  BY PartsAssumption, FS_Interval DEF PartIds
<1>2. ASSUME NEW S \in SUBSET PartIds
      PROVE  /\ IsFiniteSet(S) /\ Cardinality(S) \in 0..NumParts
             /\ (Cardinality(S) = 0 <=> S = {})
  <2>1. IsFiniteSet(S) /\ Cardinality(S) <= NumParts
    BY <1>1, FS_Subset
  <2>2. QED
    BY <2>1, PartsAssumption, FS_CardinalityType, FS_EmptySet
<1>3. ASSUME NEW n \in PartIds
      PROVE  /\ Cardinality(0..n) = n + 1 /\ Cardinality(0..(n - 1)) = n
             /\ 0..(n - 1) \cup {n} = 0..n /\ 0..n \subseteq PartIds
  <2>1. n \in Nat /\ n < NumParts
    BY PartsAssumption DEF PartIds
  <2>2. Cardinality(0..n) = n + 1
    BY <2>1, FS_Interval
  <2>3. Cardinality(0..(n - 1)) = n
    BY <2>1, FS_Interval
  <2>4. 0..(n - 1) \cup {n} = 0..n /\ 0..n \subseteq PartIds
    BY <2>1, PartsAssumption DEF PartIds
  <2>5. QED
    BY <2>2, <2>3, <2>4
<1>4. QED
  BY <1>1, <1>2, <1>3

\* A download that a step does not touch.
LEMMA SoundKept ==
    ASSUME NEW d \in Downloads, Sound(d), parts'[d] = parts[d], completed'[d] = completed[d],
           rPc'[d] = rPc[d], removed'[d] = removed[d],
           wPc'[d] = wPc[d], got'[d] = got[d], tries'[d] = tries[d],
           pc'[d] \in {"head", "newPart"} => pc'[d] = pc[d]
    PROVE  Sound(d)'
BY DEF Sound, PartsSound, WorkerSound

\* A step that touches no file, no part and no worker.
LEMMA ResumeKept ==
    ASSUME ResumeSound, UNCHANGED <<partFile, partDone, fileLen, written, blob, parts, completed,
                                    rPc, removed, got>>,
           \A d \in Downloads : pc'[d] \in {"head", "newPart", "run"} => pc'[d] = pc[d]
    PROVE  ResumeSound'
BY DEF ResumeSound, FilesTrue, DownloadTrue, Present, DataWhole

\* The pulls outside Prepare: stat, join, wait, leave.
LEMMA QuietStep ==
    ASSUME TypeOK, BlobInv, NEW q \in Pulls,
           \/ Stat(q) \/ LoadOrStore(q) \/ HeadFails(q) \/ Acquire(q)
           \/ WaitDone(q) \/ WaitGone(q) \/ Report(q) \/ Reported(q) \/ Verify(q) \/ ClientLeaves(q)
    PROVE  /\ UNCHANGED <<partFile, partDone, fileLen, written, blob, parts, completed, done, err,
                          rPc, removed, wPc, got, tries>>
           /\ \A d \in Downloads : pc'[d] \in {"head", "newPart", "run"} => pc'[d] = pc[d]
<1>1. UNCHANGED <<partFile, partDone, fileLen, written, blob, parts, completed, done, err,
                  rPc, removed, wPc, got, tries>>
  BY DEF Stat, LoadOrStore, HeadFails, Acquire, WaitDone, WaitGone, Release, Report, Reported,
         Verify, ClientLeaves, files, objects, runVars, workerVars
<1>2. \E x \in {"join", "ok", "prepare", "acquire", "failed", "verify", "gone", "wait", "report", pc[q]} :
         pc' = [pc EXCEPT ![q] = x]
  <2>1. pc = [pc EXCEPT ![q] = pc[q]]
    BY DEF TypeOK
  <2>2. QED
    BY <2>1 DEF Stat, LoadOrStore, HeadFails, PrepareFails, Acquire, WaitDone, WaitGone, Release,
         Report, Reported, Verify, ClientLeaves
<1>3. QED
  BY <1>1, <1>2 DEF TypeOK

\* Steps of a pull that leave the files and run alone keep the types and the
\* count of references.
LEMMA QuietTypes ==
    ASSUME TypeOK, BlobInv, NEW q \in Pulls,
           \/ Stat(q) \/ LoadOrStore(q) \/ HeadFails(q) \/ Acquire(q)
           \/ WaitDone(q) \/ WaitGone(q) \/ Report(q) \/ Reported(q) \/ Verify(q) \/ ClientLeaves(q)
    PROVE  TypeOK' /\ RefsCounted'
<1>0. RefsCounted /\ WaitsForDownload
  BY DEF BlobInv, ControlInv
<1>t. ControlTypes'
  BY PullStepKeepsInv DEF BlobInv, ControlInv, PullSteps, WaitSteps
<1>1. CASE Stat(q) \/ Report(q) \/ Reported(q) \/ Verify(q)
  <2>1. UNCHANGED <<cancelFunc, references, mine, ctxOpen, faults>>
    BY <1>1 DEF Stat, Report, Reported, Verify, objects
  <2>3. \A u \in Pulls : pc'[u] \in {"wait", "report"} <=> pc[u] \in {"wait", "report"}
    BY <1>1 DEF Stat, Report, Reported, Verify, TypeOK
  <2>4. RefsCounted'
    BY <1>0, <2>1, <2>3, RefsKept
  <2>5. QED
    BY <2>1, <2>4, QuietStep, <1>1, <1>t DEF TypeOK, ControlTypes
<1>2. CASE LoadOrStore(q)
  <2>1. UNCHANGED <<cancelFunc, references, ctxOpen, faults>>
    BY <1>2 DEF LoadOrStore, objects
  <2>3. \A u \in Pulls : /\ pc'[u] \in {"wait", "report"} <=> pc[u] \in {"wait", "report"}
                         /\ pc[u] \in {"wait", "report"} => mine'[u] = mine[u]
    BY <1>2 DEF LoadOrStore, TypeOK
  <2>4. RefsCounted'
    BY <1>0, <2>1, <2>3, RefsKept
  <2>5. QED
    BY <2>1, <2>4, QuietStep, <1>2, <1>t DEF TypeOK, ControlTypes
<1>3. CASE HeadFails(q)
  <2>1. UNCHANGED <<cancelFunc, references, mine, ctxOpen>> /\ manager' = None
    BY <1>3 DEF HeadFails, PrepareFails, objects
  <2>3. faults' \in 0..MaxFaults
    BY <1>3, FaultsAssumption DEF HeadFails, Fails, Happens, TypeOK
  <2>4. \A u \in Pulls : pc'[u] \in {"wait", "report"} <=> pc[u] \in {"wait", "report"}
    BY <1>3 DEF HeadFails, PrepareFails, TypeOK
  <2>5. RefsCounted'
    BY <1>0, <2>1, <2>4, RefsKept
  <2>6. QED
    BY <2>1, <2>3, <2>5, QuietStep, <1>3, <1>t DEF TypeOK, ControlTypes
<1>4. CASE Acquire(q)
  <2>1. UNCHANGED <<cancelFunc, mine, ctxOpen, faults>>
    BY <1>4 DEF Acquire
  <2>3. QED
    BY <1>0, <1>4, <1>t, <2>1, QuietStep, AcquireCounted DEF TypeOK, ControlTypes
<1>5. CASE WaitDone(q) \/ WaitGone(q)
  <2>1. PICK outcome \in {"failed", "verify", "gone"} : pc[q] = "wait" /\ Release(q, outcome)
    BY <1>5 DEF WaitDone, WaitGone
  <2>2. UNCHANGED <<manager, mine, ctxOpen, faults>>
    BY <2>1 DEF Release
  <2>3. cancelFunc' \in [Downloads -> {"nil", "set", "called"}]
    BY <2>1 DEF Release, TypeOK
  <2>5. RefsCounted' /\ references' \in [Downloads -> 0..Cardinality(Pulls)]
    BY <1>0, <2>1, ReleaseCounted
  <2>6. QED
    BY <1>5, <1>t, <2>2, <2>3, <2>5, QuietStep DEF TypeOK, ControlTypes
<1>6. CASE ClientLeaves(q)
  <2>1. UNCHANGED <<cancelFunc, references, mine, pc, faults>>
    BY <1>6 DEF ClientLeaves, objects
  <2>2. ctxOpen' \in [Pulls -> BOOLEAN]
    BY <1>6 DEF ClientLeaves, TypeOK
  <2>3. RefsCounted'
    BY <1>0, <2>1, RefsKept
  <2>4. QED
    BY <1>6, <1>t, <2>1, <2>2, <2>3, QuietStep DEF TypeOK, ControlTypes
<1>7. QED
  BY <1>1, <1>2, <1>3, <1>4, <1>5, <1>6

\* They keep the invariant.
LEMMA QuietKept ==
    ASSUME TypeOK, BlobInv, NEW q \in Pulls,
           \/ Stat(q) \/ LoadOrStore(q) \/ HeadFails(q) \/ Acquire(q)
           \/ WaitDone(q) \/ WaitGone(q) \/ Report(q) \/ Reported(q) \/ Verify(q) \/ ClientLeaves(q)
    PROVE  TypeOK' /\ BlobInv'
<1>1. ControlInv'
  BY PullStepKeepsInv DEF BlobInv, PullSteps, WaitSteps
<1>2. \A d \in Downloads : Sound(d)
  BY DEF BlobInv, Sound
<1>3. \A d \in Downloads : Sound(d)'
  BY <1>2, QuietStep, SoundKept
<1>4. "prune" \notin Faults => ResumeSound'
  BY QuietStep, ResumeKept DEF BlobInv
<1>5. QED
  BY <1>1, <1>3, <1>4, QuietTypes DEF BlobInv, Sound

\* Only one download writes, so that a step of it has to be looked at for
\* that download and for the files.
LEMMA ResumeOne ==
    ASSUME ControlInv, NEW d \in Downloads, Writing(d),
           \A e \in Downloads \ {d} : pc'[e] = pc[e] /\ rPc'[e] = rPc[e],
           FilesTrue', DownloadTrue(d)', blob' # "holed"
    PROVE  ResumeSound'
<1>1. \A e \in Downloads \ {d} : ~Writing(e)
  BY DEF ControlInv, WriterIsEntry
<1>2. \A e \in Downloads \ {d} : DownloadTrue(e)'
  BY <1>1 DEF DownloadTrue
<1>3. QED
  BY <1>2 DEF ResumeSound

\* The downloads other than d keep their parts, their run and their workers.
OnlyDownload(d) ==
    \A e \in Downloads \ {d} :
        /\ parts'[e] = parts[e] /\ completed'[e] = completed[e]
        /\ rPc'[e] = rPc[e] /\ removed'[e] = removed[e]
        /\ wPc'[e] = wPc[e] /\ got'[e] = got[e] /\ tries'[e] = tries[e]
        /\ pc'[e] = pc[e]

\* A step of the download that writes has to show what concerns itself only.
LEMMA StepOfOne ==
    ASSUME BlobInv, ControlInv', RefsCounted', NEW d \in Downloads, Writing(d), OnlyDownload(d),
           Sound(d)',
           "prune" \notin Faults /\ ResumeSound => FilesTrue' /\ DownloadTrue(d)' /\ blob' # "holed"
    PROVE  BlobInv'
<1>1. \A e \in Downloads \ {d} : Sound(e)'
  BY SoundKept DEF BlobInv, Sound, OnlyDownload
<1>2. "prune" \notin Faults => ResumeSound'
  BY ResumeOne DEF BlobInv, OnlyDownload
<1>3. QED
  BY <1>1, <1>2 DEF BlobInv, Sound

-----------------------------------------------------------------------------
(***************************************************************************)
(* Prepare                                                                 *)
(***************************************************************************)

\* Prepare takes over the part files it finds.
LEMMA PrepareKept ==
    ASSUME TypeOK, BlobInv, NEW q \in Pulls, Prepare(q)
    PROVE  TypeOK' /\ BlobInv'
<1>0. /\ ControlInv' /\ ControlTypes' /\ ControlInv /\ RefsCounted /\ Sound(q)
      /\ \A d \in Downloads : Sound(d)
  BY PullStepKeepsInv DEF BlobInv, ControlInv, PullSteps, Sound
<1>1. /\ pc[q] = "prepare" /\ rPc[q] = "off" /\ Writing(q)
      /\ UNCHANGED <<partFile, partDone, fileLen, written, blob, cancelFunc, references, rPc, removed,
                     wPc, got, tries, mine, ctxOpen, faults>>
  BY <1>0 DEF Prepare, ControlInv, RunAfterPrepare, files, runVars, workerVars
<1>2. /\ \A u \in Pulls \ {q} : pc'[u] = pc[u]
      /\ pc'[q] \in {"failed", "head", "run"}
  BY DEF Prepare, PrepareFails, TypeOK
<1>3. RefsCounted'
  BY <1>0, <1>1, <1>2, RefsKept
<1>4. CASE \E p \in Present : partFile[p] = "torn"
  <2>1. UNCHANGED <<parts, completed>> /\ pc'[q] = "failed"
    BY <1>4 DEF Prepare, PrepareFails, Present, TypeOK
  <2>2. TypeOK'
    BY <1>0, <1>1, <2>1 DEF TypeOK, ControlTypes
  <2>3. \A d \in Downloads : Sound(d)'
    BY <1>0, <1>1, <1>2, <2>1, SoundKept
  <2>4. "prune" \notin Faults => ResumeSound'
    BY <1>1, <1>2, <2>1, ResumeKept DEF BlobInv
  <2>5. QED
    BY <1>0, <1>3, <2>2, <2>3, <2>4 DEF BlobInv, Sound
<1>5. CASE ~\E p \in Present : partFile[p] = "torn"
  <2>1. /\ parts' = [parts EXCEPT ![q] = Present]
        /\ completed' = [completed EXCEPT ![q] =
               [p \in PartIds |-> IF p \in Present THEN partDone[p] ELSE 0]]
        /\ pc'[q] = IF Present = {} THEN "head" ELSE "run"
    BY <1>5 DEF Prepare, Present, TypeOK
  <2>2. /\ parts'[q] = Present
        /\ \A p \in PartIds : completed'[q][p] = IF p \in Present THEN partDone[p] ELSE 0
        /\ \A e \in Downloads \ {q} : parts'[e] = parts[e] /\ completed'[e] = completed[e]
    BY <2>1 DEF TypeOK
  <2>3. parts' \in [Downloads -> SUBSET PartIds]
    BY <2>1 DEF TypeOK, Present
  <2>4. completed' \in [Downloads -> [PartIds -> 0..PartSize]]
    <3>1. [p \in PartIds |-> IF p \in Present THEN partDone[p] ELSE 0] \in [PartIds -> 0..PartSize]
      BY PartsAssumption DEF TypeOK
    <3>2. QED
      BY <2>1, <3>1 DEF TypeOK
  <2>5. TypeOK'
    BY <1>0, <1>1, <2>3, <2>4 DEF TypeOK, ControlTypes
  <2>6. OnlyDownload(q)
    BY <1>1, <1>2, <2>2 DEF OnlyDownload
  <2>7. Sound(q)'
    <3>1. \A p \in PartIds : /\ wPc[q][p] = "off" /\ got[q][p] = 0 /\ tries[q][p] = 0
                             /\ completed'[q][p] \in 0..PartSize
      BY <1>0, <1>1, <2>4 DEF Sound, WorkerSound
    <3>2. \A p \in PartIds : WorkerSound(q, p)'
      BY <1>1, <3>1, PartsAssumption DEF WorkerSound, Saving
    <3>3. PartsSound(q)'
      BY <1>0, <1>1, <2>1, <2>2 DEF PartsSound, Sound
    <3>4. QED
      BY <3>2, <3>3 DEF Sound
  <2>8. ASSUME ResumeSound PROVE FilesTrue' /\ DownloadTrue(q)' /\ blob' # "holed"
    <3>1. FilesTrue' /\ blob' # "holed" /\ Present' = Present
      BY <1>1, <2>8 DEF ResumeSound, FilesTrue, Present
    <3>2. \A p \in Present : p \in PartIds /\ partFile[p] = "json"
      BY <1>5 DEF Present, TypeOK
    <3>3. 0 \in Present => \A p \in Present : completed'[q][p] + got'[q][p] <= written'[p]
      <4>1. \A p \in Present : got'[q][p] = 0 /\ partDone[p] \in Nat
        BY <1>0, <1>1, <3>2 DEF Sound, WorkerSound, TypeOK
      <4>2. 0 \in Present => \A p \in Present : partDone[p] <= written[p]
        BY <2>8, <3>2 DEF ResumeSound, FilesTrue
      <4>3. QED
        BY <1>1, <2>2, <3>2, <4>1, <4>2
    <3>4. DownloadTrue(q)'
      BY <1>1, <2>1, <2>2, <3>1, <3>3 DEF DownloadTrue
    <3>5. QED
      BY <3>1, <3>4
  <2>9. QED
    BY <1>0, <1>1, <1>3, <2>5, <2>6, <2>7, <2>8, StepOfOne
<1>6. QED
  BY <1>4, <1>5

\* A HEAD request gives the length.
LEMMA HeadOkKept ==
    ASSUME TypeOK, BlobInv, NEW q \in Pulls, HeadOk(q)
    PROVE  TypeOK' /\ BlobInv'
<1>0. /\ ControlInv' /\ ControlTypes' /\ ControlInv /\ RefsCounted /\ Sound(q)
  BY PullStepKeepsInv DEF BlobInv, ControlInv, PullSteps, Sound
<1>1. /\ pc[q] = "head" /\ rPc[q] = "off" /\ Writing(q) /\ parts[q] = {}
      /\ UNCHANGED <<partFile, partDone, fileLen, written, blob, parts, completed, cancelFunc, references,
                     rPc, removed, wPc, got, tries, mine, ctxOpen>>
  BY <1>0 DEF HeadOk, ControlInv, RunAfterPrepare, Sound, PartsSound, files, objects, runVars, workerVars
<1>2. /\ \A u \in Pulls \ {q} : pc'[u] = pc[u]
      /\ pc'[q] \in {"newPart", "run"}
  BY DEF HeadOk, TypeOK
<1>3. RefsCounted'
  BY <1>0, <1>1, <1>2, RefsKept
<1>4. faults' \in 0..MaxFaults
  BY FaultsAssumption DEF HeadOk, Happens, TypeOK
<1>5. TypeOK'
  BY <1>0, <1>1, <1>4 DEF TypeOK, ControlTypes
<1>6. OnlyDownload(q)
  BY <1>1, <1>2 DEF OnlyDownload
<1>7. Sound(q)'
  <2>1. 0 \in PartIds /\ {} = 0..(0 - 1)
    BY PartsFinite
  <2>2. PartsSound(q)'
    BY <1>0, <1>1, <1>2, <2>1 DEF Sound, PartsSound
  <2>3. QED
    BY <1>0, <1>1, <2>2 DEF Sound, WorkerSound
<1>8. ASSUME ResumeSound PROVE FilesTrue' /\ DownloadTrue(q)' /\ blob' # "holed"
  <2>1. FilesTrue' /\ blob' # "holed" /\ Present' = Present
    BY <1>1, <1>8 DEF ResumeSound, FilesTrue, Present
  <2>2. Present = {} /\ \A p \in PartIds : completed[q][p] = 0
    BY <1>1, <1>8 DEF ResumeSound, DownloadTrue
  <2>3. DownloadTrue(q)'
    BY <1>1, <1>2, <2>1, <2>2 DEF DownloadTrue
  <2>4. QED
    BY <2>1, <2>3
<1>9. QED
  BY <1>0, <1>1, <1>3, <1>5, <1>6, <1>7, <1>8, StepOfOne

\* newPart makes part n when parts 0 to n-1 are there.
LEMMA NewPartIs ==
    ASSUME TypeOK, BlobInv, NEW q \in Pulls, pc[q] = "newPart"
    PROVE  \E n \in PartIds :
              /\ n = Cardinality(parts[q]) /\ parts[q] = 0..(n - 1)
              /\ ResumeSound => Present = 0..(n - 1) /\ \A p \in PartIds : completed[q][p] = 0
<1>1. PICK n \in PartIds : parts[q] = 0..(n - 1)
  BY DEF BlobInv, PartsSound
<1>2. Cardinality(parts[q]) = n
  BY <1>1, PartsFinite
<1>3. ResumeSound => parts[q] = Present /\ \A p \in PartIds : completed[q][p] = 0
  BY DEF ResumeSound, DownloadTrue
<1>4. QED
  BY <1>1, <1>2, <1>3

\* newPart writes an empty part file.
LEMMA NewPartKept ==
    ASSUME TypeOK, BlobInv, NEW q \in Pulls, NewPart(q)
    PROVE  TypeOK' /\ BlobInv'
<1>0. /\ ControlInv' /\ ControlTypes' /\ ControlInv /\ RefsCounted /\ Sound(q)
  BY PullStepKeepsInv DEF BlobInv, ControlInv, PullSteps, Sound
<1>1. /\ pc[q] = "newPart" /\ rPc[q] = "off" /\ Writing(q)
      /\ UNCHANGED <<fileLen, written, blob, completed, cancelFunc, references,
                     rPc, removed, wPc, got, tries, mine, ctxOpen, faults>>
  BY <1>0 DEF NewPart, ControlInv, RunAfterPrepare, runVars, workerVars
<1>2. PICK n \in PartIds :
         /\ n = Cardinality(parts[q]) /\ parts[q] = 0..(n - 1)
         /\ ResumeSound => Present = 0..(n - 1) /\ \A p \in PartIds : completed[q][p] = 0
  BY <1>1, NewPartIs
<1>3. /\ partFile' = [partFile EXCEPT ![n] = "json"] /\ partDone' = [partDone EXCEPT ![n] = 0]
      /\ parts' = [parts EXCEPT ![q] = parts[q] \cup {n}]
      /\ pc' = [pc EXCEPT ![q] = IF n + 1 = NumParts THEN "run" ELSE "newPart"]
  BY <1>2 DEF NewPart
<1>4. /\ \A u \in Pulls \ {q} : pc'[u] = pc[u] /\ parts'[u] = parts[u]
      /\ pc'[q] = IF n + 1 = NumParts THEN "run" ELSE "newPart"
      /\ parts'[q] = 0..n
  BY <1>2, <1>3, PartsFinite DEF TypeOK
<1>5. RefsCounted'
  BY <1>0, <1>1, <1>4, RefsKept
<1>6. TypeOK'
  <2>1. /\ partFile' \in [PartIds -> {"absent", "torn", "json"}]
        /\ partDone' \in [PartIds -> 0..PartSize] /\ parts' \in [Downloads -> SUBSET PartIds]
    BY <1>3, PartsAssumption DEF TypeOK
  <2>2. QED
    BY <1>0, <1>1, <2>1 DEF TypeOK, ControlTypes
<1>7. OnlyDownload(q)
  BY <1>1, <1>4 DEF OnlyDownload
<1>8. Sound(q)'
  <2>1. pc'[q] = "newPart" => n + 1 \in PartIds /\ n = (n + 1) - 1
    BY <1>4, PartsAssumption DEF PartIds
  <2>2. PartsSound(q)'
    BY <1>0, <1>1, <1>4, <2>1 DEF Sound, PartsSound
  <2>3. \A p \in PartIds : WorkerSound(q, p)'
    BY <1>0, <1>1 DEF Sound, WorkerSound, Saving
  <2>4. QED
    BY <2>2, <2>3 DEF Sound
<1>9. ASSUME ResumeSound PROVE FilesTrue' /\ DownloadTrue(q)' /\ blob' # "holed"
  <2>1. Present = 0..(n - 1) /\ \A p \in PartIds : completed[q][p] = 0
    BY <1>2, <1>9
  <2>2. Present' = 0..n
    <3>1. Present' = Present \cup {n}
      BY <1>3 DEF Present, TypeOK
    <3>2. QED
      BY <2>1, <3>1, PartsFinite
  <2>3. FilesTrue'
    <3>1. ASSUME NEW p \in PartIds, partFile'[p] = "json" PROVE partDone'[p] <= written'[p]
      <4>1. CASE p = n
        BY <1>1, <1>3, <4>1 DEF TypeOK
      <4>2. CASE p # n
        <5>1. partFile[p] = "json" /\ partDone'[p] = partDone[p]
          BY <1>3, <3>1, <4>2 DEF TypeOK
        <5>2. 0 \in Present
          <6>1. p \in Present /\ p \in Nat /\ n \in Nat
            BY <5>1, PartsAssumption DEF Present, PartIds
          <6>2. QED
            BY <2>1, <6>1
        <5>3. QED
          BY <1>1, <1>9, <5>1, <5>2 DEF ResumeSound, FilesTrue
      <4>3. QED
        BY <4>1, <4>2
    <3>2. QED
      BY <2>2, <3>1 DEF FilesTrue
  <2>4. \A p \in PartIds : completed'[q][p] + got'[q][p] <= written'[p]
    <3>1. \A p \in PartIds : got[q][p] = 0 /\ written[p] \in Nat
      BY <1>0, <1>1 DEF Sound, WorkerSound, TypeOK
    <3>2. QED
      BY <1>1, <2>1, <3>1
  <2>5. DownloadTrue(q)'
    <3>1. parts'[q] = Present' /\ \A p \in PartIds : completed'[q][p] = 0
      BY <1>1, <1>4, <2>1, <2>2
    <3>2. \A p \in Present' : p \in PartIds
      BY DEF Present, PartIds
    <3>3. QED
      BY <1>1, <2>4, <3>1, <3>2 DEF DownloadTrue
  <2>6. QED
    BY <1>1, <1>9, <2>3, <2>5 DEF ResumeSound
<1>10. QED
  BY <1>0, <1>1, <1>5, <1>6, <1>7, <1>8, <1>9, StepOfOne

\* A part file cannot be written.
LEMMA NewPartFailsKept ==
    ASSUME TypeOK, BlobInv, NEW q \in Pulls, NewPartFails(q)
    PROVE  TypeOK' /\ BlobInv'
<1>0. /\ ControlInv' /\ ControlTypes' /\ ControlInv /\ RefsCounted /\ Sound(q)
  BY PullStepKeepsInv DEF BlobInv, ControlInv, PullSteps, Sound
<1>1. /\ pc[q] = "newPart" /\ rPc[q] = "off" /\ Writing(q)
      /\ UNCHANGED <<partDone, fileLen, written, blob, parts, completed, cancelFunc, references,
                     rPc, removed, wPc, got, tries, mine, ctxOpen>>
  BY <1>0 DEF NewPartFails, ControlInv, RunAfterPrepare, objects, runVars, workerVars
<1>2. PICK n \in PartIds :
         /\ n = Cardinality(parts[q]) /\ parts[q] = 0..(n - 1)
         /\ ResumeSound => Present = 0..(n - 1) /\ \A p \in PartIds : completed[q][p] = 0
  BY <1>1, NewPartIs
<1>3. partFile' = [partFile EXCEPT ![n] = "torn"]
  BY <1>2 DEF NewPartFails
<1>4. (\A u \in Pulls \ {q} : pc'[u] = pc[u]) /\ pc'[q] = "failed"
  BY DEF NewPartFails, PrepareFails, TypeOK
<1>5. RefsCounted'
  BY <1>0, <1>1, <1>4, RefsKept
<1>6. TypeOK'
  <2>1. partFile' \in [PartIds -> {"absent", "torn", "json"}]
    BY <1>3 DEF TypeOK
  <2>2. faults' \in 0..MaxFaults
    BY FaultsAssumption DEF NewPartFails, Happens, TypeOK
  <2>3. QED
    BY <1>0, <1>1, <2>1, <2>2 DEF TypeOK, ControlTypes
<1>7. OnlyDownload(q)
  BY <1>1, <1>4 DEF OnlyDownload
<1>8. Sound(q)'
  BY <1>0, <1>1, <1>4, SoundKept
<1>9. ASSUME ResumeSound PROVE FilesTrue' /\ DownloadTrue(q)' /\ blob' # "holed"
  <2>1. Present = 0..(n - 1)
    BY <1>2, <1>9
  <2>2. Present' = 0..n
    <3>1. Present' = Present \cup {n}
      BY <1>3 DEF Present, TypeOK
    <3>2. QED
      BY <2>1, <3>1, PartsFinite
  <2>3. FilesTrue'
    <3>1. ASSUME NEW p \in PartIds, partFile'[p] = "json" PROVE partDone'[p] <= written'[p]
      <4>1. p # n /\ partFile[p] = "json"
        BY <1>3, <3>1 DEF TypeOK
      <4>2. 0 \in Present
        <5>1. p \in Present /\ p \in Nat /\ n \in Nat
          BY <4>1, PartsAssumption DEF Present, PartIds
        <5>2. QED
          BY <2>1, <5>1
      <4>3. QED
        BY <1>1, <1>9, <4>1, <4>2 DEF ResumeSound, FilesTrue
    <3>2. QED
      BY <2>2, <3>1 DEF FilesTrue
  <2>4. DownloadTrue(q)'
    BY <1>1, <1>4 DEF DownloadTrue
  <2>5. QED
    BY <1>1, <1>9, <2>3, <2>4 DEF ResumeSound
<1>10. QED
  BY <1>0, <1>1, <1>5, <1>6, <1>7, <1>8, <1>9, StepOfOne

\* The pull that made the download starts run.
LEMMA GoRunKept ==
    ASSUME TypeOK, BlobInv, NEW q \in Pulls, GoRun(q)
    PROVE  TypeOK' /\ BlobInv'
<1>0. /\ ControlInv' /\ ControlTypes' /\ ControlInv /\ RefsCounted /\ Sound(q)
  BY PullStepKeepsInv DEF BlobInv, ControlInv, PullSteps, Sound
<1>1. /\ pc[q] = "run" /\ rPc[q] = "off" /\ Writing(q)
      /\ UNCHANGED <<partFile, partDone, fileLen, written, blob, parts, completed, cancelFunc, references,
                     removed, wPc, got, tries, mine, ctxOpen, faults>>
  BY <1>0 DEF GoRun, ControlInv, RunAfterPrepare, files, objects, workerVars
<1>2. /\ \A u \in Pulls \ {q} : pc'[u] = pc[u] /\ rPc'[u] = rPc[u]
      /\ pc'[q] = "acquire" /\ rPc'[q] = "start"
  BY DEF GoRun, TypeOK
<1>3. RefsCounted'
  BY <1>0, <1>1, <1>2, RefsKept
<1>4. TypeOK'
  BY <1>0, <1>1 DEF TypeOK, ControlTypes
<1>5. OnlyDownload(q)
  BY <1>1, <1>2 DEF OnlyDownload
<1>6. Sound(q)'
  BY <1>0, <1>1, <1>2 DEF Sound, PartsSound, WorkerSound, Saving
<1>7. ASSUME ResumeSound PROVE FilesTrue' /\ DownloadTrue(q)' /\ blob' # "holed"
  <2>1. FilesTrue' /\ blob' # "holed" /\ Present' = Present
    BY <1>1, <1>7 DEF ResumeSound, FilesTrue, Present
  <2>2. parts[q] = Present /\ (0 \in Present => \A p \in Present : completed[q][p] + got[q][p] <= written[p])
    BY <1>1, <1>7 DEF ResumeSound, DownloadTrue
  <2>3. DownloadTrue(q)'
    BY <1>1, <1>2, <2>1, <2>2 DEF DownloadTrue
  <2>4. QED
    BY <2>1, <2>3
<1>8. QED
  BY <1>0, <1>1, <1>3, <1>4, <1>5, <1>6, <1>7, StepOfOne

-----------------------------------------------------------------------------
(***************************************************************************)
(* run                                                                     *)
(***************************************************************************)

\* What no step of run changes.
LEMMA RunChanges ==
    ASSUME TypeOK, BlobInv, NEW d \in Downloads, RunSteps(d)
    PROVE  /\ ControlInv /\ ControlInv' /\ ControlTypes' /\ RefsCounted' /\ Sound(d)
           /\ UNCHANGED <<partDone, parts, completed, references, got, tries, pc, mine, ctxOpen>>
           /\ faults' \in 0..MaxFaults
           /\ OnlyDownload(d)
           /\ pc[d] \notin Preparing /\ pc'[d] \notin Preparing
<1>1. ControlInv' /\ ControlTypes' /\ ControlInv /\ RefsCounted /\ Sound(d)
  BY RunStepKeepsInv DEF BlobInv, ControlInv, Sound
<1>2. UNCHANGED <<partDone, parts, completed, references, got, tries, pc, mine, ctxOpen>>
  BY DEF RunSteps, RunStart, RunOpenFails, RunFetch, RunNoURL, RunFetched, RunRemovePart, RunRename,
         RunRenameFails, RunDelete, RunClose, files, objects, workerVars, pullVars
<1>3. faults' = faults \/ (faults < MaxFaults /\ faults' = faults + 1)
  BY DEF RunSteps, RunStart, RunOpenFails, RunFetch, RunNoURL, RunFetched, RunRemovePart, RunRename,
         RunRenameFails, RunDelete, RunClose, Happens
<1>4. faults' \in 0..MaxFaults
  BY <1>3, FaultsAssumption DEF TypeOK
<1>5. RefsCounted'
  BY <1>1, <1>2, RefsKept
<1>6. \E x : rPc' = [rPc EXCEPT ![d] = x]
  BY DEF RunSteps, RunStart, RunOpenFails, RunFetch, RunNoURL, RunFetched, RunRemovePart, RunRename,
         RunRenameFails, RunDelete, RunClose, RunReturns
<1>7. removed' = removed \/ \E x : removed' = [removed EXCEPT ![d] = x]
  BY DEF RunSteps, RunStart, RunOpenFails, RunFetch, RunNoURL, RunFetched, RunRemovePart, RunRename,
         RunRenameFails, RunDelete, RunClose
<1>8. wPc' = wPc \/ \E x : wPc' = [wPc EXCEPT ![d] = x]
  BY DEF RunSteps, RunStart, RunOpenFails, RunFetch, RunNoURL, RunFetched, RunRemovePart, RunRename,
         RunRenameFails, RunDelete, RunClose, workerVars
<1>9. OnlyDownload(d)
  <2>1. \A e \in Downloads \ {d} : rPc'[e] = rPc[e]
    BY <1>6 DEF TypeOK
  <2>2. \A e \in Downloads \ {d} : removed'[e] = removed[e]
    BY <1>7 DEF TypeOK
  <2>3. \A e \in Downloads \ {d} : wPc'[e] = wPc[e]
    BY <1>8 DEF TypeOK
  <2>4. QED
    BY <1>2, <2>1, <2>2, <2>3 DEF OnlyDownload
<1>10. rPc[d] # "off"
  BY DEF RunSteps, RunStart, RunOpenFails, RunFetch, RunNoURL, RunFetched, RunRemovePart, RunRename,
         RunRenameFails, RunDelete, RunClose
<1>11. pc[d] \notin Preparing
  BY <1>1, <1>10 DEF ControlInv, RunAfterPrepare
<1>12. QED
  BY <1>1, <1>2, <1>4, <1>5, <1>9, <1>11

\* Steps after which run writes no more: it returns, deletes the entry and
\* closes the channel.
LEMMA RunEndsKept ==
    ASSUME TypeOK, BlobInv, NEW d \in Downloads, RunSteps(d),
           rPc'[d] \in {"delete", "close", "ended"},
           UNCHANGED <<partFile, fileLen, written, blob, removed, wPc>>,
           cancelFunc' \in [Downloads -> {"nil", "set", "called"}],
           \A p \in PartIds : wPc[d][p] \notin Saving \cup {"copy"}
    PROVE  TypeOK' /\ BlobInv'
<1>0. /\ ControlInv /\ ControlInv' /\ ControlTypes' /\ RefsCounted' /\ Sound(d)
      /\ UNCHANGED <<partDone, parts, completed, references, got, tries, pc, mine, ctxOpen>>
      /\ faults' \in 0..MaxFaults /\ OnlyDownload(d)
      /\ pc[d] \notin Preparing /\ pc'[d] \notin Preparing
  BY RunChanges
<1>1. TypeOK'
  BY <1>0 DEF TypeOK, ControlTypes
<1>2. \A e \in Downloads \ {d} : Sound(e)'
  BY <1>0, SoundKept DEF BlobInv, Sound, OnlyDownload
<1>3. Sound(d)'
  BY <1>0 DEF Sound, PartsSound, WorkerSound
<1>4. ASSUME ResumeSound PROVE ResumeSound'
  <2>1. FilesTrue' /\ blob' # "holed"
    BY <1>0, <1>4 DEF ResumeSound, FilesTrue, Present
  <2>2. \A e \in Downloads \ {d} : DownloadTrue(e)'
    BY <1>0, <1>4 DEF ResumeSound, DownloadTrue, OnlyDownload, Present, DataWhole
  <2>3. DownloadTrue(d)'
    BY <1>0 DEF DownloadTrue
  <2>4. QED
    BY <2>1, <2>2, <2>3 DEF ResumeSound
<1>5. QED
  BY <1>0, <1>1, <1>2, <1>3, <1>4 DEF BlobInv, Sound

\* run ends with an error, deletes its entry, closes the channel.
LEMMA RunOverKept ==
    ASSUME TypeOK, BlobInv, NEW d \in Downloads,
           RunOpenFails(d) \/ RunNoURL(d) \/ RunRenameFails(d) \/ RunDelete(d) \/ RunClose(d)
    PROVE  TypeOK' /\ BlobInv'
<1>1. /\ RunSteps(d) /\ rPc[d] # "fetch"
      /\ UNCHANGED <<partFile, fileLen, written, blob, removed, wPc>>
  BY DEF RunSteps, RunOpenFails, RunNoURL, RunRenameFails, RunDelete, RunClose, files, workerVars
<1>2. rPc'[d] \in {"delete", "close", "ended"}
  BY DEF RunOpenFails, RunNoURL, RunRenameFails, RunDelete, RunClose, RunReturns, TypeOK
<1>3. cancelFunc' \in [Downloads -> {"nil", "set", "called"}]
  BY DEF RunOpenFails, RunNoURL, RunRenameFails, RunDelete, RunClose, objects, TypeOK
<1>4. \A p \in PartIds : wPc[d][p] \notin Saving \cup {"copy"}
  BY <1>1 DEF BlobInv, WorkerSound
<1>5. QED
  BY <1>1, <1>2, <1>3, <1>4, RunEndsKept

\* run opens the data file and truncates it to the sum of its parts.
LEMMA RunStartKept ==
    ASSUME TypeOK, BlobInv, NEW d \in Downloads, RunStart(d)
    PROVE  TypeOK' /\ BlobInv'
<1>0. /\ ControlInv /\ ControlInv' /\ ControlTypes' /\ RefsCounted' /\ Sound(d)
      /\ UNCHANGED <<partDone, parts, completed, references, got, tries, pc, mine, ctxOpen>>
      /\ faults' \in 0..MaxFaults /\ OnlyDownload(d)
      /\ pc[d] \notin Preparing /\ pc'[d] \notin Preparing
  BY RunChanges DEF RunSteps
<1>1. rPc[d] = "start" /\ Writing(d) /\ UNCHANGED <<partFile, blob, removed, wPc>>
  BY DEF RunStart, workerVars
<1>2. rPc'[d] = "url"
  BY DEF RunStart, TypeOK
<1>3. PICK total \in 0..NumParts :
         /\ total = Cardinality(parts[d]) /\ fileLen' = total
         /\ written' = [p \in PartIds |-> IF p < total THEN written[p] ELSE 0]
  BY PartsFinite DEF RunStart, TypeOK
<1>4. TypeOK'
  <2>1. fileLen' \in 0..NumParts /\ written' \in [PartIds -> 0..PartSize]
    BY <1>3, PartsAssumption DEF TypeOK
  <2>2. cancelFunc' \in [Downloads -> {"nil", "set", "called"}]
    BY DEF RunStart, TypeOK
  <2>3. QED
    BY <1>0, <1>1, <2>1, <2>2 DEF TypeOK, ControlTypes
<1>5. Sound(d)'
  BY <1>0, <1>1, <1>2 DEF Sound, PartsSound, WorkerSound, Saving
<1>6. ASSUME ResumeSound PROVE FilesTrue' /\ DownloadTrue(d)' /\ blob' # "holed"
  <2>1. /\ Present' = Present /\ parts[d] = Present /\ total = Cardinality(Present)
        /\ 0 \in Present => \A p \in Present : completed[d][p] + got[d][p] <= written[p]
    BY <1>1, <1>3, <1>6 DEF ResumeSound, DownloadTrue, Present
  <2>2. 0 \in Present => \A p \in Present : written'[p] = written[p]
    <3>1. ASSUME 0 \in Present, NEW p \in Present PROVE p < total /\ p \in PartIds
      <4>1. PICK n \in PartIds : Present = 0..n
        BY <1>6, <3>1 DEF ResumeSound, FilesTrue
      <4>2. total = n + 1
        BY <2>1, <4>1, PartsFinite
      <4>3. p \in 0..n /\ n \in Nat
        BY <3>1, <4>1 DEF PartIds
      <4>4. QED
        BY <4>1, <4>2, <4>3 DEF Present
    <3>2. QED
      BY <1>3, <3>1
  <2>3. FilesTrue'
    <3>1. ASSUME 0 \in Present, NEW p \in PartIds, partFile[p] = "json" PROVE partDone'[p] <= written'[p]
      <4>1. partDone[p] <= written[p] /\ p \in Present
        BY <1>6, <3>1 DEF ResumeSound, FilesTrue, Present
      <4>2. QED
        BY <1>0, <2>2, <3>1, <4>1
    <3>2. QED
      BY <1>1, <1>6, <2>1, <3>1 DEF ResumeSound, FilesTrue
  <2>4. 0 \in Present => \A p \in Present : completed'[d][p] + got'[d][p] <= written'[p]
    BY <1>0, <2>1, <2>2
  <2>5. DownloadTrue(d)'
    BY <1>0, <1>2, <1>3, <2>1, <2>4 DEF DownloadTrue
  <2>6. QED
    BY <1>1, <1>6, <2>3, <2>5 DEF ResumeSound
<1>7. QED
  BY <1>0, <1>1, <1>4, <1>5, <1>6, StepOfOne

\* The workers of the incomplete parts start.
LEMMA RunFetchKept ==
    ASSUME TypeOK, BlobInv, NEW d \in Downloads, RunFetch(d)
    PROVE  TypeOK' /\ BlobInv'
<1>0. /\ ControlInv /\ ControlInv' /\ ControlTypes' /\ RefsCounted' /\ Sound(d)
      /\ UNCHANGED <<partDone, parts, completed, references, got, tries, pc, mine, ctxOpen>>
      /\ faults' \in 0..MaxFaults /\ OnlyDownload(d)
      /\ pc[d] \notin Preparing /\ pc'[d] \notin Preparing
  BY RunChanges DEF RunSteps
<1>1. /\ rPc[d] = "url" /\ Writing(d)
      /\ UNCHANGED <<partFile, fileLen, written, blob, cancelFunc, removed>>
  BY DEF RunFetch, files, objects
<1>2. rPc'[d] = "fetch"
  BY DEF RunFetch, TypeOK
<1>3. PICK w \in [PartIds -> {"copy", "off"}] :
         /\ w = [p \in PartIds |-> IF p \in parts[d] /\ completed[d][p] # PartSize THEN "copy" ELSE "off"]
         /\ wPc' = [wPc EXCEPT ![d] = w]
  BY DEF RunFetch
<1>4. wPc'[d] = w
  BY <1>3 DEF TypeOK
<1>5. TypeOK'
  <2>1. wPc' \in [Downloads -> [PartIds -> Saving \cup {"off", "copy", "over", "failed"}]]
    <3>1. w \in [PartIds -> Saving \cup {"off", "copy", "over", "failed"}]
      BY <1>3
    <3>2. QED
      BY <1>3, <3>1 DEF TypeOK
  <2>2. QED
    BY <1>0, <1>1, <2>1 DEF TypeOK, ControlTypes
<1>6. Sound(d)'
  <2>1. ASSUME NEW p \in PartIds PROVE WorkerSound(d, p)'
    <3>1. tries[d][p] = 0 /\ got[d][p] = 0 /\ completed[d][p] + got[d][p] <= PartSize
      BY <1>0, <1>1 DEF Sound, WorkerSound
    <3>2. wPc'[d][p] = IF p \in parts[d] /\ completed[d][p] # PartSize THEN "copy" ELSE "off"
      BY <1>3, <1>4
    <3>3. tries[d][p] < maxRetries
      BY <3>1, RetriesAssumption
    <3>4. QED
      BY <1>0, <1>2, <3>1, <3>2, <3>3 DEF WorkerSound, Saving
  <2>2. PartsSound(d)'
    BY <1>0, <1>1, <1>2 DEF Sound, PartsSound
  <2>3. QED
    BY <2>1, <2>2 DEF Sound
<1>7. ASSUME ResumeSound PROVE FilesTrue' /\ DownloadTrue(d)' /\ blob' # "holed"
  <2>1. FilesTrue' /\ blob' # "holed" /\ Present' = Present
    BY <1>0, <1>1, <1>7 DEF ResumeSound, FilesTrue, Present
  <2>2. /\ parts[d] = Present
        /\ 0 \in Present => \A p \in Present : completed[d][p] + got[d][p] <= written[p]
        /\ Present = {} \/ 0 \in Present => fileLen = Cardinality(Present)
    BY <1>1, <1>7 DEF ResumeSound, DownloadTrue
  <2>3. DownloadTrue(d)'
    BY <1>0, <1>1, <1>2, <2>1, <2>2 DEF DownloadTrue
  <2>4. QED
    BY <2>1, <2>3
<1>8. QED
  BY <1>0, <1>1, <1>5, <1>6, <1>7, StepOfOne

\* When every worker is over, each part that is known is complete; the data
\* file has no other part when the file of part 0 is there, or no part is known.
LEMMA FetchedWhole ==
    ASSUME TypeOK, BlobInv, ResumeSound, NEW d \in Downloads, rPc[d] = "fetch",
           \A p \in PartIds : wPc[d][p] \in {"off", "over"},
           Present = {} \/ 0 \in Present
    PROVE  DataWhole
<1>1. /\ parts[d] = Present /\ fileLen = Cardinality(Present)
      /\ 0 \in Present => \A p \in Present : completed[d][p] + got[d][p] <= written[p]
  BY DEF ResumeSound, DownloadTrue
<1>2. CASE Present = {}
  <2>1. fileLen = 0
    BY <1>1, <1>2, PartsFinite
  <2>2. QED
    BY <2>1 DEF DataWhole, PartIds
<1>3. CASE 0 \in Present
  <2>1. PICK n \in PartIds : Present = 0..n
    BY <1>3 DEF ResumeSound, FilesTrue
  <2>2. fileLen = n + 1
    BY <1>1, <2>1, PartsFinite
  <2>3. ASSUME NEW p \in PartIds, p < fileLen PROVE written[p] = PartSize
    <3>1. p \in Present
      <4>1. p \in Nat /\ n \in Nat
        BY PartsAssumption DEF PartIds
      <4>2. QED
        BY <2>1, <2>2, <2>3, <4>1
    <3>2. completed[d][p] = PartSize
      BY <1>1, <3>1 DEF BlobInv, WorkerSound
    <3>3. got[d][p] \in Nat /\ written[p] \in 0..PartSize
      BY DEF TypeOK
    <3>4. QED
      BY <1>1, <1>3, <3>1, <3>2, <3>3, PartsAssumption
  <2>4. QED
    BY <2>3 DEF DataWhole
<1>4. QED
  BY <1>2, <1>3

\* All workers have ended.
LEMMA RunFetchedKept ==
    ASSUME TypeOK, BlobInv, NEW d \in Downloads, RunFetched(d)
    PROVE  TypeOK' /\ BlobInv'
<1>0. /\ ControlInv /\ ControlInv' /\ ControlTypes' /\ RefsCounted' /\ Sound(d)
      /\ UNCHANGED <<partDone, parts, completed, references, got, tries, pc, mine, ctxOpen>>
      /\ faults' \in 0..MaxFaults /\ OnlyDownload(d)
      /\ pc[d] \notin Preparing /\ pc'[d] \notin Preparing
  BY RunChanges DEF RunSteps
<1>1. /\ rPc[d] = "fetch" /\ Writing(d)
      /\ UNCHANGED <<partFile, fileLen, written, blob, cancelFunc, removed, wPc>>
      /\ \A p \in PartIds : wPc[d][p] \in {"off", "over", "failed"}
  BY DEF RunFetched, AllOver, files, workerVars
<1>2. CASE \E p \in PartIds : wPc[d][p] = "failed"
  <2>1. rPc'[d] = "delete"
    BY <1>2 DEF RunFetched, RunReturns, TypeOK
  <2>2. \A p \in PartIds : wPc[d][p] \notin Saving \cup {"copy"}
    BY <1>1 DEF Saving
  <2>3. RunSteps(d) /\ cancelFunc' \in [Downloads -> {"nil", "set", "called"}]
    BY <1>1 DEF RunSteps, TypeOK
  <2>4. QED
    BY <1>1, <2>1, <2>2, <2>3, RunEndsKept
<1>3. CASE ~\E p \in PartIds : wPc[d][p] = "failed"
  <2>1. rPc'[d] = IF parts[d] = {} THEN "rename" ELSE "remove"
    BY <1>3 DEF RunFetched, TypeOK
  <2>2. TypeOK'
    BY <1>0, <1>1 DEF TypeOK, ControlTypes
  <2>3. Sound(d)'
    <3>1. removed[d] = 0
      BY <1>0, <1>1 DEF Sound, PartsSound
    <3>2. parts[d] # {} => 0 < Cardinality(parts[d])
      <4>1. parts[d] \in SUBSET PartIds
        BY DEF TypeOK
      <4>2. Cardinality(parts[d]) \in 0..NumParts /\ (Cardinality(parts[d]) = 0 <=> parts[d] = {})
        BY <4>1, PartsFinite
      <4>3. QED
        BY <4>2, PartsAssumption
    <3>3. PartsSound(d)'
      BY <1>0, <1>1, <2>1, <3>1, <3>2 DEF PartsSound
    <3>4. \A p \in PartIds : WorkerSound(d, p)'
      BY <1>0, <1>1, <2>1 DEF Sound, WorkerSound, Saving
    <3>5. QED
      BY <3>3, <3>4 DEF Sound
  <2>4. ASSUME ResumeSound PROVE FilesTrue' /\ DownloadTrue(d)' /\ blob' # "holed"
    <3>1. FilesTrue' /\ blob' # "holed" /\ Present' = Present /\ DataWhole' = DataWhole
      BY <1>0, <1>1, <2>4 DEF ResumeSound, FilesTrue, Present, DataWhole
    <3>2. Present = {} \/ 0 \in Present => DataWhole
      BY <1>1, <1>3, <2>4, FetchedWhole
    <3>3. removed[d] = 0 /\ parts[d] = Present
      BY <1>0, <1>1, <2>4 DEF Sound, PartsSound, ResumeSound, DownloadTrue
    <3>4. DownloadTrue(d)'
      BY <1>0, <1>1, <2>1, <3>1, <3>2, <3>3 DEF DownloadTrue
    <3>5. QED
      BY <3>1, <3>4
  <2>5. QED
    BY <1>0, <1>1, <2>2, <2>3, <2>4, StepOfOne
<1>4. QED
  BY <1>2, <1>3

\* The part files are removed one by one.
LEMMA RunRemovePartKept ==
    ASSUME TypeOK, BlobInv, NEW d \in Downloads, RunRemovePart(d)
    PROVE  TypeOK' /\ BlobInv'
<1>0. /\ ControlInv /\ ControlInv' /\ ControlTypes' /\ RefsCounted' /\ Sound(d)
      /\ UNCHANGED <<partDone, parts, completed, references, got, tries, pc, mine, ctxOpen>>
      /\ faults' \in 0..MaxFaults /\ OnlyDownload(d)
      /\ pc[d] \notin Preparing /\ pc'[d] \notin Preparing
  BY RunChanges DEF RunSteps
<1>1. /\ rPc[d] = "remove" /\ Writing(d)
      /\ UNCHANGED <<fileLen, written, blob, cancelFunc, wPc>>
  BY DEF RunRemovePart, workerVars
<1>2. \A p \in PartIds : wPc[d][p] \notin Saving \cup {"copy"}
  BY <1>0, <1>1 DEF Sound, WorkerSound
<1>3. PICK i \in PartIds : i = removed[d] /\ i < Cardinality(parts[d])
  <2>1. removed[d] \in 0..NumParts /\ parts[d] \in SUBSET PartIds
    BY DEF TypeOK
  <2>2. removed[d] < Cardinality(parts[d])
    BY <1>0, <1>1 DEF Sound, PartsSound
  <2>3. Cardinality(parts[d]) \in 0..NumParts
    BY <2>1, PartsFinite
  <2>4. removed[d] \in PartIds
    BY <2>1, <2>2, <2>3, PartsAssumption DEF PartIds
  <2>5. QED
    BY <2>2, <2>4
<1>4. CASE partFile[i] = "absent"
  <2>1. rPc'[d] = "delete" /\ UNCHANGED <<partFile, removed>>
    BY <1>3, <1>4 DEF RunRemovePart, RunReturns, TypeOK
  <2>2. RunSteps(d) /\ cancelFunc' \in [Downloads -> {"nil", "set", "called"}]
    BY <1>1 DEF RunSteps, TypeOK
  <2>3. QED
    BY <1>1, <1>2, <2>1, <2>2, RunEndsKept
<1>5. CASE partFile[i] # "absent"
  <2>1. /\ partFile' = [partFile EXCEPT ![i] = "absent"]
        /\ removed' = [removed EXCEPT ![d] = i + 1]
        /\ rPc'[d] = IF i + 1 = Cardinality(parts[d]) THEN "rename" ELSE "remove"
    BY <1>3, <1>5 DEF RunRemovePart, TypeOK
  <2>2. i + 1 \in 0..NumParts /\ removed'[d] = i + 1 /\ i \in Nat
    BY <2>1, PartsAssumption DEF TypeOK, PartIds
  <2>3. TypeOK'
    <3>1. partFile' \in [PartIds -> {"absent", "torn", "json"}] /\ removed' \in [Downloads -> 0..NumParts]
      BY <2>1, <2>2 DEF TypeOK
    <3>2. QED
      BY <1>0, <1>1, <3>1 DEF TypeOK, ControlTypes
  <2>4. Sound(d)'
    <3>1. rPc'[d] = "remove" => removed'[d] < Cardinality(parts[d])
      <4>1. Cardinality(parts[d]) \in 0..NumParts
        BY PartsFinite DEF TypeOK
      <4>2. QED
        BY <1>3, <2>1, <2>2, <4>1, PartsAssumption
    <3>2. PartsSound(d)'
      BY <1>0, <2>1, <3>1 DEF PartsSound
    <3>3. \A p \in PartIds : WorkerSound(d, p)'
      BY <1>0, <1>1, <1>2, <2>1 DEF Sound, WorkerSound
    <3>4. QED
      BY <3>2, <3>3 DEF Sound
  <2>5. ASSUME ResumeSound PROVE FilesTrue' /\ DownloadTrue(d)' /\ blob' # "holed"
    <3>1. i \in Present
      BY <1>5 DEF Present
    <3>2. DataWhole /\ (i = 0 \/ 0 \notin Present)
      BY <1>1, <1>3, <2>5, <3>1 DEF ResumeSound, DownloadTrue
    <3>3. Present' = Present \ {i}
      BY <2>1 DEF Present, TypeOK
    <3>4. 0 \notin Present'
      BY <3>2, <3>3
    <3>5. DataWhole'
      BY <1>1, <3>2 DEF DataWhole
    <3>6. DownloadTrue(d)'
      BY <1>0, <2>1, <3>4, <3>5 DEF DownloadTrue
    <3>7. QED
      BY <1>1, <2>5, <3>4, <3>6 DEF ResumeSound, FilesTrue
  <2>6. QED
    BY <1>0, <1>1, <2>3, <2>4, <2>5, StepOfOne
<1>6. QED
  BY <1>4, <1>5

\* The data file becomes the blob: no part of it is missing.
LEMMA RunRenameKept ==
    ASSUME TypeOK, BlobInv, NEW d \in Downloads, RunRename(d)
    PROVE  TypeOK' /\ BlobInv'
<1>0. /\ ControlInv /\ ControlInv' /\ ControlTypes' /\ RefsCounted' /\ Sound(d)
      /\ UNCHANGED <<partDone, parts, completed, references, got, tries, pc, mine, ctxOpen>>
      /\ faults' \in 0..MaxFaults /\ OnlyDownload(d)
      /\ pc[d] \notin Preparing /\ pc'[d] \notin Preparing
  BY RunChanges DEF RunSteps
<1>1. /\ rPc[d] = "rename" /\ Writing(d)
      /\ UNCHANGED <<partFile, cancelFunc, removed, wPc>>
      /\ blob' = Content /\ fileLen' = 0 /\ written' = [p \in PartIds |-> 0]
  BY DEF RunRename, workerVars
<1>2. rPc'[d] = "delete"
  BY DEF RunRename, RunReturns, TypeOK
<1>3. TypeOK'
  <2>1. fileLen' \in 0..NumParts /\ written' \in [PartIds -> 0..PartSize]
    BY <1>1, PartsAssumption
  <2>2. blob' \in {"absent", "whole", "short", "holed"}
    BY <1>1 DEF Content
  <2>3. QED
    BY <1>0, <1>1, <2>1, <2>2 DEF TypeOK, ControlTypes
<1>4. Sound(d)'
  BY <1>0, <1>1, <1>2 DEF Sound, PartsSound, WorkerSound
<1>5. ASSUME ResumeSound PROVE FilesTrue' /\ DownloadTrue(d)' /\ blob' # "holed"
  <2>1. DataWhole /\ 0 \notin Present
    BY <1>1, <1>5 DEF ResumeSound, DownloadTrue
  <2>2. FilesTrue'
    BY <1>1, <2>1 DEF FilesTrue, Present
  <2>3. DownloadTrue(d)'
    BY <1>0, <1>2 DEF DownloadTrue
  <2>4. Content # "holed"
    BY <2>1, PartsAssumption DEF Content, DataWhole
  <2>5. QED
    BY <1>1, <2>2, <2>3, <2>4
<1>6. QED
  BY <1>0, <1>1, <1>3, <1>4, <1>5, StepOfOne

-----------------------------------------------------------------------------
(***************************************************************************)
(* The workers                                                             *)
(***************************************************************************)

WorkerPcs == Saving \cup {"off", "copy", "over", "failed"}

\* An update of one part of one download.
LEMMA UpdatePart ==
    ASSUME NEW A, NEW B, NEW V, NEW f \in [A -> [B -> V]], NEW g,
           NEW a \in A, NEW b \in B, NEW v \in V, g = [f EXCEPT ![a][b] = v]
    PROVE  /\ g \in [A -> [B -> V]] /\ g[a][b] = v
           /\ \A x \in A \ {a} : g[x] = f[x]
           /\ \A y \in B \ {b} : g[a][y] = f[a][y]
<1>1. [f[a] EXCEPT ![b] = v] \in [B -> V]
  OBVIOUS
<1>2. g = [f EXCEPT ![a] = [f[a] EXCEPT ![b] = v]]
  OBVIOUS
<1>3. QED
  BY <1>1, <1>2

\* An assignment of the same value to an element changes nothing.
LEMMA SamePart ==
    ASSUME NEW A, NEW B, NEW V, NEW f \in [A -> [B -> V]], NEW a \in A, NEW b \in B
    PROVE  f = [f EXCEPT ![a][b] = f[a][b]]
<1>1. f[a] = [f[a] EXCEPT ![b] = f[a][b]]
  OBVIOUS
<1>2. QED
  BY <1>1

\* A worker that copies or saves.
LEMMA WorkerAtWork ==
    ASSUME TypeOK, BlobInv, NEW d \in Downloads, NEW p \in PartIds,
           wPc[d][p] \in Saving \cup {"copy"}
    PROVE  /\ ControlInv /\ Sound(d) /\ rPc[d] = "fetch" /\ Writing(d) /\ p \in parts[d]
           /\ pc[d] \notin Preparing
           /\ tries[d][p] \in Nat /\ tries[d][p] < maxRetries
           /\ completed[d][p] \in Nat /\ got[d][p] \in Nat /\ PartSize \in Nat
           /\ completed[d][p] + got[d][p] <= PartSize
           /\ wPc[d][p] = "saveOver" => completed[d][p] + got[d][p] = PartSize
<1>1. /\ rPc[d] = "fetch" /\ p \in parts[d] /\ tries[d][p] < maxRetries
      /\ completed[d][p] + got[d][p] <= PartSize
      /\ wPc[d][p] = "saveOver" => completed[d][p] + got[d][p] = PartSize
  BY DEF BlobInv, WorkerSound
<1>2. pc[d] \notin Preparing
  BY <1>1 DEF BlobInv, ControlInv, RunAfterPrepare
<1>3. tries[d][p] \in Nat /\ completed[d][p] \in Nat /\ got[d][p] \in Nat /\ PartSize \in Nat
  BY PartsAssumption DEF TypeOK
<1>4. QED
  BY <1>1, <1>2, <1>3 DEF BlobInv, Sound

\* The progress c and g, the place w and the attempts t of a worker are sound.
ProgressSound(c, w, g, t) ==
    /\ c + g <= PartSize
    /\ w \in Saving \cup {"copy"} => t < maxRetries
    /\ w = "saveOver" => c + g = PartSize
    /\ w = "over" => c = PartSize
    /\ w # "off"

\* How the worker of part p of download d is changed.
WorkerMoves(d, p, c, w, g, t) ==
    /\ completed' = [completed EXCEPT ![d][p] = c]
    /\ wPc' = [wPc EXCEPT ![d][p] = w]
    /\ got' = [got EXCEPT ![d][p] = g]
    /\ tries' = [tries EXCEPT ![d][p] = t]

\* A worker's step changes its own part only, and keeps it sound. What is left
\* to look at are the files.
LEMMA WorkerMoveKept ==
    ASSUME TypeOK, BlobInv, NEW d \in Downloads, NEW p \in PartIds,
           wPc[d][p] \in Saving \cup {"copy"}, Receive(d, p) \/ WorkerSteps(d, p),
           NEW c \in 0..PartSize, NEW w \in WorkerPcs, NEW g \in 0..PartSize, NEW t \in 0..maxRetries,
           ProgressSound(c, w, g, t), WorkerMoves(d, p, c, w, g, t),
           partFile' \in [PartIds -> {"absent", "torn", "json"}],
           partDone' \in [PartIds -> 0..PartSize],
           fileLen' \in 0..NumParts, written' \in [PartIds -> 0..PartSize],
           ResumeSound => /\ Present' = Present /\ FilesTrue'
                          /\ 0 \in Present =>
                                /\ fileLen' = fileLen
                                /\ c + g <= written'[p]
                                /\ \A x \in PartIds : written[x] <= written'[x]
    PROVE  TypeOK' /\ BlobInv'
<1>0. ControlInv /\ ControlInv' /\ ControlTypes' /\ RefsCounted
  BY WorkerStepKeepsInv DEF BlobInv, ControlInv
<1>1. UNCHANGED <<blob, parts, cancelFunc, references, rPc, removed, pc, mine, ctxOpen>>
  BY DEF Receive, WorkerSteps, CopyEnds, CopyFails, SavePart, SaveFails, files, objects, runVars, pullVars
<1>2. faults' \in 0..MaxFaults
  <2>1. faults' = faults \/ (faults < MaxFaults /\ faults' = faults + 1)
    BY DEF Receive, WorkerSteps, CopyEnds, CopyFails, SavePart, SaveFails, Happens
  <2>2. QED
    BY <2>1, FaultsAssumption DEF TypeOK
<1>3. /\ completed' \in [Downloads -> [PartIds -> 0..PartSize]] /\ completed'[d][p] = c
      /\ \A e \in Downloads \ {d} : completed'[e] = completed[e]
      /\ \A x \in PartIds \ {p} : completed'[d][x] = completed[d][x]
  BY UpdatePart DEF WorkerMoves, TypeOK
<1>4. /\ wPc' \in [Downloads -> [PartIds -> WorkerPcs]] /\ wPc'[d][p] = w
      /\ \A e \in Downloads \ {d} : wPc'[e] = wPc[e]
      /\ \A x \in PartIds \ {p} : wPc'[d][x] = wPc[d][x]
  <2>1. wPc \in [Downloads -> [PartIds -> WorkerPcs]]
    BY DEF TypeOK, WorkerPcs
  <2>2. QED
    BY <2>1, UpdatePart DEF WorkerMoves
<1>5. /\ got' \in [Downloads -> [PartIds -> 0..PartSize]] /\ got'[d][p] = g
      /\ \A e \in Downloads \ {d} : got'[e] = got[e]
      /\ \A x \in PartIds \ {p} : got'[d][x] = got[d][x]
  BY UpdatePart DEF WorkerMoves, TypeOK
<1>6. /\ tries' \in [Downloads -> [PartIds -> 0..maxRetries]] /\ tries'[d][p] = t
      /\ \A e \in Downloads \ {d} : tries'[e] = tries[e]
      /\ \A x \in PartIds \ {p} : tries'[d][x] = tries[d][x]
  BY UpdatePart DEF WorkerMoves, TypeOK
<1>7. TypeOK'
  BY <1>0, <1>1, <1>2, <1>3, <1>4, <1>5, <1>6 DEF TypeOK, ControlTypes, WorkerPcs
<1>8. RefsCounted'
  BY <1>0, <1>1, RefsKept
<1>9. OnlyDownload(d)
  BY <1>1, <1>3, <1>4, <1>5, <1>6 DEF OnlyDownload
<1>10. /\ Sound(d) /\ rPc[d] = "fetch" /\ Writing(d) /\ p \in parts[d] /\ pc[d] \notin Preparing
  BY WorkerAtWork
<1>11. Sound(d)'
  <2>1. PartsSound(d)'
    BY <1>1, <1>10 DEF Sound, PartsSound
  <2>2. WorkerSound(d, p)'
    BY <1>1, <1>3, <1>4, <1>5, <1>6, <1>10 DEF WorkerSound, ProgressSound
  <2>3. \A x \in PartIds \ {p} : WorkerSound(d, x)'
    BY <1>1, <1>3, <1>4, <1>5, <1>6, <1>10 DEF Sound, WorkerSound
  <2>4. QED
    BY <2>1, <2>2, <2>3 DEF Sound
<1>12. ASSUME ResumeSound PROVE FilesTrue' /\ DownloadTrue(d)' /\ blob' # "holed"
  <2>1. /\ parts[d] = Present
        /\ 0 \in Present => \A x \in Present : completed[d][x] + got[d][x] <= written[x]
        /\ Present = {} \/ 0 \in Present => fileLen = Cardinality(Present)
    BY <1>10, <1>12 DEF ResumeSound, DownloadTrue
  <2>2. ASSUME 0 \in Present, NEW x \in Present PROVE completed'[d][x] + got'[d][x] <= written'[x]
    <3>1. CASE x = p
      BY <1>3, <1>5, <1>12, <2>2, <3>1
    <3>2. CASE x # p
      <4>1. x \in PartIds
        BY DEF Present
      <4>2. completed'[d][x] = completed[d][x] /\ got'[d][x] = got[d][x]
        BY <1>3, <1>5, <3>2, <4>1
      <4>3. completed[d][x] + got[d][x] <= written[x] /\ written[x] <= written'[x]
        BY <1>12, <2>1, <2>2, <4>1
      <4>4. completed[d][x] \in Nat /\ got[d][x] \in Nat /\ written[x] \in Nat /\ written'[x] \in Nat
        BY <1>7, <4>1 DEF TypeOK
      <4>5. QED
        BY <4>2, <4>3, <4>4
    <3>3. QED
      BY <3>1, <3>2
  <2>3. Present # {}
    BY <1>10, <2>1
  <2>4. DownloadTrue(d)'
    BY <1>1, <1>10, <1>12, <2>1, <2>2, <2>3 DEF DownloadTrue
  <2>5. QED
    BY <1>1, <1>12, <2>4 DEF ResumeSound
<1>13. QED
  BY <1>0, <1>7, <1>8, <1>9, <1>10, <1>11, <1>12, StepOfOne

\* The unit that arrives goes where the progress says that it goes.
LEMMA ReceiveKept ==
    ASSUME TypeOK, BlobInv, NEW d \in Downloads, NEW p \in PartIds, Receive(d, p)
    PROVE  TypeOK' /\ BlobInv'
<1>1. PICK c \in 0..PartSize, g \in 0..PartSize :
         c = completed[d][p] /\ g = got[d][p] /\ c + g < PartSize
  BY DEF Receive, TypeOK
<1>2. /\ wPc[d][p] = "copy" /\ got' = [got EXCEPT ![d][p] = g + 1]
      /\ written' = [written EXCEPT ![p] = larger(written[p], c + g + 1)]
      /\ fileLen' = larger(fileLen, p + 1)
      /\ UNCHANGED <<partFile, partDone, completed, wPc, tries>>
  BY <1>1 DEF Receive, objects
<1>3. /\ tries[d][p] < maxRetries /\ tries[d][p] \in 0..maxRetries /\ rPc[d] = "fetch" /\ p \in parts[d]
  BY <1>2, WorkerAtWork DEF TypeOK
<1>4. g + 1 \in 0..PartSize /\ c + (g + 1) <= PartSize /\ c + g + 1 \in 0..PartSize
  BY <1>1, PartsAssumption
<1>5. WorkerMoves(d, p, c, "copy", g + 1, tries[d][p])
  BY <1>1, <1>2, SamePart DEF WorkerMoves, TypeOK
<1>6. ProgressSound(c, "copy", g + 1, tries[d][p])
  BY <1>3, <1>4 DEF ProgressSound, Saving
<1>7. larger(written[p], c + g + 1) \in 0..PartSize
  BY <1>4 DEF larger, TypeOK
<1>8. /\ written' \in [PartIds -> 0..PartSize]
      /\ written'[p] = larger(written[p], c + g + 1)
      /\ \A x \in PartIds \ {p} : written'[x] = written[x]
  BY <1>2, <1>7 DEF TypeOK
<1>9. fileLen' \in 0..NumParts
  BY <1>2, PartsAssumption DEF larger, TypeOK, PartIds
<1>10. /\ \A x \in PartIds : written[x] <= written'[x]
       /\ c + (g + 1) <= written'[p]
  <2>1. written[p] \in Nat /\ c \in Nat /\ g \in Nat /\ \A x \in PartIds : written[x] \in Nat
    BY <1>1 DEF TypeOK
  <2>2. written[p] <= written'[p] /\ c + (g + 1) <= written'[p]
    BY <1>8, <2>1 DEF larger
  <2>3. QED
    BY <1>8, <2>1, <2>2
<1>11. ASSUME ResumeSound PROVE Present' = Present /\ FilesTrue' /\ (0 \in Present => fileLen' = fileLen)
  <2>1. Present' = Present
    BY <1>2 DEF Present
  <2>2. ASSUME 0 \in Present, NEW x \in PartIds, partFile[x] = "json" PROVE partDone[x] <= written'[x]
    <3>1. partDone[x] <= written[x]
      BY <1>11, <2>2 DEF ResumeSound, FilesTrue
    <3>2. partDone[x] \in Nat /\ written[x] \in Nat /\ written'[x] \in Nat
      BY <1>8 DEF TypeOK
    <3>3. QED
      BY <1>10, <3>1, <3>2
  <2>3. FilesTrue'
    BY <1>2, <1>11, <2>1, <2>2 DEF ResumeSound, FilesTrue
  <2>4. ASSUME 0 \in Present PROVE fileLen' = fileLen
    <3>1. p \in Present /\ fileLen = Cardinality(Present)
      BY <1>3, <1>11, <2>4 DEF ResumeSound, DownloadTrue
    <3>2. PICK n \in PartIds : Present = 0..n
      BY <1>11, <2>4 DEF ResumeSound, FilesTrue
    <3>3. fileLen = n + 1
      BY <3>1, <3>2, PartsFinite
    <3>4. p \in 0..n /\ n \in Nat
      BY <3>1, <3>2 DEF PartIds
    <3>5. QED
      BY <1>2, <3>3, <3>4 DEF larger
  <2>5. QED
    BY <2>1, <2>3, <2>4
<1>12. "copy" \in WorkerPcs /\ wPc[d][p] \in Saving \cup {"copy"}
  BY <1>2 DEF WorkerPcs
<1>13. partFile' \in [PartIds -> {"absent", "torn", "json"}] /\ partDone' \in [PartIds -> 0..PartSize]
  BY <1>2 DEF TypeOK
<1>14. QED
  BY <1>3, <1>4, <1>5, <1>6, <1>8, <1>9, <1>10, <1>11, <1>12, <1>13, WorkerMoveKept

\* Steps of a worker that leave the files alone.
LEMMA WorkerSameFiles ==
    ASSUME TypeOK, BlobInv, NEW d \in Downloads, NEW p \in PartIds,
           wPc[d][p] = "copy", WorkerSteps(d, p), UNCHANGED files,
           NEW w \in WorkerPcs, NEW g \in 0..PartSize, NEW t \in 0..maxRetries,
           g <= got[d][p],
           ProgressSound(completed[d][p], w, g, t), WorkerMoves(d, p, completed[d][p], w, g, t)
    PROVE  TypeOK' /\ BlobInv'
<1>1. UNCHANGED <<partFile, partDone, fileLen, written>>
  BY DEF files
<1>2. /\ partFile' \in [PartIds -> {"absent", "torn", "json"}] /\ partDone' \in [PartIds -> 0..PartSize]
      /\ fileLen' \in 0..NumParts /\ written' \in [PartIds -> 0..PartSize]
      /\ completed[d][p] \in 0..PartSize
      /\ completed[d][p] \in Nat /\ got[d][p] \in Nat /\ written[p] \in Nat
      /\ \A x \in PartIds : written[x] <= written[x]
  BY <1>1 DEF TypeOK
<1>3. rPc[d] = "fetch" /\ p \in parts[d] /\ wPc[d][p] \in Saving \cup {"copy"}
  BY WorkerAtWork
<1>4. ASSUME ResumeSound
      PROVE  /\ Present' = Present /\ FilesTrue'
             /\ 0 \in Present => completed[d][p] + g <= written'[p]
  <2>1. Present' = Present /\ FilesTrue'
    BY <1>1, <1>4 DEF ResumeSound, FilesTrue, Present
  <2>2. 0 \in Present => completed[d][p] + got[d][p] <= written[p]
    BY <1>3, <1>4 DEF ResumeSound, DownloadTrue
  <2>3. QED
    BY <1>1, <1>2, <2>1, <2>2
<1>5. QED
  BY <1>1, <1>2, <1>3, <1>4, WorkerMoveKept

\* A transfer ends, and its part keeps what has arrived.
LEMMA CopyEndsKept ==
    ASSUME TypeOK, BlobInv, NEW d \in Downloads, NEW p \in PartIds, CopyEnds(d, p)
    PROVE  TypeOK' /\ BlobInv'
<1>1. wPc[d][p] = "copy" /\ UNCHANGED <<files, completed, got, tries>>
  BY DEF CopyEnds, objects
<1>2. /\ tries[d][p] < maxRetries /\ tries[d][p] \in 0..maxRetries
      /\ completed[d][p] + got[d][p] <= PartSize /\ got[d][p] \in 0..PartSize /\ got[d][p] <= got[d][p]
  BY <1>1, WorkerAtWork DEF TypeOK
<1>3. PICK w \in Saving : /\ wPc' = [wPc EXCEPT ![d][p] = w]
                          /\ w = "saveOver" => completed[d][p] + got[d][p] = PartSize
  BY DEF CopyEnds, Saving
<1>4. WorkerMoves(d, p, completed[d][p], w, got[d][p], tries[d][p])
  BY <1>1, <1>3, SamePart DEF WorkerMoves, TypeOK
<1>5. ProgressSound(completed[d][p], w, got[d][p], tries[d][p]) /\ w \in WorkerPcs
  BY <1>2, <1>3 DEF ProgressSound, Saving, WorkerPcs
<1>6. QED
  BY <1>1, <1>2, <1>4, <1>5, WorkerSameFiles DEF WorkerSteps

\* A transfer fails, and its part is rolled back.
LEMMA CopyFailsKept ==
    ASSUME TypeOK, BlobInv, NEW d \in Downloads, NEW p \in PartIds, CopyFails(d, p)
    PROVE  TypeOK' /\ BlobInv'
<1>1. wPc[d][p] = "copy" /\ UNCHANGED <<files, completed>> /\ got' = [got EXCEPT ![d][p] = 0]
  BY DEF CopyFails, objects
<1>2. /\ tries[d][p] < maxRetries /\ tries[d][p] \in Nat /\ maxRetries \in Nat
      /\ completed[d][p] + 0 <= PartSize /\ 0 \in 0..PartSize /\ 0 <= got[d][p]
  BY <1>1, WorkerAtWork, RetriesAssumption
<1>3. PICK w \in {"copy", "failed"}, t \in {tries[d][p], tries[d][p] + 1} :
         /\ wPc' = [wPc EXCEPT ![d][p] = w] /\ tries' = [tries EXCEPT ![d][p] = t]
         /\ w = "copy" => t < maxRetries
  <2>1. tries = [tries EXCEPT ![d][p] = tries[d][p]]
    BY SamePart DEF TypeOK
  <2>2. CASE Retry(d, p)
    BY <2>2 DEF Retry
  <2>3. CASE wPc' = [wPc EXCEPT ![d][p] = "failed"] /\ UNCHANGED tries
    BY <2>1, <2>3
  <2>4. QED
    BY <2>2, <2>3 DEF CopyFails
<1>4. t \in 0..maxRetries
  BY <1>2, <1>3
<1>5. WorkerMoves(d, p, completed[d][p], w, 0, t)
  BY <1>1, <1>3, SamePart DEF WorkerMoves, TypeOK
<1>6. ProgressSound(completed[d][p], w, 0, t) /\ w \in WorkerPcs
  BY <1>2, <1>3 DEF ProgressSound, Saving, WorkerPcs
<1>7. QED
  BY <1>1, <1>2, <1>4, <1>5, <1>6, WorkerSameFiles DEF WorkerSteps

\* Steps of a worker that write its part file, whole or torn.
LEMMA WorkerSaves ==
    ASSUME TypeOK, BlobInv, NEW d \in Downloads, NEW p \in PartIds,
           wPc[d][p] \in Saving, WorkerSteps(d, p), UNCHANGED <<fileLen, written>>,
           NEW c, c = completed[d][p] + got[d][p],
           NEW w \in WorkerPcs, NEW t \in 0..maxRetries,
           ProgressSound(c, w, 0, t), WorkerMoves(d, p, c, w, 0, t),
           NEW f \in {"json", "torn"}, partFile' = [partFile EXCEPT ![p] = f],
           partDone' = [partDone EXCEPT ![p] = IF f = "json" THEN c ELSE partDone[p]]
    PROVE  TypeOK' /\ BlobInv'
<1>1. /\ rPc[d] = "fetch" /\ p \in parts[d] /\ wPc[d][p] \in Saving \cup {"copy"}
      /\ c \in 0..PartSize /\ 0 \in 0..PartSize /\ c + 0 = c
  BY WorkerAtWork
<1>2. /\ partFile' \in [PartIds -> {"absent", "torn", "json"}] /\ partDone' \in [PartIds -> 0..PartSize]
      /\ fileLen' \in 0..NumParts /\ written' \in [PartIds -> 0..PartSize]
      /\ \A x \in PartIds : written[x] <= written[x]
  BY <1>1 DEF TypeOK
<1>3. /\ partFile'[p] = f /\ (f = "json" => partDone'[p] = c)
      /\ \A x \in PartIds \ {p} : partFile'[x] = partFile[x] /\ partDone'[x] = partDone[x]
  BY DEF TypeOK
<1>4. ASSUME ResumeSound
      PROVE  /\ Present' = Present /\ FilesTrue'
             /\ 0 \in Present => c + 0 <= written'[p]
  <2>1. /\ p \in Present
        /\ 0 \in Present => c <= written[p]
    BY <1>1, <1>4 DEF ResumeSound, DownloadTrue
  <2>2. Present' = Present
    BY <1>3, <2>1 DEF Present
  <2>3. ASSUME 0 \in Present, NEW x \in PartIds, partFile'[x] = "json" PROVE partDone'[x] <= written[x]
    <3>1. CASE x = p
      BY <1>3, <2>1, <2>3, <3>1
    <3>2. CASE x # p
      BY <1>3, <1>4, <2>3, <3>2 DEF ResumeSound, FilesTrue
    <3>3. QED
      BY <3>1, <3>2
  <2>4. FilesTrue'
    BY <1>4, <2>2, <2>3 DEF ResumeSound, FilesTrue
  <2>5. QED
    BY <1>1, <2>1, <2>2, <2>4
<1>5. QED
  BY <1>1, <1>2, <1>4, WorkerMoveKept

\* The progress of a part is saved.
LEMMA SavePartKept ==
    ASSUME TypeOK, BlobInv, NEW d \in Downloads, NEW p \in PartIds, SavePart(d, p)
    PROVE  TypeOK' /\ BlobInv'
<1>1. PICK c : c = completed[d][p] + got[d][p]
  OBVIOUS
<1>2. /\ wPc[d][p] \in Saving /\ UNCHANGED <<fileLen, written>>
      /\ completed' = [completed EXCEPT ![d][p] = c] /\ got' = [got EXCEPT ![d][p] = 0]
      /\ partFile' = [partFile EXCEPT ![p] = "json"] /\ partDone' = [partDone EXCEPT ![p] = c]
  BY <1>1 DEF SavePart
<1>3. /\ tries[d][p] < maxRetries /\ tries[d][p] \in Nat /\ maxRetries \in Nat
      /\ c <= PartSize /\ c + 0 = c /\ (wPc[d][p] = "saveOver" => c = PartSize)
  BY <1>1, <1>2, WorkerAtWork, RetriesAssumption
<1>4. PICK w \in {"copy", "failed", "over"}, t \in {tries[d][p], tries[d][p] + 1} :
         /\ wPc' = [wPc EXCEPT ![d][p] = w] /\ tries' = [tries EXCEPT ![d][p] = t]
         /\ w = "copy" => t < maxRetries
         /\ w = "over" => c = PartSize
  <2>1. tries = [tries EXCEPT ![d][p] = tries[d][p]]
    BY SamePart DEF TypeOK
  <2>2. CASE Retry(d, p)
    BY <2>2 DEF Retry
  <2>3. CASE wPc[d][p] = "saveOver" /\ wPc' = [wPc EXCEPT ![d][p] = "over"] /\ UNCHANGED tries
    BY <1>3, <2>1, <2>3
  <2>4. CASE wPc' = [wPc EXCEPT ![d][p] = "copy"] /\ UNCHANGED tries
    BY <1>3, <2>1, <2>4
  <2>5. CASE wPc' = [wPc EXCEPT ![d][p] = "failed"] /\ UNCHANGED tries
    BY <2>1, <2>5
  <2>6. QED
    BY <2>2, <2>3, <2>4, <2>5 DEF SavePart
<1>5. t \in 0..maxRetries
  BY <1>3, <1>4
<1>6. WorkerMoves(d, p, c, w, 0, t)
  BY <1>2, <1>4 DEF WorkerMoves
<1>7. ProgressSound(c, w, 0, t) /\ w \in WorkerPcs
  BY <1>3, <1>4 DEF ProgressSound, Saving, WorkerPcs
<1>8. QED
  BY <1>1, <1>2, <1>5, <1>6, <1>7, WorkerSaves DEF WorkerSteps

\* The progress of a part cannot be saved.
LEMMA SaveFailsKept ==
    ASSUME TypeOK, BlobInv, NEW d \in Downloads, NEW p \in PartIds, SaveFails(d, p)
    PROVE  TypeOK' /\ BlobInv'
<1>1. PICK c : c = completed[d][p] + got[d][p]
  OBVIOUS
<1>2. /\ wPc[d][p] \in Saving /\ UNCHANGED <<partDone, fileLen, written, tries>>
      /\ completed' = [completed EXCEPT ![d][p] = c] /\ got' = [got EXCEPT ![d][p] = 0]
      /\ partFile' = [partFile EXCEPT ![p] = "torn"]
  BY <1>1 DEF SaveFails
<1>3. /\ tries[d][p] < maxRetries /\ tries[d][p] \in 0..maxRetries
      /\ c <= PartSize /\ c + 0 = c
  BY <1>1, <1>2, WorkerAtWork, RetriesAssumption DEF TypeOK
<1>4. PICK w \in {"copy", "failed"} : wPc' = [wPc EXCEPT ![d][p] = w]
  BY DEF SaveFails
<1>5. WorkerMoves(d, p, c, w, 0, tries[d][p]) /\ partDone' = [partDone EXCEPT ![p] = partDone[p]]
  BY <1>2, <1>4, SamePart DEF WorkerMoves, TypeOK
<1>6. ProgressSound(c, w, 0, tries[d][p]) /\ w \in WorkerPcs
  BY <1>3, <1>4 DEF ProgressSound, Saving, WorkerPcs
<1>7. "torn" # "json"
  OBVIOUS
<1>8. QED
  BY <1>1, <1>2, <1>3, <1>5, <1>6, <1>7, WorkerSaves DEF WorkerSteps

-----------------------------------------------------------------------------
(***************************************************************************)
(* The process ends and is started again                                   *)
(***************************************************************************)

\* No download is in memory: nothing waits and nothing works.
NothingInMemory ==
    /\ parts = [d \in Downloads |-> {}]
    /\ completed = [d \in Downloads |-> [p \in PartIds |-> 0]]
    /\ references = [d \in Downloads |-> 0]
    /\ rPc = [d \in Downloads |-> "off"]
    /\ removed = [d \in Downloads |-> 0]
    /\ wPc = [d \in Downloads |-> [p \in PartIds |-> "off"]]
    /\ got = [d \in Downloads |-> [p \in PartIds |-> 0]]
    /\ tries = [d \in Downloads |-> [p \in PartIds |-> 0]]
    /\ \A q \in Pulls : mine[q] = None /\ pc[q] \notin Preparing

\* What the invariants say of the memory.
MemorySound ==
    /\ RefsCounted /\ \A d \in Downloads : Sound(d) /\ DownloadTrue(d)
    /\ parts \in [Downloads -> SUBSET PartIds]
    /\ completed \in [Downloads -> [PartIds -> 0..PartSize]]
    /\ references \in [Downloads -> 0..Cardinality(Pulls)]
    /\ removed \in [Downloads -> 0..NumParts]
    /\ wPc \in [Downloads -> [PartIds -> WorkerPcs]]
    /\ got \in [Downloads -> [PartIds -> 0..PartSize]]
    /\ tries \in [Downloads -> [PartIds -> 0..maxRetries]]

\* A server without downloads satisfies what the invariant says of them.
LEMMA EmptyMemorySound == NothingInMemory => MemorySound
<1> SUFFICES ASSUME NothingInMemory PROVE MemorySound
  OBVIOUS
<1>1. \A d \in Downloads : Waiters(d) = {}
  BY PullsAssumption DEF NothingInMemory, Waiters
<1>2. RefsCounted
  BY <1>1, FS_EmptySet DEF NothingInMemory, RefsCounted
<1>3. ASSUME NEW d \in Downloads PROVE Sound(d) /\ DownloadTrue(d)
  <2>1. pc[d] \notin Preparing /\ rPc[d] = "off" /\ removed[d] = 0
    BY DEF NothingInMemory
  <2>2. \A p \in PartIds : completed[d][p] = 0 /\ got[d][p] = 0 /\ tries[d][p] = 0 /\ wPc[d][p] = "off"
    BY DEF NothingInMemory
  <2>3. \A p \in PartIds : WorkerSound(d, p)
    BY <2>1, <2>2, PartsAssumption DEF WorkerSound, Saving
  <2>4. QED
    BY <2>1, <2>3 DEF Sound, PartsSound, DownloadTrue
<1>4. Cardinality(Pulls) \in Nat
  BY PullsAssumption, FS_CardinalityType
<1>5. QED
  BY <1>2, <1>3, <1>4, PartsAssumption, RetriesAssumption DEF NothingInMemory, MemorySound, WorkerPcs

\* The part files that are being written are known to their download, or
\* are the one that newPart makes.
LEMMA WritesAreKnown ==
    ASSUME TypeOK, BlobInv, ResumeSound
    PROVE  \/ InWrite \subseteq Present
           \/ \E n \in PartIds : Present = 0..(n - 1) /\ InWrite \subseteq {n}
<1>1. \A d \in Downloads, p \in PartIds :
         wPc[d][p] \in Saving => rPc[d] = "fetch" /\ p \in parts[d] /\ pc[d] \notin Preparing
  BY WorkerAtWork
<1>2. \A d, e \in Downloads : Writing(d) /\ Writing(e) => d = e
  BY DEF BlobInv, ControlInv, WriterIsEntry
<1>3. CASE \E q \in Pulls : pc[q] = "newPart"
  <2>1. PICK q \in Pulls : pc[q] = "newPart"
    BY <1>3
  <2>2. PICK n \in PartIds : n = Cardinality(parts[q]) /\ Present = 0..(n - 1)
    BY <2>1, NewPartIs
  <2>3. \A d \in Downloads, p \in PartIds : wPc[d][p] \notin Saving
    BY <1>1, <1>2, <2>1
  <2>4. \A u \in Pulls : pc[u] = "newPart" => u = q
    BY <1>2, <2>1
  <2>5. InWrite \subseteq {n}
    BY <2>2, <2>3, <2>4 DEF InWrite
  <2>6. QED
    BY <2>2, <2>5
<1>4. CASE ~\E q \in Pulls : pc[q] = "newPart"
  <2>1. ASSUME NEW p \in InWrite PROVE p \in Present
    <3>1. PICK d \in Downloads : p \in PartIds /\ wPc[d][p] \in Saving
      BY <1>4, <2>1 DEF InWrite
    <3>2. rPc[d] = "fetch" /\ p \in parts[d]
      BY <1>1, <3>1
    <3>3. parts[d] = Present
      BY <3>2 DEF ResumeSound, DownloadTrue
    <3>4. QED
      BY <3>2, <3>3
  <2>2. QED
    BY <2>1
<1>5. QED
  BY <1>3, <1>4

\* The end of the process leaves the files, whose claims stay true.
LEMMA ProcessEndsKept ==
    ASSUME TypeOK, BlobInv, ProcessEnds, ControlInv', faults' \in 0..MaxFaults
    PROVE  TypeOK' /\ BlobInv'
<1>1. UNCHANGED <<partDone, fileLen, written, blob>>
  BY DEF ProcessEnds
<1>2. NothingInMemory'
  <2>1. \A q \in Pulls : mine'[q] = None /\ pc'[q] \notin Preparing
    BY DEF ProcessEnds
  <2>2. QED
    BY <2>1 DEF ProcessEnds, NothingInMemory
<1>3. MemorySound'
  BY <1>2, EmptyMemorySound, PTL
<1>4. PICK torn \in SUBSET InWrite :
         partFile' = [p \in PartIds |-> IF p \in torn THEN "torn" ELSE partFile[p]]
  BY DEF ProcessEnds
<1>5. TypeOK'
  <2>1. partFile' \in [PartIds -> {"absent", "torn", "json"}]
    BY <1>4 DEF TypeOK
  <2>2. /\ cancelFunc' \in [Downloads -> {"nil", "set", "called"}]
        /\ ctxOpen' \in [Pulls -> BOOLEAN]
    BY DEF ProcessEnds
  <2>3. ControlTypes'
    BY DEF ControlInv
  <2>4. QED
    BY <1>1, <1>3, <2>1, <2>2, <2>3 DEF TypeOK, ControlTypes, MemorySound, WorkerPcs
<1>6. ASSUME ResumeSound PROVE ResumeSound'
  <2>1. Present' = Present \cup torn
    <3>1. torn \subseteq PartIds
      BY DEF InWrite
    <3>2. QED
      BY <1>4, <3>1 DEF Present
  <2>2. \A p \in PartIds : partFile'[p] = "json" => partFile[p] = "json" /\ p \in Present
    BY <1>4 DEF Present
  <2>3. CASE InWrite \subseteq Present
    <3>1. Present' = Present
      BY <2>1, <2>3
    <3>2. QED
      BY <1>1, <1>3, <1>6, <2>2, <3>1 DEF ResumeSound, FilesTrue, MemorySound
  <2>4. CASE \E n \in PartIds : Present = 0..(n - 1) /\ InWrite \subseteq {n}
    <3>1. PICK n \in PartIds : Present = 0..(n - 1) /\ InWrite \subseteq {n}
      BY <2>4
    <3>2. \A p \in Present : 0 \in Present
      <4>1. n \in Nat
        BY PartsAssumption DEF PartIds
      <4>2. QED
        BY <3>1, <4>1
    <3>3. \A p \in PartIds : partFile'[p] = "json" => partDone'[p] <= written'[p]
      BY <1>1, <1>6, <2>2, <3>2 DEF ResumeSound, FilesTrue
    <3>4. Present' = Present \/ Present' = 0..n
      <4>1. torn = {} \/ torn = {n}
        BY <3>1
      <4>2. QED
        BY <2>1, <3>1, <4>1, PartsFinite
    <3>5. FilesTrue'
      BY <1>6, <3>3, <3>4 DEF ResumeSound, FilesTrue
    <3>6. QED
      BY <1>1, <1>3, <1>6, <3>5 DEF ResumeSound, MemorySound
  <2>5. QED
    BY <1>6, <2>3, <2>4, WritesAreKnown
<1>7. QED
  BY <1>3, <1>5, <1>6 DEF BlobInv, Sound, MemorySound

\* A crash and a panic are such ends.
LEMMA CrashKept ==
    ASSUME TypeOK, BlobInv, Crash \/ \E q \in Pulls : ReleasePanics(q)
    PROVE  TypeOK' /\ BlobInv'
<1>1. ProcessEnds
  BY DEF Crash, ReleasePanics
<1>2. ControlInv'
  BY RestartKeepsInv, PullStepKeepsInv DEF BlobInv, WaitSteps
<1>3. faults' \in 0..MaxFaults
  BY FaultsAssumption DEF Crash, ReleasePanics, Happens, TypeOK
<1>4. QED
  BY <1>1, <1>2, <1>3, ProcessEndsKept

\* The server starts, and may prune old files.
LEMMA StartKept ==
    ASSUME TypeOK, BlobInv, Start
    PROVE  TypeOK' /\ BlobInv'
<1>0. ControlInv' /\ ControlTypes' /\ RefsCounted
  BY RestartKeepsInv DEF BlobInv, ControlInv
<1>1. UNCHANGED <<partDone, blob, parts, completed, cancelFunc, references, rPc, removed, wPc, got, tries,
                  mine, ctxOpen, faults>>
  BY DEF Start, objects, runVars, workerVars
<1>2. \A q \in Pulls : pc'[q] = IF pc[q] = "down" THEN "new" ELSE pc[q]
  BY DEF Start
<1>3. PICK old \in SUBSET PartIds, oldData \in BOOLEAN :
         /\ "prune" \notin Faults => old = {} /\ ~oldData
         /\ partFile' = [p \in PartIds |-> IF p \in old THEN "absent" ELSE partFile[p]]
         /\ fileLen' = IF oldData THEN 0 ELSE fileLen
         /\ written' = [p \in PartIds |-> IF oldData THEN 0 ELSE written[p]]
  BY DEF Start
<1>4. TypeOK'
  <2>1. /\ partFile' \in [PartIds -> {"absent", "torn", "json"}]
        /\ fileLen' \in 0..NumParts /\ written' \in [PartIds -> 0..PartSize]
    BY <1>3, PartsAssumption DEF TypeOK
  <2>2. QED
    BY <1>0, <1>1, <2>1 DEF TypeOK, ControlTypes
<1>5. RefsCounted'
  BY <1>0, <1>1, <1>2, RefsKept
<1>6. \A d \in Downloads : Sound(d)'
  <2>1. \A d \in Downloads : Sound(d)
    BY DEF BlobInv, Sound
  <2>2. QED
    BY <1>1, <1>2, <2>1, SoundKept
<1>7. ASSUME "prune" \notin Faults PROVE ResumeSound'
  <2>1. partFile' = partFile /\ fileLen' = fileLen /\ written' = written
    BY <1>3, <1>7 DEF TypeOK
  <2>2. QED
    BY <1>1, <1>2, <1>7, <2>1, ResumeKept DEF BlobInv
<1>8. QED
  BY <1>0, <1>4, <1>5, <1>6, <1>7 DEF BlobInv, Sound

\* There are no files and no downloads at first.
LEMMA BlobInit == Init => TypeOK /\ BlobInv
<1> SUFFICES ASSUME Init PROVE TypeOK /\ BlobInv
  OBVIOUS
<1>1. ControlInv /\ ControlTypes
  BY ControlInvInit DEF ControlInv
<1>2. NothingInMemory
  BY DEF Init, NothingInMemory
<1>3. /\ partFile \in [PartIds -> {"absent", "torn", "json"}] /\ partDone \in [PartIds -> 0..PartSize]
      /\ fileLen \in 0..NumParts /\ written \in [PartIds -> 0..PartSize]
      /\ blob \in {"absent", "whole", "short", "holed"} /\ faults \in 0..MaxFaults
      /\ cancelFunc \in [Downloads -> {"nil", "set", "called"}] /\ ctxOpen \in [Pulls -> BOOLEAN]
  BY PartsAssumption, FaultsAssumption DEF Init
<1>4. TypeOK
  BY <1>1, <1>2, <1>3, EmptyMemorySound DEF TypeOK, ControlTypes, MemorySound, WorkerPcs
<1>5. ResumeSound
  BY <1>2, EmptyMemorySound DEF ResumeSound, FilesTrue, Present, Init, MemorySound
<1>6. QED
  BY <1>1, <1>2, <1>4, <1>5, EmptyMemorySound DEF BlobInv, Sound, MemorySound

\* BlobInv is inductive, with the types.
LEMMA BlobNext == TypeOK /\ BlobInv /\ [Next]_vars => TypeOK' /\ BlobInv'
<1> SUFFICES ASSUME TypeOK, BlobInv, [Next]_vars PROVE TypeOK' /\ BlobInv'
  OBVIOUS
<1>1. CASE Crash \/ Start
  BY <1>1, CrashKept, StartKept
<1>2. ASSUME NEW q \in Pulls,
             \/ PullSteps(q) \/ WaitSteps(q) \/ Report(q) \/ Reported(q) \/ Verify(q)
             \/ ClientLeaves(q) \/ RunSteps(q)
             \/ \E p \in PartIds : Receive(q, p) \/ WorkerSteps(q, p)
      PROVE  TypeOK' /\ BlobInv'
  <2>1. CASE PullSteps(q)
    BY <2>1, QuietKept, PrepareKept, HeadOkKept, NewPartKept, NewPartFailsKept, GoRunKept DEF PullSteps
  <2>2. CASE WaitSteps(q) \/ Report(q) \/ Reported(q) \/ Verify(q) \/ ClientLeaves(q)
    BY <2>2, QuietKept, CrashKept DEF WaitSteps
  <2>3. CASE RunSteps(q)
    BY <2>3, RunOverKept, RunStartKept, RunFetchKept, RunFetchedKept, RunRemovePartKept, RunRenameKept
    DEF RunSteps
  <2>4. CASE \E p \in PartIds : Receive(q, p) \/ WorkerSteps(q, p)
    BY <2>4, ReceiveKept, CopyEndsKept, CopyFailsKept, SavePartKept, SaveFailsKept DEF WorkerSteps
  <2>5. QED
    BY <1>2, <2>1, <2>2, <2>3, <2>4
<1>3. CASE UNCHANGED vars
  <2>1. UNCHANGED <<partFile, partDone, fileLen, written, blob, manager, parts, completed, done, err,
                    cancelFunc, references, rPc, removed, wPc, got, tries, pc, mine, ctxOpen, faults>>
    BY <1>3 DEF vars, files, objects, runVars, workerVars, pullVars
  <2>2. TypeOK'
    BY <2>1 DEF TypeOK
  <2>3. ControlInv'
    BY <1>3, ControlInvNext DEF BlobInv
  <2>4. RefsCounted'
    BY <2>1, RefsKept DEF BlobInv
  <2>5. \A d \in Downloads : Sound(d)'
    BY <2>1, SoundKept DEF BlobInv, Sound
  <2>6. "prune" \notin Faults => ResumeSound'
    BY <2>1, ResumeKept DEF BlobInv
  <2>7. QED
    BY <2>2, <2>3, <2>4, <2>5, <2>6 DEF BlobInv, Sound
<1>4. QED
  BY <1>1, <1>2, <1>3 DEF Next

-----------------------------------------------------------------------------
(***************************************************************************)
(* The theorems                                                            *)
(***************************************************************************)

\* The variables of download.go have the values that TypeOK gives them: the
\* reference count never exceeds the number of pulls nor falls below zero, no
\* part gets more data than it holds, and no index leaves the parts.
THEOREM BlobTypeCorrect == Spec => []TypeOK
  BY BlobInit, BlobNext, PTL DEF Spec

\* The inductive invariant of the shared download holds in every state: who
\* writes, who waits, how far each part is, and what the files are worth.
THEOREM SharedDownload == Spec => []BlobInv
  BY BlobInit, BlobNext, PTL DEF Spec

\* No two downloads of a blob write its files at the same time: LoadOrStore
\* makes one entry, and both places that delete it have stopped writing.
THEOREM SingleWriter == Spec => []OneWriter
  <1>1. BlobInv => OneWriter
    BY DEF BlobInv, ControlInv, WriterIsEntry, OneWriter
  <1>2. QED
    BY <1>1, SharedDownload, PTL

\* A pull that is told of success finds a blob: run sets err before it closes
\* the done channel, and returns no error only after the rename.
THEOREM SuccessMeansBlob == Spec => []PullOkMeansBlob
  <1>1. BlobInv => PullOkMeansBlob
    BY DEF BlobInv, ControlInv
  <1>2. QED
    BY <1>1, SharedDownload, PTL

\* As long as nothing is pruned, the data file that is renamed has no hole,
\* however often the download was resumed after crashes, stalls, unexpected
\* ends and full disks, and although a crash can interrupt the removal of the
\* part files.
THEOREM ResumedWithoutHoles == Spec => []BlobNotHoled
  <1>1. BlobInv => BlobNotHoled
    BY DEF BlobInv, ResumeSound, BlobNotHoled
  <1>2. QED
    BY <1>1, SharedDownload, PTL

=============================================================================
