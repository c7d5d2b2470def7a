-------------------------- MODULE ModelStoreProofs --------------------------
(***************************************************************************)
(* Proofs about ModelStore, for any number of requests, names, layers and  *)
(* crashes.                                                                *)
(***************************************************************************)
EXTENDS ModelStore, TLAPS

-----------------------------------------------------------------------------
(***************************************************************************)
(* Types                                                                   *)
(***************************************************************************)

\* What is read of a name is a manifest when it can be parsed.
LEMMA ParsedType ==
    ASSUME TypeOK, NEW n \in Names
    PROVE  /\ PathForName(n) \in Dirs
           /\ Parsed(n) \in Files
           /\ Readable(n) => Parsed(n) \in Manifest
           /\ ParsedOrNone(n) \in Manifest
<1>1. PathForName(n) \in Dirs
  BY DEF PathForName, Dirs
<1>2. Parsed(n) \in Files
  BY <1>1 DEF Parsed, TypeOK
<1>3. QED
  BY <1>1, <1>2 DEF Files, Readable, ParsedOrNone, Manifest

\* What the scan of all manifests finds in use is a set of layers.
LEMMA InUseType ==
    ASSUME TypeOK
    PROVE  InUse \in Manifest
BY ParsedType DEF InUse, Manifest

\* The initial handler.
LEMMA IdleOK == HandlerOK(Idle) /\ Idle.pc = "idle"
BY DEF HandlerOK, Idle, Handler, Steps, Kinds, PullKinds, Dirs, Files, Manifest

\* A handler that goes to another state of its type keeps the types of all.
LEMMA MoveOK ==
    ASSUME TypeOK, NEW s \in Slots, NEW r, HandlerOK(r), Become(s, r)
    PROVE  /\ req' \in [Slots -> Handler]
           /\ \A t \in Slots : HandlerOK(req'[t])
BY DEF TypeOK, Become, HandlerOK

\* A blob put in its place is there, and no other is lost.
LEMMA PutOK ==
    ASSUME TypeOK, NEW l \in Layers, Put(l)
    PROVE  /\ blobs' \in Manifest /\ unwritten' \in SUBSET Configs
           /\ l \in blobs' /\ blobs \subseteq blobs'
           /\ \A X : X \subseteq blobs \cup unwritten => X \subseteq blobs' \cup unwritten'
BY DEF Put, TypeOK, Manifest

\* What a handler becomes at the end of its work.
LEMMA EndOK ==
    ASSUME NEW r, HandlerOK(r), r.name \in Names
    PROVE  HandlerOK(Finished(r)) /\ HandlerOK(Failed(r))
<1>1. ASSUME NEW pc \in {"rebase", "layers"}, NEW kind \in {"create", "told"}, r.then # None
      PROVE  HandlerOK(Resume(r, pc, kind))
  <2>1. r.then \in Names /\ r.keep \in Manifest
    BY <1>1 DEF HandlerOK, Handler
  <2> DEFINE new == Resume(r, pc, kind)
  <2>2. Idle \in Handler /\ Idle.goal \in Manifest
    BY IdleOK DEF HandlerOK, Idle
  <2>3. /\ new \in Handler
        /\ new.pc = pc /\ new.kind = kind /\ new.name = r.then /\ new.from = r.name
        /\ new.goal = Idle.goal
    BY <1>1, <2>1, <2>2 DEF Resume, Handler, Steps, Kinds
  <2> HIDE DEF new
  <2>4. HandlerOK(new)
    BY <1>1, <2>1, <2>2, <2>3 DEF HandlerOK
  <2>5. QED
    BY <2>4 DEF new
<1>2. QED
  BY <1>1, IdleOK DEF Finished, Failed

\* A handler that has written its manifest goes on to its removals.
LEMMA AfterWriteOK ==
    ASSUME NEW r, HandlerOK(r), r.name \in Names
    PROVE  HandlerOK(AfterWrite(r))
<1>1. CASE r.kind \in {"shards", "copy"} \/ NoPrune \/ r.old = {}
  BY <1>1, EndOK DEF AfterWrite
<1>2. CASE ~(r.kind \in {"shards", "copy"} \/ NoPrune \/ r.old = {})
  BY <1>2 DEF AfterWrite, HandlerOK, Handler, Steps
<1>3. QED
  BY <1>1, <1>2

\* A request that begins keeps the types if its handler has one.
LEMMA BeginOK ==
    ASSUME TypeOK, NEW s \in Slots, NEW r, HandlerOK(r), Begin(s, r), UNCHANGED cache
    PROVE  TypeOK'
<1>1. /\ req' \in [Slots -> Handler]
      /\ \A t \in Slots : HandlerOK(req'[t])
  BY MoveOK DEF Begin
<1>2. QED
  BY <1>1 DEF Begin, TypeOK, store, layers, Risks

\* The steps of a pull keep the types.
LEMMA PullStepType ==
    ASSUME TypeOK, NEW s \in Slots, PullStep(s)
    PROVE  TypeOK'
<1> DEFINE r == req[s]
<1>0. HandlerOK(r) /\ r \in Handler
  BY DEF TypeOK
<1> HIDE DEF r
<1>1. ASSUME NEW n \in Names, PullModel(s, n) PROVE TypeOK'
  <2>1. HandlerOK([Idle EXCEPT !.pc = "probe", !.kind = "pull", !.name = n])
    BY DEF HandlerOK, Idle, Handler, Steps, Kinds, PullKinds, Dirs, Files, Manifest
  <2>2. QED
    BY <1>1, <2>1, BeginOK DEF PullModel
<1>2. ASSUME NEW c \in Contents, PullShards(s, c) PROVE TypeOK'
  <2>1. HandlerOK([r EXCEPT !.pc = "fetch", !.kind = "shards", !.goal = c, !.todo = c])
    BY <1>0, <1>2, ContentsAssumption DEF r, PullShards, HandlerOK, Handler, Steps, Kinds, PullKinds, Files, Manifest
  <2>2. QED
    BY <1>2, <2>1, MoveOK DEF r, PullShards, TypeOK, store, layers, history
<1>3. ASSUME NEW c \in Contents, PullUnified(s, c) PROVE TypeOK'
  <2>1. HandlerOK([r EXCEPT !.pc = "fetch", !.kind = "pull", !.goal = c, !.todo = c,
                            !.old = ParsedOrNone(r.name)])
    BY <1>0, <1>3, ParsedType, ContentsAssumption
    DEF r, PullUnified, HandlerOK, Handler, Steps, Kinds, PullKinds, Files, Manifest
  <2>2. QED
    BY <1>3, <2>1, MoveOK DEF r, PullUnified, TypeOK, store, layers, history
<1>4. ASSUME NEW l \in Layers, FetchLayer(s, l) PROVE TypeOK'
  <2> DEFINE fresh == IF l \notin blobs THEN r.fresh \cup {l} ELSE r.fresh
             next == IF r.todo # {l} THEN "fetch" ELSE IF fresh # {} THEN "verify" ELSE "truncate"
             new == [r EXCEPT !.pc = next, !.todo = @ \ {l}, !.old = @ \ {l}, !.fresh = fresh]
  <2>1. fresh \in Manifest /\ next \in {"fetch", "verify", "truncate"}
    BY <1>0 DEF Handler, Manifest
  <2> HIDE DEF fresh, next
  <2>2. HandlerOK(new)
    BY <1>0, <1>4, <2>1 DEF r, FetchLayer, HandlerOK, Handler, Steps, Files, Manifest
  <2>3. Become(s, new) /\ Put(l) /\ UNCHANGED <<file, metadata, cache, history, risk>>
    BY <1>4 DEF r, FetchLayer, fresh, next
  <2>4. QED
    BY <2>2, <2>3, MoveOK, PutOK DEF TypeOK, history
<1>5. ASSUME NEW l \in Layers, VerifyLayer(s, l) PROVE TypeOK'
  <2>1. HandlerOK(Failed(r))
    BY <1>0, <1>5, EndOK DEF r, VerifyLayer, HandlerOK
  <2>2. HandlerOK([r EXCEPT !.pc = IF r.fresh = {l} THEN "truncate" ELSE "verify", !.fresh = @ \ {l}])
    BY <1>0, <1>5 DEF r, VerifyLayer, HandlerOK, Handler, Steps, Files, Manifest
  <2>3. QED
    BY <1>5, <2>1, <2>2, MoveOK DEF r, VerifyLayer, TypeOK, store, layers, history
<1>6. CASE TruncateManifest(s)
  <2>1. HandlerOK([r EXCEPT !.pc = "write"])
    BY <1>0, <1>6 DEF r, TruncateManifest, HandlerOK, Handler, Steps
  <2>2. file' \in [Dirs -> [Names -> Files]] /\ risk' \in SUBSET Risks
    BY <1>0, <1>6 DEF r, TruncateManifest, HandlerOK, TypeOK, Files, Risks, WriteDir, Dirs
  <2>3. QED
    BY <1>6, <2>1, <2>2, MoveOK DEF r, TruncateManifest, TypeOK, layers, history
<1>7. CASE WriteManifest(s)
  <2>1. HandlerOK(AfterWrite(r))
    BY <1>0, <1>7, AfterWriteOK DEF r, WriteManifest, HandlerOK
  <2>2. file' \in [Dirs -> [Names -> Files]]
    BY <1>0, <1>7 DEF r, WriteManifest, HandlerOK, Handler, TypeOK, WriteDir, Dirs
  <2>3. QED
    BY <1>7, <2>1, <2>2, MoveOK DEF r, WriteManifest, TypeOK, layers, history
<1>8. CASE WriteUnlinked(s)
  <2>1. HandlerOK(AfterWrite(r))
    BY <1>0, <1>8, AfterWriteOK DEF r, WriteUnlinked, HandlerOK
  <2>2. QED
    BY <1>8, <2>1, MoveOK DEF r, WriteUnlinked, TypeOK, store, layers, history
<1>9. CASE Fail(s)
  <2>1. HandlerOK(Failed(r))
    BY <1>0, <1>9, EndOK DEF r, Fail, HandlerOK
  <2>2. QED
    BY <1>9, <2>1, MoveOK DEF r, Fail, TypeOK, store, layers, history
<1>10. ASSUME NEW l \in Layers, MergeShards(s, l) PROVE TypeOK'
  <2>1. HandlerOK([r EXCEPT !.todo = @ \ {l}])
    BY <1>0, <1>10 DEF r, MergeShards, HandlerOK, Handler, Manifest
  <2>2. QED
    BY <1>10, <2>1, MoveOK, PutOK DEF r, MergeShards, TypeOK, history
<1>11. ASSUME NEW l \in Layers, NEW made \in BOOLEAN, WriteConfig(s, l, made) PROVE TypeOK'
  <2>1. HandlerOK([r EXCEPT !.pc = "truncate", !.todo = {}])
    BY <1>0, <1>11 DEF r, WriteConfig, HandlerOK, Handler, Steps, Manifest
  <2>2. blobs' \in Manifest /\ unwritten' \in SUBSET Configs
    <3>1. CASE made
      BY <1>11, <3>1, PutOK DEF WriteConfig
    <3>2. CASE ~made
      BY <1>11, <3>2 DEF WriteConfig, TypeOK
    <3>3. QED
      BY <3>1, <3>2
  <2>3. QED
    BY <1>11, <2>1, <2>2, MoveOK DEF r, WriteConfig, TypeOK, history
<1>12. CASE ShardsFail(s)
  <2>1. HandlerOK([r EXCEPT !.pc = "probe", !.goal = {}, !.todo = {}])
    BY <1>0, <1>12 DEF r, ShardsFail, HandlerOK, Handler, Steps, Files, Manifest
  <2>2. QED
    BY <1>12, <2>1, MoveOK DEF r, ShardsFail, TypeOK, store, layers, history
<1>13. QED
  BY <1>1, <1>2, <1>3, <1>4, <1>5, <1>6, <1>7, <1>8, <1>9, <1>10, <1>11, <1>12 DEF PullStep

\* So do the steps that remove layers,
LEMMA RemoveStepType ==
    ASSUME TypeOK, NEW s \in Slots, RemoveStep(s)
    PROVE  TypeOK'
<1> DEFINE r == req[s]
<1>0. HandlerOK(r) /\ r \in Handler
  BY DEF TypeOK
<1> HIDE DEF r
<1>1. CASE ScanManifests(s)
  <2>1. HandlerOK(Finished(r))
    BY <1>0, <1>1, EndOK DEF r, ScanManifests, HandlerOK
  <2>2. HandlerOK([r EXCEPT !.pc = "remove", !.old = {}, !.todo = r.old \ InUse])
    BY <1>0, <1>1 DEF r, ScanManifests, HandlerOK, Handler, Steps, Manifest
  <2>3. QED
    BY <1>1, <2>1, <2>2, MoveOK DEF r, ScanManifests, TypeOK, store, layers, history
<1>2. ASSUME NEW l \in Layers, RemoveBlob(s, l) PROVE TypeOK'
  <2>1. HandlerOK([r EXCEPT !.todo = @ \ {l}, !.gone = @ \cup {l}])
    BY <1>0, <1>2 DEF r, RemoveBlob, HandlerOK, Handler, Manifest
  <2>2. QED
    BY <1>2, <2>1, MoveOK DEF r, RemoveBlob, TypeOK, Manifest, layers, history
<1>3. ASSUME NEW l \in Layers, RemoveMetadata(s, l) PROVE TypeOK'
  <2>1. HandlerOK(Finished(r))
    BY <1>0, <1>3, EndOK DEF r, RemoveMetadata, HandlerOK
  <2>2. HandlerOK([r EXCEPT !.gone = @ \ {l}])
    BY <1>0, <1>3 DEF r, RemoveMetadata, HandlerOK, Handler, Manifest
  <2>3. QED
    BY <1>3, <2>1, <2>2, MoveOK DEF r, RemoveMetadata, DropMetadata, TypeOK, Manifest, layers
<1>4. CASE SkipRemoval(s)
  <2>1. HandlerOK(Finished(r))
    BY <1>0, <1>4, EndOK DEF r, SkipRemoval, HandlerOK
  <2>2. QED
    BY <1>4, <2>1, MoveOK DEF r, SkipRemoval, TypeOK, store, layers, history
<1>5. ASSUME NEW l \in Layers, KeepBlob(s, l) PROVE TypeOK'
  <2> DEFINE rest == IF r.kind = "pull" THEN r.todo \ {l} ELSE {}
  <2>1. HandlerOK(Finished(r))
    BY <1>0, <1>5, EndOK DEF r, KeepBlob, HandlerOK
  <2>2. rest \in Manifest
    BY <1>0 DEF Handler, Manifest
  <2>3. /\ \/ Become(s, Finished(r))
           \/ Become(s, [r EXCEPT !.todo = rest])
        /\ UNCHANGED <<store, cache, history, risk>>
    BY <1>5 DEF r, KeepBlob
  <2> HIDE DEF rest
  <2>4. HandlerOK([r EXCEPT !.todo = rest])
    BY <1>0, <2>2 DEF HandlerOK, Handler
  <2>5. QED
    BY <2>1, <2>3, <2>4, MoveOK DEF TypeOK, store, layers, history
<1>6. QED
  BY <1>1, <1>2, <1>3, <1>4, <1>5 DEF RemoveStep

\* those of a create,
LEMMA CreateStepType ==
    ASSUME TypeOK, NEW s \in Slots, CreateStep(s)
    PROVE  TypeOK'
<1> DEFINE r == req[s]
<1>0. HandlerOK(r) /\ r \in Handler
  BY DEF TypeOK
<1> HIDE DEF r
<1>1. ASSUME NEW n \in Names, NEW f \in Names, CreateFrom(s, n, f) PROVE TypeOK'
  <2>1. HandlerOK([Idle EXCEPT !.pc = "base", !.kind = "create", !.name = n, !.from = f,
                               !.old = ParsedOrNone(n)])
    BY ParsedType DEF HandlerOK, Idle, Handler, Steps, Kinds, PullKinds, Dirs, Files, Manifest
  <2>2. QED
    BY <1>1, <2>1, BeginOK DEF CreateFrom
<1>2. ASSUME NEW n \in Names, NEW l \in ModelLayers, CreateFromFile(s, n, l) PROVE TypeOK'
  <2>1. HandlerOK([Idle EXCEPT !.pc = "touch", !.kind = "create", !.name = n, !.todo = {l},
                               !.old = ParsedOrNone(n)])
    BY ParsedType, LayersAssumption
    DEF HandlerOK, Idle, Handler, Steps, Kinds, PullKinds, Dirs, Files, Manifest
  <2>2. QED
    BY <1>2, <2>1, BeginOK DEF CreateFromFile
<1>3. CASE ReadBase(s)
  <2> DEFINE base == Parsed(r.from) \ Configs
             next == IF base = {} THEN "layers" ELSE "touch"
  <2>1. base \in Manifest /\ next \in {"layers", "touch"}
    BY <1>0, <1>3, ParsedType DEF r, ReadBase, HandlerOK, Manifest
  <2>2. Become(s, [r EXCEPT !.pc = next, !.todo = base]) /\ UNCHANGED <<store, cache, history, risk>>
    BY <1>3 DEF r, ReadBase
  <2> HIDE DEF base, next
  <2>3. HandlerOK([r EXCEPT !.pc = next, !.todo = base])
    BY <1>0, <1>3, <2>1 DEF r, ReadBase, HandlerOK, Handler, Steps
  <2>4. QED
    BY <2>2, <2>3, MoveOK DEF TypeOK, store, layers, history
<1>4. CASE PullBase(s)
  <2>1. HandlerOK([r EXCEPT !.pc = "probe", !.kind = "pull", !.name = r.from,
                            !.from = None, !.then = r.name, !.old = {}, !.keep = r.old])
    BY <1>0, <1>4 DEF r, PullBase, HandlerOK, Handler, Steps, Kinds, PullKinds, Manifest
  <2>2. QED
    BY <1>4, <2>1, MoveOK DEF r, PullBase, TypeOK, store, layers, history
<1>5. CASE BaseFails(s)
  <2>1. HandlerOK([r EXCEPT !.pc = "layers", !.kind = "told"])
    BY <1>0, <1>5 DEF r, BaseFails, HandlerOK, Handler, Steps, Kinds
  <2>2. QED
    BY <1>5, <2>1, MoveOK DEF r, BaseFails, TypeOK, store, layers, history
<1>6. CASE UnlinkLayer(s)
  <2>1. HandlerOK([r EXCEPT !.pc = "layers", !.todo = {}])
    BY <1>0, <1>6 DEF r, UnlinkLayer, HandlerOK, Handler, Steps, Manifest
  <2>2. QED
    BY <1>6, <2>1, MoveOK DEF r, UnlinkLayer, TypeOK, Manifest, layers, history
<1>7. ASSUME NEW l \in Layers, TouchLayer(s, l) PROVE TypeOK'
  <2>1. HandlerOK([r EXCEPT !.pc = IF r.todo = {l} THEN "layers" ELSE "touch",
                            !.todo = @ \ {l}, !.goal = @ \cup {l}])
    BY <1>0, <1>7 DEF r, TouchLayer, HandlerOK, Handler, Steps, Files, Manifest
  <2>2. HandlerOK([r EXCEPT !.pc = "layers", !.kind = "told", !.todo = {}, !.goal = {}])
    BY <1>0, <1>7 DEF r, TouchLayer, HandlerOK, Handler, Steps, Kinds, Files, Manifest
  <2>3. QED
    BY <1>7, <2>1, <2>2, IdleOK, MoveOK DEF r, TouchLayer, TypeOK, store, layers, history
<1>8. ASSUME NEW l \in Layers, DropLayer(s, l) PROVE TypeOK'
  <2>1. HandlerOK([r EXCEPT !.goal = @ \ {l}])
    BY <1>0, <1>8 DEF r, DropLayer, HandlerOK, Handler, Files, Manifest
  <2>2. HandlerOK([r EXCEPT !.pc = "unlinkLayer", !.goal = @ \ {l}, !.todo = {l}])
    BY <1>0, <1>8 DEF r, DropLayer, HandlerOK, Handler, Steps, Files, Manifest
  <2>3. QED
    BY <1>8, <2>1, <2>2, MoveOK DEF r, DropLayer, TypeOK, store, layers, history
<1>9. ASSUME NEW l \in Layers, AddLayer(s, l) PROVE TypeOK'
  <2>1. HandlerOK([r EXCEPT !.goal = @ \cup {l}])
    BY <1>0, <1>9 DEF r, AddLayer, HandlerOK, Handler, Files, Manifest
  <2>2. QED
    BY <1>9, <2>1, MoveOK, PutOK DEF r, AddLayer, TypeOK, history
<1>10. ASSUME NEW l \in Layers, AddConfig(s, l) PROVE TypeOK'
  <2>1. HandlerOK([r EXCEPT !.pc = "truncate", !.goal = @ \cup {l}])
    BY <1>0, <1>10 DEF r, AddConfig, HandlerOK, Handler, Steps, Files, Manifest
  <2>2. QED
    BY <1>10, <2>1, IdleOK, MoveOK, PutOK DEF r, AddConfig, TypeOK, history
<1>11. ASSUME NEW l \in ModelLayers, NEW new \in ModelLayers, RewriteLayer(s, l, new) PROVE TypeOK'
  <2>1. HandlerOK([r EXCEPT !.goal = (@ \ {l}) \cup {new}])
    BY <1>0, <1>11, LayersAssumption DEF r, RewriteLayer, HandlerOK, Handler, Files, Manifest
  <2>2. QED
    BY <1>11, <2>1, MoveOK, PutOK, LayersAssumption DEF r, RewriteLayer, TypeOK, history
<1>12. QED
  BY <1>1, <1>2, <1>3, <1>4, <1>5, <1>6, <1>7, <1>8, <1>9, <1>10, <1>11 DEF CreateStep

\* those of a delete or a copy,
LEMMA DeleteOrCopyStepType ==
    ASSUME TypeOK, NEW s \in Slots, DeleteOrCopyStep(s)
    PROVE  TypeOK'
<1> DEFINE r == req[s]
<1>0. HandlerOK(r) /\ r \in Handler
  BY DEF TypeOK
<1> HIDE DEF r
<1>1. ASSUME NEW n \in Names, DeleteModel(s, n) PROVE TypeOK'
  <2>1. HandlerOK([Idle EXCEPT !.pc = "unlinkManifest", !.kind = "delete", !.name = n,
                               !.dir = PathForName(n), !.old = Parsed(n)])
    BY <1>1, ParsedType
    DEF DeleteModel, HandlerOK, Idle, Handler, Steps, Kinds, PullKinds, Files, Manifest
  <2>2. QED
    BY <1>1, <2>1, BeginOK DEF DeleteModel
<1>2. ASSUME NEW src \in Names, NEW dst \in Names, CopyModel(s, src, dst) PROVE TypeOK'
  <2>1. HandlerOK([Idle EXCEPT !.pc = "copyTruncate", !.kind = "copy", !.name = dst, !.from = src])
    BY DEF HandlerOK, Idle, Handler, Steps, Kinds, PullKinds, Dirs, Files, Manifest
  <2>2. QED
    BY <1>2, <2>1, BeginOK DEF CopyModel
<1>3. CASE RemoveManifest(s)
  <2> DEFINE f == file[r.dir][r.name]
             unlinked(t) ==
                [req[t] EXCEPT !.pc = IF Writes(t, r.dir, r.name) THEN "lost" ELSE @,
                               !.from = IF Reads(t, r.dir, r.name) THEN None ELSE @,
                               !.goal = IF Reads(t, r.dir, r.name) THEN f ELSE @]
  <2>0. r.pc = "unlinkManifest"
    BY <1>3 DEF r, RemoveManifest
  <2>1. r.name \in Names /\ r.dir \in Dirs /\ f \in Files
    BY <1>0, <2>0 DEF HandlerOK, Handler, TypeOK
  <2>2. CASE f = Absent
    BY <1>3, <2>2, IdleOK, MoveOK DEF r, RemoveManifest, TypeOK, layers, history
  <2>3. CASE f # Absent
    <3>1. HandlerOK([r EXCEPT !.pc = "scan"])
      BY <1>0, <1>3 DEF r, RemoveManifest, HandlerOK, Handler, Steps
    <3>2. ASSUME NEW t \in Slots PROVE HandlerOK(unlinked(t))
      <4>1. HandlerOK(req[t]) /\ req[t] \in Handler
        BY DEF TypeOK
      <4>2. Reads(t, r.dir, r.name) => req[t].kind = "copy"
        BY <4>1 DEF Reads, HandlerOK
      <4>3. Writes(t, r.dir, r.name) => req[t].pc \in {"write", "copyWrite"}
        BY DEF Writes
      <4>4. QED
        BY <2>1, <4>1, <4>2, <4>3 DEF HandlerOK, Handler, Steps
    <3>3. /\ file' = [file EXCEPT ![r.dir][r.name] = Absent]
          /\ req' = [t \in Slots |-> IF t = s THEN [r EXCEPT !.pc = "scan"] ELSE unlinked(t)]
      BY <1>3, <2>3 DEF r, RemoveManifest
    <3> HIDE DEF unlinked
    <3>4. req' \in [Slots -> Handler] /\ \A t \in Slots : HandlerOK(req'[t])
      BY <3>1, <3>2, <3>3 DEF HandlerOK
    <3>5. file' \in [Dirs -> [Names -> Files]]
      BY <2>1, <3>3 DEF TypeOK, Files
    <3>6. QED
      BY <1>3, <3>4, <3>5 DEF RemoveManifest, TypeOK, layers, history
  <2>4. QED
    BY <2>2, <2>3
<1>4. CASE CopyTruncate(s)
  <2>1. HandlerOK([r EXCEPT !.pc = "copyWrite"])
    BY <1>0, <1>4 DEF r, CopyTruncate, HandlerOK, Handler, Steps
  <2>2. file' \in [Dirs -> [Names -> Files]] /\ risk' \in SUBSET Risks
    BY <1>0, <1>4 DEF r, CopyTruncate, HandlerOK, TypeOK, Files, Risks, Dirs
  <2>3. QED
    BY <1>4, <2>1, <2>2, MoveOK DEF r, CopyTruncate, TypeOK, layers, history
<1>5. CASE CopyWrite(s)
  <2>1. (IF r.from # None THEN file["primary"][r.from] ELSE r.goal) \in Files
    BY <1>0 DEF Handler, TypeOK, Dirs
  <2>2. file' \in [Dirs -> [Names -> Files]]
    BY <1>0, <1>5, <2>1 DEF r, CopyWrite, HandlerOK, TypeOK, Dirs
  <2>3. QED
    BY <1>5, <2>2, IdleOK, MoveOK DEF r, CopyWrite, TypeOK, layers, history
<1>6. QED
  BY <1>1, <1>2, <1>3, <1>4, <1>5 DEF DeleteOrCopyStep

\* and those of a show.
LEMMA ShowStepType ==
    ASSUME TypeOK, NEW s \in Slots, ShowStep(s)
    PROVE  TypeOK'
<1> DEFINE r == req[s]
<1>0. HandlerOK(r) /\ r \in Handler
  BY DEF TypeOK
<1> HIDE DEF r
<1>1. ASSUME NEW n \in Names, ShowModel(s, n) PROVE TypeOK'
  <2>1. HandlerOK([Idle EXCEPT !.pc = "info", !.kind = "show", !.name = n, !.goal = Parsed(n)])
    BY <1>1, ParsedType
    DEF ShowModel, HandlerOK, Idle, Handler, Steps, Kinds, PullKinds, Dirs, Files, Manifest
  <2>2. QED
    BY <1>1, <2>1, BeginOK DEF ShowModel
<1>2. CASE GetModelCapabilities(s)
  <2>1. ASSUME Readable(r.name)
        PROVE  HandlerOK([r EXCEPT !.pc = "metadata", !.old = Parsed(r.name),
                                   !.todo = Parsed(r.name) \cap ModelLayers])
    <3>1. Parsed(r.name) \in Manifest
      BY <1>0, <1>2, <2>1, ParsedType DEF r, GetModelCapabilities, HandlerOK
    <3>2. QED
      BY <1>0, <1>2, <3>1 DEF r, GetModelCapabilities, HandlerOK, Handler, Steps, Manifest
  <2>2. QED
    BY <1>2, <2>1, IdleOK, MoveOK DEF r, GetModelCapabilities, TypeOK, store, layers, history
<1>3. CASE PublishMetadata(s)
  <2>1. HandlerOK([r EXCEPT !.pc = "recheck"])
    BY <1>0, <1>3 DEF r, PublishMetadata, HandlerOK, Handler, Steps
  <2>2. metadata' \in Manifest
    BY <1>0, <1>3 DEF r, PublishMetadata, Handler, TypeOK, Manifest
  <2>3. HandlerOK([r EXCEPT !.pc = "metadata", !.fresh = {}])
    BY <1>0, <1>3 DEF r, PublishMetadata, HandlerOK, Handler, Steps, Manifest
  <2>4. QED
    BY <1>3, <2>1, <2>2, <2>3, MoveOK DEF r, PublishMetadata, TypeOK, layers, history
<1>4. CASE RecheckBlob(s)
  <2>1. HandlerOK([r EXCEPT !.pc = "metadata", !.fresh = {}])
    BY <1>0, <1>4 DEF r, RecheckBlob, HandlerOK, Handler, Steps, Manifest
  <2>2. HandlerOK([r EXCEPT !.pc = "unpublish"])
    BY <1>0, <1>4 DEF r, RecheckBlob, HandlerOK, Handler, Steps
  <2>3. QED
    BY <1>4, <2>1, <2>2, MoveOK DEF r, RecheckBlob, TypeOK, store, layers, history
<1>5. CASE UnpublishMetadata(s)
  <2>1. HandlerOK([r EXCEPT !.pc = "metadata", !.fresh = {}])
    BY <1>0, <1>5 DEF r, UnpublishMetadata, HandlerOK, Handler, Steps, Manifest
  <2>2. QED
    BY <1>5, <2>1, MoveOK DEF r, UnpublishMetadata, DropMetadata, TypeOK, Manifest, layers
<1>6. CASE SetLocal(s)
  <2>1. r.goal \in Manifest /\ r.old \in Manifest /\ r.name \in Names
    BY <1>0, <1>6 DEF r, SetLocal, HandlerOK, Handler
  <2>2. cache' \in [Names -> Entry]
    BY <1>6, <2>1 DEF r, SetLocal, TypeOK, Entry
  <2>3. QED
    BY <1>6, <2>2, IdleOK, MoveOK DEF r, SetLocal, TypeOK, store, layers, history
<1>7. ASSUME NEW l \in Layers, ReadGGUFMetadata(s, l) PROVE TypeOK'
  <2>1. HandlerOK([r EXCEPT !.pc = "publish", !.todo = @ \ {l}, !.fresh = {l}])
    BY <1>0, <1>7 DEF r, ReadGGUFMetadata, HandlerOK, Handler, Steps, Manifest
  <2>2. HandlerOK([r EXCEPT !.todo = @ \ {l}])
    BY <1>0, <1>7 DEF r, ReadGGUFMetadata, HandlerOK, Handler, Manifest
  <2>3. QED
    BY <1>7, <2>1, <2>2, MoveOK DEF r, ReadGGUFMetadata, TypeOK, store, layers, history
<1>8. QED
  BY <1>1, <1>2, <1>3, <1>4, <1>5, <1>6, <1>7 DEF ShowStep

\* The initial states are well typed.
LEMMA TypeInit == Init => TypeOK
<1> SUFFICES ASSUME Init PROVE TypeOK
  OBVIOUS
<1>1. file \in [Dirs -> [Names -> Files]]
  BY ContentsAssumption DEF Init, Files
<1>2. blobs \in Manifest
  <2>1. \A n \in Names : ParsedOrNone(n) \in Manifest
    BY <1>1 DEF ParsedOrNone, Readable, Parsed, PathForName, Dirs, Files, Manifest
  <2>2. QED
    BY <2>1 DEF Init, InUse, Manifest
<1>3. cache \in [Names -> Entry]
  BY DEF Init, NoEntry, Entry, Manifest
<1>4. req \in [Slots -> Handler] /\ \A s \in Slots : HandlerOK(req[s])
  BY IdleOK DEF Init, HandlerOK
<1>5. QED
  BY <1>1, <1>2, <1>3, <1>4 DEF Init, TypeOK, Manifest

\* Every step keeps the types.
LEMMA TypeNext == TypeOK /\ [Next]_vars => TypeOK'
<1> SUFFICES ASSUME TypeOK, [Next]_vars PROVE TypeOK'
  OBVIOUS
<1>1. ASSUME NEW s \in Slots,
             PullStep(s) \/ RemoveStep(s) \/ CreateStep(s) \/ DeleteOrCopyStep(s) \/ ShowStep(s)
      PROVE  TypeOK'
  BY <1>1, PullStepType, RemoveStepType, CreateStepType, DeleteOrCopyStepType, ShowStepType
<1>2. ASSUME NEW l \in Layers, CreateBlob(l) PROVE TypeOK'
  BY <1>2, PutOK DEF CreateBlob, TypeOK
<1>3. ASSUME NEW n \in Names, ShowCached(n) PROVE TypeOK'
  BY <1>3 DEF ShowCached, TypeOK, store, layers
<1>4. CASE Crash
  <2>1. req' \in [Slots -> Handler] /\ \A s \in Slots : HandlerOK(req'[s])
    BY <1>4, IdleOK DEF Crash, HandlerOK
  <2>2. cache' \in [Names -> Entry]
    BY <1>4 DEF Crash, NoEntry, Entry, Manifest
  <2>3. leftover' \in Manifest
    BY <1>4 DEF Crash, TypeOK, Manifest
  <2>4. crashes' \in Nat
    BY <1>4 DEF Crash, TypeOK
  <2>5. up' \in BOOLEAN
    BY <1>4 DEF Crash
  <2>6. UNCHANGED <<file, blobs, unwritten, metadata, requests, risk>>
    BY <1>4 DEF Crash, store, layers
  <2>7. QED
    BY <2>1, <2>2, <2>3, <2>4, <2>5, <2>6 DEF TypeOK
<1>5. ASSUME NEW expired \in SUBSET blobs, Serve(expired) PROVE TypeOK'
  BY <1>5 DEF Serve, TypeOK, Manifest
<1>6. CASE UNCHANGED vars
  BY <1>6 DEF vars, TypeOK
<1>7. QED
  BY <1>1, <1>2, <1>3, <1>4, <1>5, <1>6 DEF Next

\* Every variable and every handler's record keeps its type, and a create that
\* waited for its pull still knows the model it is made from, whatever requests
\* overlap.
THEOREM StoreTypeCorrect == Spec => []TypeOK
BY TypeInit, TypeNext, PTL DEF Spec

-----------------------------------------------------------------------------
(***************************************************************************)
(* The invariant of the store                                              *)
(***************************************************************************)

\* What is read depends on the manifest files only.
LEMMA SameFiles ==
    ASSUME UNCHANGED file
    PROVE  InUse' = InUse /\ \A n : Parsed(n)' = Parsed(n) /\ Readable(n)' = Readable(n)
BY DEF InUse, ParsedOrNone, Readable, Parsed, PathForName

\* A handler in one of these states relies on nothing.
Harmless(r) ==
    \/ r.pc \in {"idle", "probe", "scan", "lost", "unlinkManifest"}
    \/ r.pc \in {"base", "rebase", "layers"} /\ r.goal = {}

\* What the invariant says of a handler is true of such a one.
LEMMA HarmlessSound ==
    ASSUME NEW s \in Slots, Harmless(req'[s])
    PROVE  HandlerSound(req[s])' /\ OpenFiles(req[s])' /\ GGUFLayersOnly(req'[s])
BY DEF Harmless, HandlerSound, OpenFiles, GGUFLayersOnly

\* A handler that is over counts on nothing.
LEMMA EndHarmless ==
    ASSUME NEW r
    PROVE  Harmless(Idle) /\ Harmless(Finished(r)) /\ Harmless(Failed(r))
BY DEF Harmless, Finished, Failed, Resume, Idle

\* A handler under way: the server runs, and it is alone if none overlap.
LEMMA Active ==
    ASSUME StoreInv, NEW s \in Slots, req[s].pc # "idle"
    PROVE  up /\ ("overlap" \notin risk => \A t \in Slots \ {s} : req[t] = Idle)
BY IdleOK DEF StoreInv, OneActive

\* The frame of a step of handler s that leaves the manifest files alone.
LEMMA MoveKeeps ==
    ASSUME StoreInv, NEW s \in Slots, req[s].pc # "idle",
           UNCHANGED <<file, up, risk>>,
           \A t \in Slots \ {s} : req'[t] = req[t],
           OpenFiles(req[s])', GGUFLayersOnly(req'[s]), metadata' \subseteq ModelLayers,
           risk = {} => LayersPresent' /\ CacheSound' /\ HandlerSound(req[s])'
    PROVE  StoreInv'
<1>1. up' /\ ("overlap" \notin risk => \A t \in Slots \ {s} : req'[t] = Idle)
  BY Active
<1>2. "overlap" \notin risk' => OneActive'
  BY <1>1 DEF OneActive
<1>3. "shadow" \notin risk' => OneFile'
  BY DEF StoreInv, OneFile
<1>4. \A t \in Slots : OpenFiles(req[t])'
  BY DEF StoreInv, OpenFiles
<1>5. MetadataOfModels'
  BY DEF StoreInv, MetadataOfModels
<1>6. ASSUME risk' = {} PROVE \A t \in Slots : HandlerSound(req[t])'
  <2>1. \A t \in Slots \ {s} : req'[t].pc = "idle"
    BY <1>1, <1>6, IdleOK
  <2>2. \A t \in Slots \ {s} : HandlerSound(req[t])'
    BY <2>1 DEF HandlerSound
  <2>3. QED
    BY <1>6, <2>2
<1>7. QED
  BY <1>1, <1>2, <1>3, <1>4, <1>5, <1>6 DEF StoreInv

\* The same in the current state.
LEMMA HarmlessLocal ==
    ASSUME NEW r, Harmless(r)
    PROVE  HandlerSound(r) /\ OpenFiles(r) /\ GGUFLayersOnly(r)
BY DEF Harmless, HandlerSound, OpenFiles, GGUFLayersOnly

\* The frame of a step of handler s that leaves the whole store alone.
LEMMA LocalKeeps ==
    ASSUME TypeOK, StoreInv, NEW s \in Slots, NEW r, req[s].pc # "idle", Become(s, r),
           UNCHANGED <<store, cache, history, risk>>,
           OpenFiles(r), GGUFLayersOnly(r), risk = {} => HandlerSound(r)
    PROVE  StoreInv'
<1>1. req'[s] = r /\ \A t \in Slots \ {s} : req'[t] = req[t]
  BY DEF TypeOK, Become
<1>2. UNCHANGED <<file, blobs, unwritten, metadata, cache, up, risk>>
  BY DEF store, layers, history
<1>3. InUse' = InUse /\ \A n : Parsed(n)' = Parsed(n)
  BY <1>2, SameFiles
<1>4. OpenFiles(req[s])'
  BY <1>1, <1>2 DEF OpenFiles
<1>5. metadata' \subseteq ModelLayers
  BY <1>2 DEF StoreInv, MetadataOfModels
<1>6. ASSUME risk = {} PROVE LayersPresent' /\ CacheSound' /\ HandlerSound(req[s])'
  <2>1. LayersPresent' /\ CacheSound'
    BY <1>2, <1>3, <1>6 DEF StoreInv, LayersPresent, CacheSound
  <2>2. HandlerSound(req[s])'
    BY <1>1, <1>2, <1>3, <1>6 DEF HandlerSound
  <2>3. QED
    BY <2>1, <2>2
<1>7. QED
  BY <1>1, <1>2, <1>4, <1>5, <1>6, MoveKeeps

\* A request that arrives.
LEMMA BeginKeeps ==
    ASSUME TypeOK, StoreInv, NEW s \in Slots, NEW r, Begin(s, r), UNCHANGED cache,
           OpenFiles(r), GGUFLayersOnly(r), risk = {} => HandlerSound(r)
    PROVE  StoreInv'
<1>1. req'[s] = r /\ \A t \in Slots \ {s} : req'[t] = req[t]
  BY DEF TypeOK, Begin, Become
<1>2. UNCHANGED <<file, blobs, unwritten, metadata, cache, up>> /\ up
  BY DEF Begin, store, layers, MayAsk
<1>3. risk \subseteq risk' /\ ("shadow" \in risk' => "shadow" \in risk)
  BY DEF Begin
<1>4. "overlap" \notin risk' => \A t \in Slots \ {s} : req'[t] = Idle
  BY <1>1 DEF Begin
<1>5. InUse' = InUse /\ \A n : Parsed(n)' = Parsed(n)
  BY <1>2, SameFiles
<1>6. "overlap" \notin risk' => OneActive'
  BY <1>4 DEF OneActive
<1>7. "shadow" \notin risk' => OneFile'
  BY <1>2, <1>3 DEF StoreInv, OneFile
<1>8. \A t \in Slots : OpenFiles(req[t])'
  <2>1. OpenFiles(req[s])'
    BY <1>1, <1>2 DEF OpenFiles
  <2>2. \A t \in Slots \ {s} : OpenFiles(req[t])'
    BY <1>1, <1>2 DEF StoreInv, OpenFiles
  <2>3. QED
    BY <2>1, <2>2
<1>9. MetadataOfModels'
  BY <1>1, <1>2 DEF StoreInv, MetadataOfModels
<1>10. ASSUME risk' = {} PROVE LayersPresent' /\ CacheSound' /\ \A t \in Slots : HandlerSound(req[t])'
  <2>1. risk = {}
    BY <1>3, <1>10
  <2>2. LayersPresent' /\ CacheSound'
    BY <1>2, <1>5, <2>1 DEF StoreInv, LayersPresent, CacheSound
  <2>3. HandlerSound(req[s])'
    BY <1>1, <1>2, <1>5, <2>1 DEF HandlerSound
  <2>4. \A t \in Slots \ {s} : req'[t].pc = "idle"
    BY <1>4, <1>10, IdleOK
  <2>5. \A t \in Slots \ {s} : HandlerSound(req[t])'
    BY <2>4 DEF HandlerSound
  <2>6. QED
    BY <2>2, <2>3, <2>5
<1>11. QED
  BY <1>2, <1>6, <1>7, <1>8, <1>9, <1>10 DEF StoreInv

\* The frame of a step of handler s that changes blobs or metadata files.
LEMMA BlobsKeep ==
    ASSUME TypeOK, StoreInv, NEW s \in Slots, req[s].pc # "idle", Become(s, req'[s]),
           UNCHANGED <<file, cache, up, risk>>, metadata' \subseteq ModelLayers,
           OpenFiles(req[s])', GGUFLayersOnly(req'[s]),
           risk = {} => InUse \subseteq blobs' \cup unwritten' /\ HandlerSound(req[s])'
    PROVE  StoreInv'
<1>1. \A t \in Slots \ {s} : req'[t] = req[t]
  BY DEF TypeOK, Become
<1>2. InUse' = InUse
  BY SameFiles
<1>3. ASSUME risk = {} PROVE LayersPresent' /\ CacheSound'
  BY <1>2, <1>3 DEF StoreInv, LayersPresent, CacheSound
<1>4. QED
  BY <1>1, <1>3, MoveKeeps

\* The frame of a step of handler s that writes a manifest file: the other
\* directory has none of that name, or the risk is recorded.
LEMMA FileKeeps ==
    ASSUME TypeOK, StoreInv, NEW s \in Slots, req[s].pc # "idle", Become(s, req'[s]),
           NEW d \in Dirs, NEW n \in Names, NEW m \in Files, m # Absent,
           file' = [file EXCEPT ![d][n] = m],
           UNCHANGED <<blobs, unwritten, metadata, cache, history>>,
           risk \subseteq risk', "overlap" \in risk' => "overlap" \in risk,
           "shadow" \notin risk' => file[OtherDir(d)][n] = Absent,
           OpenFiles(req[s])', GGUFLayersOnly(req'[s]),
           risk' = {} => (m \subseteq blobs \cup unwritten \/ m = Torn) /\ HandlerSound(req[s])'
    PROVE  StoreInv'
<1>1. \A t \in Slots \ {s} : req'[t] = req[t]
  BY DEF TypeOK, Become
<1>2. /\ \A e \in Dirs, k \in Names : file'[e][k] = IF e = d /\ k = n THEN m ELSE file[e][k]
      /\ "primary" \in Dirs /\ "aux" \in Dirs /\ WriteDir \in Dirs
      /\ d = "primary" \/ d = "aux"
  BY DEF TypeOK, Dirs, WriteDir
<1>3. up' /\ ("overlap" \notin risk' => \A t \in Slots \ {s} : req'[t] = Idle)
  BY <1>1, Active DEF layers, history
<1>4. "overlap" \notin risk' => OneActive'
  BY <1>3 DEF OneActive
<1>5. "shadow" \notin risk' => OneFile'
  BY <1>2 DEF StoreInv, OneFile, OtherDir
<1>6. ASSUME NEW t \in Slots \ {s} PROVE OpenFiles(req[t])'
  <2>1. OpenFiles(req[t]) /\ HandlerOK(req[t]) /\ req[t] \in Handler
    BY DEF StoreInv, TypeOK
  <2>2. req'[t] = req[t]
    BY <1>1
  <2>3. req[t].pc # "idle" => req[t].name \in Names
    BY <2>1 DEF HandlerOK
  <2>4. req[t].from \in Names \cup {None}
    BY <2>1 DEF Handler
  <2>5. QED
    BY <1>2, <2>1, <2>2, <2>3, <2>4 DEF OpenFiles
<1>7. MetadataOfModels'
  BY <1>1 DEF StoreInv, MetadataOfModels
<1>8. ASSUME risk' = {} PROVE LayersPresent' /\ CacheSound' /\ \A t \in Slots : HandlerSound(req[t])'
  <2>1. risk = {} /\ file[OtherDir(d)][n] = Absent
    BY <1>8
  <2>2. ASSUME NEW k \in Names PROVE ParsedOrNone(k)' \subseteq blobs \cup unwritten
    <3>1. CASE k # n
      <4>1. ParsedOrNone(k)' = ParsedOrNone(k)
        BY <1>2, <3>1 DEF ParsedOrNone, Readable, Parsed, PathForName
      <4>2. ParsedOrNone(k) \subseteq InUse
        BY DEF InUse
      <4>3. QED
        BY <2>1, <4>1, <4>2 DEF StoreInv, LayersPresent
    <3>2. CASE k = n
      <4>1. Parsed(n)' = m
        BY <1>2, <2>1 DEF Parsed, PathForName, OtherDir
      <4>2. QED
        BY <1>8, <3>2, <4>1 DEF ParsedOrNone, Readable
    <3>3. QED
      BY <3>1, <3>2
  <2>3. LayersPresent'
    BY <2>2 DEF LayersPresent, InUse
  <2>4. CacheSound'
    BY <2>1 DEF StoreInv, CacheSound
  <2>5. \A t \in Slots \ {s} : req'[t].pc = "idle"
    BY <1>3, <1>8, IdleOK
  <2>6. \A t \in Slots \ {s} : HandlerSound(req[t])'
    BY <2>5 DEF HandlerSound
  <2>7. QED
    BY <1>8, <2>3, <2>4, <2>6
<1>9. QED
  BY <1>3, <1>4, <1>5, <1>6, <1>7, <1>8 DEF StoreInv

\* Nor does one that has written its manifest.
LEMMA AfterWriteHarmless ==
    ASSUME NEW r, r \in Handler
    PROVE  Harmless(AfterWrite(r))
BY EndHarmless DEF AfterWrite, Harmless, Handler

\* The steps of a pull keep StoreInv.
LEMMA PullStepKeeps ==
    ASSUME TypeOK, StoreInv, NEW s \in Slots, PullStep(s)
    PROVE  StoreInv'
<1> DEFINE r == req[s]
<1>0. /\ HandlerOK(r) /\ r \in Handler /\ OpenFiles(r) /\ GGUFLayersOnly(r)
      /\ metadata \subseteq ModelLayers
      /\ risk = {} => HandlerSound(r) /\ LayersPresent
  BY DEF TypeOK, StoreInv, MetadataOfModels
<1> HIDE DEF r
<1>1. ASSUME NEW n \in Names, PullModel(s, n) PROVE StoreInv'
  <2>1. Harmless([Idle EXCEPT !.pc = "probe", !.kind = "pull", !.name = n])
    BY DEF Harmless, Idle
  <2>2. QED
    BY <1>1, <2>1, HarmlessLocal, BeginKeeps DEF PullModel
<1>2. ASSUME NEW c \in Contents, PullShards(s, c) PROVE StoreInv'
  <2> DEFINE new == [r EXCEPT !.pc = "fetch", !.kind = "shards", !.goal = c, !.todo = c]
  <2>1. OpenFiles(new) /\ GGUFLayersOnly(new) /\ HandlerSound(new)
    BY <1>0 DEF OpenFiles, GGUFLayersOnly, HandlerSound, Handler
  <2>2. QED
    BY <1>2, <2>1, LocalKeeps DEF r, PullShards
<1>3. ASSUME NEW c \in Contents, PullUnified(s, c) PROVE StoreInv'
  <2> DEFINE new == [r EXCEPT !.pc = "fetch", !.kind = "pull", !.goal = c, !.todo = c,
                              !.old = ParsedOrNone(r.name)]
  <2>1. OpenFiles(new) /\ GGUFLayersOnly(new) /\ HandlerSound(new)
    BY <1>0 DEF OpenFiles, GGUFLayersOnly, HandlerSound, Handler
  <2>2. QED
    BY <1>3, <2>1, LocalKeeps DEF r, PullUnified
<1>4. ASSUME NEW l \in Layers, FetchLayer(s, l) PROVE StoreInv'
  <2>1. /\ r.pc = "fetch" /\ l \in r.todo
        /\ Put(l)
        /\ req'[s].goal = r.goal /\ req'[s].todo = r.todo \ {l}
        /\ req'[s].pc \in {"fetch", "verify", "truncate"}
        /\ req'[s].pc # "fetch" => r.todo = {l}
        /\ Become(s, req'[s])
    BY <1>0, <1>4 DEF r, FetchLayer, Become, TypeOK, Handler
  <2>2. OpenFiles(req[s])' /\ GGUFLayersOnly(req'[s])
    BY <2>1 DEF OpenFiles, GGUFLayersOnly
  <2>3. ASSUME risk = {} PROVE InUse \subseteq blobs' \cup unwritten' /\ HandlerSound(req[s])'
    <3>1. r.goal \ r.todo \subseteq blobs \cup unwritten /\ InUse \subseteq blobs \cup unwritten
      BY <1>0, <2>1, <2>3 DEF HandlerSound, LayersPresent
    <3>2. r.goal \ r.todo \subseteq blobs' \cup unwritten' /\ InUse \subseteq blobs' \cup unwritten'
          /\ l \in blobs'
      BY <2>1, <3>1, PutOK
    <3>3. QED
      BY <2>1, <3>2 DEF HandlerSound
  <2>4. QED
    BY <1>0, <1>4, <2>1, <2>2, <2>3, BlobsKeep DEF r, FetchLayer, history
<1>5. ASSUME NEW l \in Layers, VerifyLayer(s, l) PROVE StoreInv'
  <2> DEFINE new == [r EXCEPT !.pc = IF r.fresh = {l} THEN "truncate" ELSE "verify", !.fresh = @ \ {l}]
  <2>1. OpenFiles(new) /\ GGUFLayersOnly(new) /\ (risk = {} => HandlerSound(new))
    BY <1>0, <1>5 DEF r, VerifyLayer, OpenFiles, GGUFLayersOnly, HandlerSound, Handler
  <2>2. QED
    BY <1>5, <2>1, EndHarmless, HarmlessLocal, LocalKeeps DEF r, VerifyLayer
<1>6. CASE TruncateManifest(s)
  <2>1. /\ r.pc = "truncate" /\ r.name \in Names /\ WriteDir \in Dirs
        /\ req'[s] = [r EXCEPT !.pc = "write"]
        /\ Become(s, req'[s])
    BY <1>0, <1>6 DEF r, TruncateManifest, Become, TypeOK, HandlerOK, WriteDir, Dirs
  <2>2. /\ file' = [file EXCEPT ![WriteDir][r.name] = Torn]
        /\ file'[WriteDir][r.name] = Torn
    BY <1>6, <2>1 DEF r, TruncateManifest, TypeOK
  <2>3. OpenFiles(req[s])' /\ GGUFLayersOnly(req'[s])
    BY <1>0, <2>1, <2>2, ValuesAssumption DEF OpenFiles, GGUFLayersOnly, Handler, WriteDir
  <2>4. /\ risk \subseteq risk'
        /\ "overlap" \in risk' => "overlap" \in risk
        /\ "shadow" \notin risk' => file[OtherDir(WriteDir)][r.name] = Absent
    BY <1>6 DEF r, TruncateManifest
  <2>5. ASSUME risk' = {} PROVE HandlerSound(req[s])'
    BY <1>0, <1>6, <2>1, <2>4, <2>5 DEF HandlerSound, Handler, TruncateManifest, layers
  <2>6. Torn \in Files /\ Torn # Absent
    BY ValuesAssumption DEF Files
  <2>7. UNCHANGED <<blobs, unwritten, metadata, cache, history>> /\ req[s].pc # "idle"
    BY <1>6 DEF TruncateManifest, layers
  <2>8. QED
    BY <2>1, <2>2, <2>3, <2>4, <2>5, <2>6, <2>7, FileKeeps
<1>7. CASE WriteManifest(s)
  <2>1. /\ r.pc = "write" /\ r.name \in Names /\ WriteDir \in Dirs
        /\ req'[s] = AfterWrite(r) /\ Become(s, req'[s])
        /\ r.goal \in Files /\ r.goal # Absent
    BY <1>0, <1>7, ValuesAssumption DEF r, WriteManifest, Become, TypeOK, HandlerOK, WriteDir, Dirs, Files
  <2>2. HandlerSound(req[s])' /\ OpenFiles(req[s])' /\ GGUFLayersOnly(req'[s])
    BY <1>0, <2>1, AfterWriteHarmless, HarmlessSound
  <2>3. "shadow" \notin risk => file[OtherDir(WriteDir)][r.name] = Absent
    BY <1>0, <2>1 DEF OpenFiles, StoreInv, OneFile, OtherDir, WriteDir
  <2>4. risk = {} => r.goal \subseteq blobs \cup unwritten
    BY <1>0, <2>1 DEF HandlerSound
  <2>5. QED
    BY <1>7, <2>1, <2>2, <2>3, <2>4, FileKeeps DEF r, WriteManifest, layers
<1>8. CASE WriteUnlinked(s)
  BY <1>0, <1>8, AfterWriteHarmless, HarmlessLocal, LocalKeeps DEF r, WriteUnlinked
<1>9. CASE Fail(s)
  BY <1>9, EndHarmless, HarmlessLocal, LocalKeeps DEF r, Fail
<1>10. ASSUME NEW l \in Layers, MergeShards(s, l) PROVE StoreInv'
  <2>1. /\ r.pc = "fetch" /\ l \in r.todo
        /\ Put(l)
        /\ req'[s].goal = r.goal /\ req'[s].todo = r.todo \ {l} /\ req'[s].pc = "fetch"
        /\ Become(s, req'[s])
    BY <1>0, <1>10 DEF r, MergeShards, Become, TypeOK, Handler
  <2>2. OpenFiles(req[s])' /\ GGUFLayersOnly(req'[s])
    BY <2>1 DEF OpenFiles, GGUFLayersOnly
  <2>3. ASSUME risk = {} PROVE InUse \subseteq blobs' \cup unwritten' /\ HandlerSound(req[s])'
    <3>1. r.goal \ r.todo \subseteq blobs \cup unwritten /\ InUse \subseteq blobs \cup unwritten
      BY <1>0, <2>1, <2>3 DEF HandlerSound, LayersPresent
    <3>2. r.goal \ r.todo \subseteq blobs' \cup unwritten' /\ InUse \subseteq blobs' \cup unwritten'
          /\ l \in blobs'
      BY <2>1, <3>1, PutOK
    <3>3. QED
      BY <2>1, <3>2 DEF HandlerSound
  <2>4. QED
    BY <1>0, <1>10, <2>1, <2>2, <2>3, BlobsKeep DEF r, MergeShards, history
<1>11. ASSUME NEW l \in Layers, NEW made \in BOOLEAN, WriteConfig(s, l, made) PROVE StoreInv'
  <2>1. /\ r.pc = "fetch" /\ r.todo = {l}
        /\ req'[s].goal = r.goal /\ req'[s].pc = "truncate"
        /\ Become(s, req'[s])
    BY <1>0, <1>11 DEF r, WriteConfig, Become, TypeOK, Handler
  <2>2. OpenFiles(req[s])' /\ GGUFLayersOnly(req'[s])
    BY <2>1 DEF OpenFiles, GGUFLayersOnly
  <2>3. /\ \A X : X \subseteq blobs \cup unwritten => X \subseteq blobs' \cup unwritten'
        /\ l \in blobs' \cup unwritten'
    <3>1. CASE made
      BY <1>11, <3>1, PutOK DEF WriteConfig
    <3>2. CASE ~made
      BY <1>11, <3>2 DEF WriteConfig
    <3>3. QED
      BY <3>1, <3>2
  <2>4. ASSUME risk = {} PROVE InUse \subseteq blobs' \cup unwritten' /\ HandlerSound(req[s])'
    <3>1. r.goal \ {l} \subseteq blobs \cup unwritten /\ InUse \subseteq blobs \cup unwritten
      BY <1>0, <2>1, <2>4 DEF HandlerSound, LayersPresent
    <3>2. r.goal \ {l} \subseteq blobs' \cup unwritten' /\ InUse \subseteq blobs' \cup unwritten'
      BY <2>3, <3>1
    <3>3. r.goal \subseteq blobs' \cup unwritten'
      BY <2>3, <3>2
    <3>4. QED
      BY <2>1, <3>2, <3>3 DEF HandlerSound
  <2>5. QED
    BY <1>0, <1>11, <2>1, <2>2, <2>4, BlobsKeep DEF r, WriteConfig, history
<1>12. CASE ShardsFail(s)
  <2>1. Harmless([r EXCEPT !.pc = "probe", !.goal = {}, !.todo = {}])
    BY <1>0 DEF Harmless, Handler
  <2>2. QED
    BY <1>12, <2>1, HarmlessLocal, LocalKeeps DEF r, ShardsFail
<1>13. QED
  BY <1>1, <1>2, <1>3, <1>4, <1>5, <1>6, <1>7, <1>8, <1>9, <1>10, <1>11, <1>12 DEF PullStep

\* So do the removals: they take what the scan has found unused,
LEMMA RemoveStepKeeps ==
    ASSUME TypeOK, StoreInv, NEW s \in Slots, RemoveStep(s)
    PROVE  StoreInv'
<1> DEFINE r == req[s]
<1>0. /\ HandlerOK(r) /\ r \in Handler /\ OpenFiles(r) /\ GGUFLayersOnly(r)
      /\ metadata \subseteq ModelLayers
      /\ risk = {} => HandlerSound(r) /\ LayersPresent
  BY DEF TypeOK, StoreInv, MetadataOfModels
<1> HIDE DEF r
<1>1. CASE ScanManifests(s)
  <2> DEFINE new == [r EXCEPT !.pc = "remove", !.old = {}, !.todo = r.old \ InUse]
  <2>1. OpenFiles(new) /\ GGUFLayersOnly(new) /\ HandlerSound(new)
    BY <1>0 DEF OpenFiles, GGUFLayersOnly, HandlerSound, Handler
  <2>2. QED
    BY <1>1, <2>1, EndHarmless, HarmlessLocal, LocalKeeps DEF r, ScanManifests
<1>2. ASSUME NEW l \in Layers, RemoveBlob(s, l) PROVE StoreInv'
  <2>1. /\ r.pc = "remove" /\ l \in r.todo
        /\ blobs' = blobs \ {l} /\ unwritten' = unwritten
        /\ req'[s].pc = "remove" /\ req'[s].todo = r.todo \ {l}
        /\ Become(s, req'[s])
    BY <1>0, <1>2 DEF r, RemoveBlob, Become, TypeOK, Handler
  <2>2. OpenFiles(req[s])' /\ GGUFLayersOnly(req'[s])
    BY <2>1 DEF OpenFiles, GGUFLayersOnly
  <2>3. InUse' = InUse
    BY <1>2, SameFiles DEF RemoveBlob
  <2>4. ASSUME risk = {} PROVE InUse \subseteq blobs' \cup unwritten' /\ HandlerSound(req[s])'
    BY <1>0, <2>1, <2>3, <2>4 DEF HandlerSound, LayersPresent
  <2>5. QED
    BY <1>0, <1>2, <2>1, <2>2, <2>4, BlobsKeep DEF r, RemoveBlob, history
<1>3. ASSUME NEW l \in Layers, RemoveMetadata(s, l) PROVE StoreInv'
  <2>1. /\ r.pc = "remove" /\ l \in r.gone
        /\ metadata' \subseteq metadata /\ UNCHANGED <<file, blobs, unwritten, cache, up, risk>>
        /\ req'[s] = IF r.todo = {} /\ r.gone = {l} THEN Finished(r) ELSE [r EXCEPT !.gone = @ \ {l}]
        /\ Become(s, req'[s])
    BY <1>3 DEF r, RemoveMetadata, DropMetadata, Become, TypeOK, layers
  <2>2. InUse' = InUse
    BY <2>1, SameFiles
  <2>3. OpenFiles(req[s])' /\ GGUFLayersOnly(req'[s]) /\ (risk = {} => HandlerSound(req[s])')
    <3>1. CASE req'[s] = Finished(r)
      BY <3>1, EndHarmless, HarmlessSound
    <3>2. CASE req'[s] = [r EXCEPT !.gone = @ \ {l}]
      BY <1>0, <2>1, <2>2, <3>2 DEF OpenFiles, GGUFLayersOnly, HandlerSound, Handler
    <3>3. QED
      BY <2>1, <3>1, <3>2
  <2>4. QED
    BY <1>0, <2>1, <2>3, BlobsKeep DEF r, LayersPresent
<1>4. CASE SkipRemoval(s)
  BY <1>4, EndHarmless, HarmlessLocal, LocalKeeps DEF r, SkipRemoval
<1>5. ASSUME NEW l \in Layers, KeepBlob(s, l) PROVE StoreInv'
  <2> DEFINE rest == IF r.kind = "pull" THEN r.todo \ {l} ELSE {}
             new == [r EXCEPT !.todo = rest]
  <2>1. /\ r.pc = "remove" /\ rest \subseteq r.todo
        /\ Become(s, Finished(r)) \/ Become(s, new)
        /\ UNCHANGED <<store, cache, history, risk>>
    BY <1>5 DEF r, KeepBlob
  <2> HIDE DEF rest
  <2>2. OpenFiles(new) /\ GGUFLayersOnly(new) /\ (risk = {} => HandlerSound(new))
    BY <1>0, <2>1 DEF OpenFiles, GGUFLayersOnly, HandlerSound, Handler
  <2> HIDE DEF new
  <2>3. QED
    BY <2>1, <2>2, EndHarmless, HarmlessLocal, LocalKeeps DEF r
<1>6. QED
  BY <1>1, <1>2, <1>3, <1>4, <1>5 DEF RemoveStep

\* the steps of a create,
LEMMA CreateStepKeeps ==
    ASSUME TypeOK, StoreInv, NEW s \in Slots, CreateStep(s)
    PROVE  StoreInv'
<1> DEFINE r == req[s]
<1>0. /\ HandlerOK(r) /\ r \in Handler /\ OpenFiles(r) /\ GGUFLayersOnly(r)
      /\ metadata \subseteq ModelLayers
      /\ risk = {} => HandlerSound(r) /\ LayersPresent
  BY DEF TypeOK, StoreInv, MetadataOfModels
<1> HIDE DEF r
<1>1. ASSUME NEW n \in Names, NEW f \in Names, CreateFrom(s, n, f) PROVE StoreInv'
  <2>1. Harmless([Idle EXCEPT !.pc = "base", !.kind = "create", !.name = n, !.from = f,
                              !.old = ParsedOrNone(n)])
    BY DEF Harmless, Idle
  <2>2. QED
    BY <1>1, <2>1, HarmlessLocal, BeginKeeps DEF CreateFrom
<1>2. ASSUME NEW n \in Names, NEW l \in ModelLayers, CreateFromFile(s, n, l) PROVE StoreInv'
  <2> DEFINE new == [Idle EXCEPT !.pc = "touch", !.kind = "create", !.name = n, !.todo = {l},
                                 !.old = ParsedOrNone(n)]
  <2>1. OpenFiles(new) /\ GGUFLayersOnly(new) /\ HandlerSound(new)
    BY DEF OpenFiles, GGUFLayersOnly, HandlerSound, Idle
  <2>2. QED
    BY <1>2, <2>1, BeginKeeps DEF CreateFromFile
<1>3. CASE ReadBase(s)
  <2> DEFINE base == Parsed(r.from) \ Configs
             next == IF base = {} THEN "layers" ELSE "touch"
             new == [r EXCEPT !.pc = next, !.todo = base]
  <2>1. next \in {"layers", "touch"} /\ r.pc \in {"base", "rebase"}
    BY <1>3 DEF r, ReadBase
  <2>2. Become(s, new) /\ UNCHANGED <<store, cache, history, risk>>
    BY <1>3 DEF r, ReadBase
  <2> HIDE DEF next, base
  <2>3. OpenFiles(new) /\ GGUFLayersOnly(new) /\ (risk = {} => HandlerSound(new))
    BY <1>0, <2>1 DEF OpenFiles, GGUFLayersOnly, HandlerSound, Handler
  <2>4. QED
    BY <2>1, <2>2, <2>3, LocalKeeps DEF r
<1>4. CASE PullBase(s)
  <2>1. Harmless([r EXCEPT !.pc = "probe", !.kind = "pull", !.name = r.from,
                           !.from = None, !.then = r.name, !.old = {}, !.keep = r.old])
    BY <1>0 DEF Harmless, Handler
  <2>2. QED
    BY <1>4, <2>1, HarmlessLocal, LocalKeeps DEF r, PullBase
<1>5. CASE BaseFails(s)
  <2> DEFINE new == [r EXCEPT !.pc = "layers", !.kind = "told"]
  <2>1. OpenFiles(new) /\ GGUFLayersOnly(new) /\ (risk = {} => HandlerSound(new))
    BY <1>0, <1>5 DEF r, BaseFails, OpenFiles, GGUFLayersOnly, HandlerSound, Handler
  <2>2. QED
    BY <1>5, <2>1, LocalKeeps DEF r, BaseFails
<1>6. CASE UnlinkLayer(s)
  <2>1. /\ r.pc = "unlinkLayer" /\ blobs \ r.todo \subseteq blobs' /\ unwritten' = unwritten
        /\ req'[s].pc = "layers" /\ req'[s].goal = r.goal
        /\ Become(s, req'[s])
    BY <1>0, <1>6 DEF r, UnlinkLayer, Become, TypeOK, Handler
  <2>2. OpenFiles(req[s])' /\ GGUFLayersOnly(req'[s])
    BY <2>1 DEF OpenFiles, GGUFLayersOnly
  <2>3. ASSUME risk = {} PROVE InUse \subseteq blobs' \cup unwritten' /\ HandlerSound(req[s])'
    BY <1>0, <2>1, <2>3 DEF HandlerSound, LayersPresent
  <2>4. QED
    BY <1>0, <1>6, <2>1, <2>2, <2>3, BlobsKeep DEF r, UnlinkLayer, history
<1>7. ASSUME NEW l \in Layers, TouchLayer(s, l) PROVE StoreInv'
  <2> DEFINE new == [r EXCEPT !.pc = IF r.todo = {l} THEN "layers" ELSE "touch",
                              !.todo = @ \ {l}, !.goal = @ \cup {l}]
             none == [r EXCEPT !.pc = "layers", !.kind = "told", !.todo = {}, !.goal = {}]
  <2>1. ASSUME l \in blobs
        PROVE  OpenFiles(new) /\ GGUFLayersOnly(new) /\ (risk = {} => HandlerSound(new))
    BY <1>0, <1>7, <2>1 DEF r, TouchLayer, OpenFiles, GGUFLayersOnly, HandlerSound, Handler
  <2>2. Harmless(none)
    BY <1>0 DEF Harmless, Handler
  <2>3. QED
    BY <1>7, <2>1, <2>2, EndHarmless, HarmlessLocal, LocalKeeps DEF r, TouchLayer
<1>8. ASSUME NEW l \in Layers, DropLayer(s, l) PROVE StoreInv'
  <2> DEFINE kept == [r EXCEPT !.goal = @ \ {l}]
             new == [r EXCEPT !.pc = "unlinkLayer", !.goal = @ \ {l}, !.todo = {l}]
  <2>1. OpenFiles(kept) /\ GGUFLayersOnly(kept) /\ (risk = {} => HandlerSound(kept))
    BY <1>0, <1>8 DEF r, DropLayer, OpenFiles, GGUFLayersOnly, HandlerSound, Handler
  <2>2. OpenFiles(new) /\ GGUFLayersOnly(new)
    BY <1>0, <1>8 DEF r, DropLayer, OpenFiles, GGUFLayersOnly, Handler
  <2>3. ASSUME l \notin InUse, risk = {} PROVE HandlerSound(new)
    BY <1>0, <1>8, <2>3 DEF r, DropLayer, HandlerSound, Handler
  <2>4. QED
    BY <1>8, <2>1, <2>2, <2>3, LocalKeeps DEF r, DropLayer
<1>9. ASSUME NEW l \in Layers, AddLayer(s, l) PROVE StoreInv'
  <2>1. /\ r.pc = "layers" /\ Put(l)
        /\ req'[s].pc = "layers" /\ req'[s].goal = r.goal \cup {l}
        /\ Become(s, req'[s])
    BY <1>0, <1>9 DEF r, AddLayer, Become, TypeOK, Handler
  <2>2. OpenFiles(req[s])' /\ GGUFLayersOnly(req'[s])
    BY <2>1 DEF OpenFiles, GGUFLayersOnly
  <2>3. ASSUME risk = {} PROVE InUse \subseteq blobs' \cup unwritten' /\ HandlerSound(req[s])'
    <3>1. r.goal \subseteq blobs \cup unwritten /\ InUse \subseteq blobs \cup unwritten
      BY <1>0, <2>1, <2>3 DEF HandlerSound, LayersPresent
    <3>2. r.goal \subseteq blobs' \cup unwritten' /\ InUse \subseteq blobs' \cup unwritten'
          /\ l \in blobs'
      BY <2>1, <3>1, PutOK
    <3>3. QED
      BY <2>1, <3>2 DEF HandlerSound
  <2>4. QED
    BY <1>0, <1>9, <2>1, <2>2, <2>3, BlobsKeep DEF r, AddLayer, history
<1>10. ASSUME NEW l \in Layers, AddConfig(s, l) PROVE StoreInv'
  <2>1. /\ r.pc = "layers" /\ Put(l)
        /\ Become(s, req'[s])
        /\ \/ req'[s] = Idle
           \/ req'[s].pc = "truncate" /\ req'[s].goal = r.goal \cup {l}
    BY <1>0, <1>10 DEF r, AddConfig, Become, TypeOK, Handler
  <2>2. ASSUME risk = {}
        PROVE  InUse \subseteq blobs' \cup unwritten' /\ r.goal \cup {l} \subseteq blobs' \cup unwritten'
    <3>1. r.goal \subseteq blobs \cup unwritten /\ InUse \subseteq blobs \cup unwritten
      BY <1>0, <2>1, <2>2 DEF HandlerSound, LayersPresent
    <3>2. r.goal \subseteq blobs' \cup unwritten' /\ InUse \subseteq blobs' \cup unwritten'
          /\ l \in blobs'
      BY <2>1, <3>1, PutOK
    <3>3. QED
      BY <3>2
  <2>3. OpenFiles(req[s])' /\ GGUFLayersOnly(req'[s]) /\ (risk = {} => HandlerSound(req[s])')
    <3>1. CASE req'[s] = Idle
      BY <3>1, EndHarmless, HarmlessSound
    <3>2. CASE req'[s].pc = "truncate" /\ req'[s].goal = r.goal \cup {l}
      BY <2>2, <3>2 DEF OpenFiles, GGUFLayersOnly, HandlerSound
    <3>3. QED
      BY <2>1, <3>1, <3>2
  <2>4. QED
    BY <1>0, <1>10, <2>1, <2>2, <2>3, BlobsKeep DEF r, AddConfig, history
<1>11. ASSUME NEW l \in ModelLayers, NEW new \in ModelLayers, RewriteLayer(s, l, new) PROVE StoreInv'
  <2>1. /\ r.pc = "layers" /\ Put(new)
        /\ req'[s].pc = "layers" /\ req'[s].goal = (r.goal \ {l}) \cup {new}
        /\ Become(s, req'[s])
    BY <1>0, <1>11 DEF r, RewriteLayer, Become, TypeOK, Handler
  <2>2. OpenFiles(req[s])' /\ GGUFLayersOnly(req'[s])
    BY <2>1 DEF OpenFiles, GGUFLayersOnly
  <2>3. ASSUME risk = {} PROVE InUse \subseteq blobs' \cup unwritten' /\ HandlerSound(req[s])'
    <3>1. r.goal \subseteq blobs \cup unwritten /\ InUse \subseteq blobs \cup unwritten
      BY <1>0, <2>1, <2>3 DEF HandlerSound, LayersPresent
    <3>2. r.goal \subseteq blobs' \cup unwritten' /\ InUse \subseteq blobs' \cup unwritten'
          /\ new \in blobs'
      BY <2>1, <3>1, PutOK, LayersAssumption
    <3>3. QED
      BY <2>1, <3>2 DEF HandlerSound
  <2>4. QED
    BY <1>0, <1>11, <2>1, <2>2, <2>3, BlobsKeep DEF r, RewriteLayer, history
<1>12. QED
  BY <1>1, <1>2, <1>3, <1>4, <1>5, <1>6, <1>7, <1>8, <1>9, <1>10, <1>11 DEF CreateStep

\* Manifest.Remove, when the file is there.
LEMMA UnlinkKeeps ==
    ASSUME TypeOK, StoreInv, NEW s \in Slots, RemoveManifest(s),
           file[req[s].dir][req[s].name] # Absent
    PROVE  StoreInv'
<1> DEFINE r == req[s]
           d == r.dir
           n == r.name
           unlinked(t) ==
              [req[t] EXCEPT !.pc = IF Writes(t, d, n) THEN "lost" ELSE @,
                             !.from = IF Reads(t, d, n) THEN None ELSE @,
                             !.goal = IF Reads(t, d, n) THEN file[d][n] ELSE @]
<1>1. /\ r.pc = "unlinkManifest" /\ req[s].pc # "idle"
      /\ file' = [file EXCEPT ![d][n] = Absent]
      /\ req' = [t \in Slots |-> IF t = s THEN [r EXCEPT !.pc = "scan"] ELSE unlinked(t)]
      /\ UNCHANGED <<blobs, unwritten, metadata, cache, up, risk>>
  BY DEF RemoveManifest, layers, history
<1>2. d \in Dirs /\ n \in Names /\ r \in Handler
  <2>1. r \in Handler /\ HandlerOK(r)
    BY DEF TypeOK
  <2>2. QED
    BY <1>1, <2>1 DEF HandlerOK, Handler
<1>3. /\ \A e \in Dirs, k \in Names : file'[e][k] = IF e = d /\ k = n THEN Absent ELSE file[e][k]
      /\ "primary" \in Dirs /\ "aux" \in Dirs /\ WriteDir \in Dirs
      /\ d = "primary" \/ d = "aux"
  BY <1>1, <1>2 DEF TypeOK, Dirs, WriteDir
<1>4. /\ req'[s].pc = "scan"
      /\ \A t \in Slots \ {s} : req'[t] = unlinked(t)
  BY <1>1, <1>2 DEF Handler
<1>5. ASSUME NEW t \in Slots \ {s}, req[t] = Idle PROVE req'[t] = Idle
  <2>1. ~Writes(t, d, n) /\ ~Reads(t, d, n)
    BY <1>5, IdleOK DEF Writes, Reads
  <2>2. QED
    BY <1>4, <1>5, <2>1 DEF Idle
<1>6. ASSUME NEW t \in Slots \ {s}
      PROVE  /\ req'[t].pc = IF Writes(t, d, n) THEN "lost" ELSE req[t].pc
             /\ req'[t].from = IF Reads(t, d, n) THEN None ELSE req[t].from
             /\ req'[t].goal = IF Reads(t, d, n) THEN file[d][n] ELSE req[t].goal
             /\ req'[t].name = req[t].name
             /\ req'[t].todo = req[t].todo
             /\ req'[t].fresh = req[t].fresh
  <2>1. req[t] \in Handler /\ req'[t] = unlinked(t)
    BY <1>4 DEF TypeOK
  <2>2. QED
    BY <2>1 DEF Handler
<1> HIDE DEF unlinked, d, n, r
<1>7. up' /\ ("overlap" \notin risk => \A t \in Slots \ {s} : req'[t] = Idle)
  BY <1>1, <1>5, Active
<1>8. "overlap" \notin risk' => OneActive'
  BY <1>1, <1>7 DEF OneActive
<1>9. "shadow" \notin risk' => OneFile'
  BY <1>1, <1>3 DEF StoreInv, OneFile
<1>10. ASSUME NEW t \in Slots PROVE OpenFiles(req[t])'
  <2>1. CASE t = s
    BY <1>4, <2>1 DEF OpenFiles
  <2>2. CASE t # s
    <3>1. OpenFiles(req[t]) /\ HandlerOK(req[t]) /\ req[t] \in Handler
      BY DEF StoreInv, TypeOK
    <3>2. req[t].pc # "idle" => req[t].name \in Names
      BY <3>1 DEF HandlerOK
    <3>3. req[t].from \in Names \cup {None}
      BY <3>1 DEF Handler
    <3>4. file[d][n] # Absent
      BY DEF r, d, n
    <3>5. req'[t].pc = "write" => file'[WriteDir][req'[t].name] # Absent
      BY <1>3, <1>6, <2>2, <3>1, <3>2 DEF OpenFiles, Writes
    <3>6. req'[t].pc = "copyWrite" => file'["primary"][req'[t].name] # Absent
      BY <1>3, <1>6, <2>2, <3>1, <3>2 DEF OpenFiles, Writes
    <3>7. ASSUME req'[t].pc \in {"copyTruncate", "copyWrite"}
          PROVE  IF req'[t].from = None THEN req'[t].goal # Absent
                 ELSE file'["primary"][req'[t].from] # Absent
      <4>1. req[t].pc \in {"copyTruncate", "copyWrite"}
        BY <1>6, <2>2, <3>7
      <4>2. CASE Reads(t, d, n)
        BY <1>6, <2>2, <3>4, <4>2
      <4>3. CASE ~Reads(t, d, n)
        BY <1>3, <1>6, <2>2, <3>1, <3>3, <4>1, <4>3 DEF OpenFiles, Reads
      <4>4. QED
        BY <4>2, <4>3
    <3>8. QED
      BY <3>5, <3>6, <3>7 DEF OpenFiles
  <2>3. QED
    BY <2>1, <2>2
<1>11. MetadataOfModels'
  <2>1. GGUFLayersOnly(req'[s])
    BY <1>4 DEF GGUFLayersOnly
  <2>2. ASSUME NEW t \in Slots \ {s} PROVE GGUFLayersOnly(req'[t])
    <3>1. GGUFLayersOnly(req[t])
      BY DEF StoreInv, MetadataOfModels
    <3>2. QED
      BY <1>6, <3>1 DEF GGUFLayersOnly
  <2>3. QED
    BY <1>1, <2>1, <2>2 DEF StoreInv, MetadataOfModels
<1>12. ASSUME risk' = {} PROVE LayersPresent' /\ CacheSound' /\ \A t \in Slots : HandlerSound(req[t])'
  <2>1. risk = {} /\ OneFile /\ LayersPresent /\ CacheSound
    BY <1>1, <1>12 DEF StoreInv
  <2>2. ASSUME NEW k \in Names PROVE ParsedOrNone(k)' \subseteq ParsedOrNone(k)
    <3>1. CASE k # n
      BY <1>3, <3>1 DEF ParsedOrNone, Readable, Parsed, PathForName
    <3>2. CASE k = n
      <4>1. file'["primary"][n] = Absent /\ file'["aux"][n] = Absent
        BY <1>2, <1>3, <2>1 DEF OneFile, r, d, n
      <4>2. QED
        BY <3>2, <4>1 DEF ParsedOrNone, Readable, Parsed, PathForName
    <3>3. QED
      BY <3>1, <3>2
  <2>3. LayersPresent'
    BY <1>1, <2>1, <2>2 DEF LayersPresent, InUse
  <2>4. CacheSound'
    BY <1>1, <2>1 DEF CacheSound
  <2>5. \A t \in Slots : req'[t].pc \in {"idle", "scan"}
    BY <1>4, <1>7, <2>1, IdleOK
  <2>6. \A t \in Slots : HandlerSound(req[t])'
    BY <2>5 DEF HandlerSound
  <2>7. QED
    BY <2>3, <2>4, <2>6
<1>13. QED
  BY <1>7, <1>8, <1>9, <1>10, <1>11, <1>12 DEF StoreInv

\* those of a delete or a copy,
LEMMA DeleteOrCopyStepKeeps ==
    ASSUME TypeOK, StoreInv, NEW s \in Slots, DeleteOrCopyStep(s)
    PROVE  StoreInv'
<1> DEFINE r == req[s]
<1>0. /\ HandlerOK(r) /\ r \in Handler /\ OpenFiles(r) /\ GGUFLayersOnly(r)
      /\ metadata \subseteq ModelLayers
      /\ risk = {} => HandlerSound(r) /\ LayersPresent
  BY DEF TypeOK, StoreInv, MetadataOfModels
<1> HIDE DEF r
<1>1. ASSUME NEW n \in Names, DeleteModel(s, n) PROVE StoreInv'
  <2>1. Harmless([Idle EXCEPT !.pc = "unlinkManifest", !.kind = "delete", !.name = n,
                              !.dir = PathForName(n), !.old = Parsed(n)])
    BY DEF Harmless, Idle
  <2>2. QED
    BY <1>1, <2>1, HarmlessLocal, BeginKeeps DEF DeleteModel
<1>2. ASSUME NEW src \in Names, NEW dst \in Names, CopyModel(s, src, dst) PROVE StoreInv'
  <2> DEFINE new == [Idle EXCEPT !.pc = "copyTruncate", !.kind = "copy", !.name = dst, !.from = src]
  <2>1. OpenFiles(new) /\ GGUFLayersOnly(new) /\ HandlerSound(new)
    BY <1>2, ValuesAssumption DEF CopyModel, OpenFiles, GGUFLayersOnly, HandlerSound, Idle
  <2>2. QED
    BY <1>2, <2>1, BeginKeeps DEF CopyModel
<1>3. CASE RemoveManifest(s)
  <2>1. CASE file[r.dir][r.name] = Absent
    <3>1. /\ req[s].pc # "idle" /\ Become(s, Idle)
          /\ UNCHANGED <<store, cache, history, risk>>
      BY <1>3, <2>1 DEF r, RemoveManifest, store, layers
    <3>2. QED
      BY <3>1, EndHarmless, HarmlessLocal, LocalKeeps
  <2>2. CASE file[r.dir][r.name] # Absent
    BY <1>3, <2>2, UnlinkKeeps DEF r
  <2>3. QED
    BY <2>1, <2>2
<1>4. CASE CopyTruncate(s)
  <2>1. /\ r.pc = "copyTruncate" /\ r.name \in Names
        /\ req'[s] = [r EXCEPT !.pc = "copyWrite"]
        /\ Become(s, req'[s])
        /\ file' = [file EXCEPT !["primary"][r.name] = Torn]
        /\ UNCHANGED <<blobs, unwritten, metadata, cache, history>> /\ req[s].pc # "idle"
    BY <1>0, <1>4 DEF r, CopyTruncate, Become, TypeOK, HandlerOK, layers
  <2>2. /\ "primary" \in Dirs
        /\ \A k \in Names : file'["primary"][k] = IF k = r.name THEN Torn ELSE file["primary"][k]
    BY <2>1 DEF TypeOK, Dirs
  <2>3. /\ req'[s].pc = "copyWrite" /\ req'[s].name = r.name
        /\ req'[s].from = r.from /\ req'[s].goal = r.goal /\ r.from \in Names \cup {None}
    BY <1>0, <2>1 DEF Handler
  <2>4. OpenFiles(req[s])' /\ GGUFLayersOnly(req'[s])
    BY <1>0, <2>1, <2>2, <2>3, ValuesAssumption DEF OpenFiles, GGUFLayersOnly
  <2>5. /\ risk \subseteq risk'
        /\ "overlap" \in risk' => "overlap" \in risk
        /\ "shadow" \notin risk' => file[OtherDir("primary")][r.name] = Absent
    BY <1>4 DEF r, CopyTruncate, OtherDir
  <2>6. ASSUME risk' = {} PROVE HandlerSound(req[s])'
    BY <1>0, <2>1, <2>3, <2>5, <2>6 DEF HandlerSound
  <2>7. Torn \in Files /\ Torn # Absent
    BY ValuesAssumption DEF Files
  <2>8. QED
    BY <2>1, <2>2, <2>4, <2>5, <2>6, <2>7, FileKeeps
<1>5. CASE CopyWrite(s)
  <2> DEFINE m == IF r.from # None THEN file["primary"][r.from] ELSE r.goal
  <2>1. /\ r.pc = "copyWrite" /\ r.name \in Names /\ r.from \in Names \cup {None} /\ r.goal \in Files
        /\ req'[s] = Idle /\ Become(s, req'[s])
        /\ file' = [file EXCEPT !["primary"][r.name] = m]
        /\ UNCHANGED <<blobs, unwritten, metadata, cache, history, risk>> /\ req[s].pc # "idle"
    BY <1>0, <1>5 DEF r, CopyWrite, Become, TypeOK, HandlerOK, Handler, layers
  <2>2. "primary" \in Dirs /\ m \in Files /\ m # Absent
    BY <1>0, <2>1 DEF TypeOK, Dirs, OpenFiles
  <2>3. HandlerSound(req[s])' /\ OpenFiles(req[s])' /\ GGUFLayersOnly(req'[s])
    BY <2>1, EndHarmless, HarmlessSound
  <2>4. "shadow" \notin risk => file[OtherDir("primary")][r.name] = Absent
    BY <1>0, <2>1 DEF OpenFiles, StoreInv, OneFile, OtherDir
  <2>5. ASSUME risk = {} PROVE m \subseteq blobs \cup unwritten \/ m = Torn
    <3>1. r.from \in Names /\ m = file["primary"][r.from] /\ LayersPresent
      BY <1>0, <2>1, <2>5 DEF HandlerSound
    <3>2. Parsed(r.from) = m
      BY <2>2, <3>1 DEF Parsed, PathForName
    <3>3. CASE m # Torn
      <4>1. ParsedOrNone(r.from) = m
        BY <2>2, <3>2, <3>3 DEF ParsedOrNone, Readable
      <4>2. QED
        BY <3>1, <4>1 DEF LayersPresent, InUse
    <3>4. QED
      BY <3>3
  <2> HIDE DEF m
  <2>6. QED
    BY <2>1, <2>2, <2>3, <2>4, <2>5, FileKeeps
<1>6. QED
  BY <1>1, <1>2, <1>3, <1>4, <1>5 DEF DeleteOrCopyStep

\* and those of a show.
LEMMA ShowStepKeeps ==
    ASSUME TypeOK, StoreInv, NEW s \in Slots, ShowStep(s)
    PROVE  StoreInv'
<1> DEFINE r == req[s]
<1>0. /\ HandlerOK(r) /\ r \in Handler /\ OpenFiles(r) /\ GGUFLayersOnly(r)
      /\ metadata \subseteq ModelLayers
      /\ risk = {} => HandlerSound(r) /\ LayersPresent
  BY DEF TypeOK, StoreInv, MetadataOfModels
<1> HIDE DEF r
<1>1. ASSUME NEW n \in Names, ShowModel(s, n) PROVE StoreInv'
  <2> DEFINE new == [Idle EXCEPT !.pc = "info", !.kind = "show", !.name = n, !.goal = Parsed(n)]
  <2>1. OpenFiles(new) /\ GGUFLayersOnly(new) /\ HandlerSound(new)
    BY DEF OpenFiles, GGUFLayersOnly, HandlerSound, Idle
  <2>2. QED
    BY <1>1, <2>1, BeginKeeps DEF ShowModel
<1>2. CASE GetModelCapabilities(s)
  <2> DEFINE new == [r EXCEPT !.pc = "metadata", !.old = Parsed(r.name),
                              !.todo = Parsed(r.name) \cap ModelLayers]
  <2>1. r.pc = "info"
    BY <1>2 DEF r, GetModelCapabilities
  <2>2. OpenFiles(new) /\ (risk = {} => HandlerSound(new))
    BY <1>0, <2>1 DEF OpenFiles, HandlerSound, Handler
  <2>3. GGUFLayersOnly(new)
    BY <1>0, <2>1 DEF GGUFLayersOnly, Handler
  <2>4. QED
    BY <1>2, <2>2, <2>3, EndHarmless, HarmlessLocal, LocalKeeps DEF r, GetModelCapabilities
<1>3. CASE PublishMetadata(s)
  <2>1. /\ r.pc = "publish" /\ metadata' \subseteq metadata \cup r.fresh
        /\ \/ req'[s] = [r EXCEPT !.pc = "recheck"]
           \/ req'[s] = [r EXCEPT !.pc = "metadata", !.fresh = {}]
        /\ Become(s, req'[s])
        /\ UNCHANGED <<file, blobs, unwritten, cache, up, risk>>
    BY <1>3 DEF r, PublishMetadata, Become, TypeOK, layers, history
  <2>2. /\ OpenFiles(req[s])' /\ GGUFLayersOnly(req'[s])
        /\ risk = {} => HandlerSound(req[s])'
        /\ metadata' \subseteq ModelLayers
    <3>1. CASE req'[s] = [r EXCEPT !.pc = "recheck"]
      BY <1>0, <2>1, <3>1 DEF OpenFiles, GGUFLayersOnly, HandlerSound, Handler
    <3>2. CASE req'[s] = [r EXCEPT !.pc = "metadata", !.fresh = {}]
      BY <1>0, <2>1, <3>2 DEF OpenFiles, GGUFLayersOnly, HandlerSound, Handler
    <3>3. QED
      BY <2>1, <3>1, <3>2
  <2>3. QED
    BY <1>0, <2>1, <2>2, BlobsKeep DEF r, LayersPresent
<1>4. CASE RecheckBlob(s)
  <2> DEFINE kept == [r EXCEPT !.pc = "metadata", !.fresh = {}]
             back == [r EXCEPT !.pc = "unpublish"]
  <2>1. OpenFiles(kept) /\ GGUFLayersOnly(kept) /\ (risk = {} => HandlerSound(kept))
    BY <1>0, <1>4 DEF r, RecheckBlob, OpenFiles, GGUFLayersOnly, HandlerSound, Handler
  <2>2. OpenFiles(back) /\ GGUFLayersOnly(back) /\ (risk = {} => HandlerSound(back))
    BY <1>0, <1>4 DEF r, RecheckBlob, OpenFiles, GGUFLayersOnly, HandlerSound, Handler
  <2>3. QED
    BY <1>4, <2>1, <2>2, LocalKeeps DEF r, RecheckBlob
<1>5. CASE UnpublishMetadata(s)
  <2>1. /\ r.pc = "unpublish" /\ metadata' \subseteq metadata
        /\ req'[s] = [r EXCEPT !.pc = "metadata", !.fresh = {}] /\ Become(s, req'[s])
        /\ UNCHANGED <<file, blobs, unwritten, cache, up, risk>>
    BY <1>5 DEF r, UnpublishMetadata, DropMetadata, Become, TypeOK, layers
  <2>2. /\ OpenFiles(req[s])' /\ GGUFLayersOnly(req'[s])
        /\ risk = {} => HandlerSound(req[s])'
        /\ metadata' \subseteq ModelLayers
    BY <1>0, <2>1 DEF OpenFiles, GGUFLayersOnly, HandlerSound, Handler
  <2>3. QED
    BY <1>0, <2>1, <2>2, BlobsKeep DEF r, LayersPresent
<1>6. CASE SetLocal(s)
  <2>1. /\ r.pc = "metadata" /\ req[s].pc # "idle" /\ r.name \in Names
        /\ req'[s] = Idle /\ \A t \in Slots \ {s} : req'[t] = req[t]
        /\ UNCHANGED <<file, blobs, unwritten, metadata, up, risk>>
        /\ cache' = IF r.old \subseteq blobs
                    THEN [cache EXCEPT ![r.name] = [digest |-> r.goal, response |-> r.old]]
                    ELSE cache
    BY <1>0, <1>6 DEF r, SetLocal, Become, TypeOK, store, layers, history, HandlerOK
  <2>2. HandlerSound(req[s])' /\ OpenFiles(req[s])' /\ GGUFLayersOnly(req'[s])
    BY <2>1, EndHarmless, HarmlessSound
  <2>3. InUse' = InUse
    BY <2>1, SameFiles
  <2>4. ASSUME risk = {} PROVE LayersPresent' /\ CacheSound'
    <3>1. r.goal = r.old /\ CacheSound
      BY <1>0, <2>1, <2>4 DEF HandlerSound, StoreInv
    <3>2. QED
      BY <1>0, <2>1, <2>3, <2>4, <3>1 DEF LayersPresent, CacheSound, TypeOK
  <2>5. QED
    BY <1>0, <2>1, <2>2, <2>4, MoveKeeps
<1>7. ASSUME NEW l \in Layers, ReadGGUFMetadata(s, l) PROVE StoreInv'
  <2> DEFINE new == [r EXCEPT !.pc = "publish", !.todo = @ \ {l}, !.fresh = {l}]
             skip == [r EXCEPT !.todo = @ \ {l}]
  <2>1. OpenFiles(new) /\ GGUFLayersOnly(new) /\ (risk = {} => HandlerSound(new))
    BY <1>0, <1>7 DEF r, ReadGGUFMetadata, OpenFiles, GGUFLayersOnly, HandlerSound, Handler
  <2>2. OpenFiles(skip) /\ GGUFLayersOnly(skip) /\ (risk = {} => HandlerSound(skip))
    BY <1>0, <1>7 DEF r, ReadGGUFMetadata, OpenFiles, GGUFLayersOnly, HandlerSound, Handler
  <2>3. QED
    BY <1>7, <2>1, <2>2, LocalKeeps DEF r, ReadGGUFMetadata
<1>8. QED
  BY <1>1, <1>2, <1>3, <1>4, <1>5, <1>6, <1>7 DEF ShowStep

\* An empty store is sound.
LEMMA StoreInvInit == Init => StoreInv
<1> SUFFICES ASSUME Init PROVE StoreInv
  OBVIOUS
<1>1. \A s \in Slots : req[s] = Idle /\ Harmless(req[s])
  BY EndHarmless DEF Init
<1>2. \A s \in Slots : HandlerSound(req[s]) /\ OpenFiles(req[s]) /\ GGUFLayersOnly(req[s])
  BY <1>1, HarmlessLocal
<1>3. OneFile
  BY DEF Init, OneFile
<1>4. OneActive
  BY <1>1 DEF OneActive
<1>5. LayersPresent /\ CacheSound /\ MetadataOfModels
  BY <1>2 DEF Init, LayersPresent, CacheSound, NoEntry, MetadataOfModels
<1>6. QED
  BY <1>1, <1>2, <1>3, <1>4, <1>5 DEF StoreInv

\* StoreInv is inductive.
LEMMA StoreInvNext == TypeOK /\ StoreInv /\ [Next]_vars => StoreInv'
<1> SUFFICES ASSUME TypeOK, StoreInv, [Next]_vars PROVE StoreInv'
  OBVIOUS
<1>1. ASSUME NEW s \in Slots,
             PullStep(s) \/ RemoveStep(s) \/ CreateStep(s) \/ DeleteOrCopyStep(s) \/ ShowStep(s)
      PROVE  StoreInv'
  BY <1>1, PullStepKeeps, RemoveStepKeeps, CreateStepKeeps, DeleteOrCopyStepKeeps, ShowStepKeeps
<1>2. ASSUME UNCHANGED <<file, metadata, cache, req, up, risk>>,
             risk = {} => InUse \subseteq blobs' \cup unwritten',
             risk = {} => \A s \in Slots : HandlerSound(req[s])'
      PROVE  StoreInv'
  <2>1. InUse' = InUse
    BY <1>2, SameFiles
  <2>2. \A s \in Slots : OpenFiles(req[s])'
    BY <1>2 DEF StoreInv, OpenFiles
  <2>3. OneActive' <=> OneActive
    BY <1>2 DEF OneActive
  <2>4. OneFile' <=> OneFile
    BY <1>2 DEF OneFile
  <2>5. MetadataOfModels'
    BY <1>2 DEF StoreInv, MetadataOfModels
  <2>6. risk = {} => LayersPresent' /\ CacheSound'
    BY <1>2, <2>1 DEF StoreInv, LayersPresent, CacheSound
  <2>7. QED
    BY <1>2, <2>2, <2>3, <2>4, <2>5, <2>6 DEF StoreInv
<1>3. ASSUME NEW l \in Layers, CreateBlob(l) PROVE StoreInv'
  <2>1. /\ UNCHANGED <<file, metadata, cache, req, up, risk>>
        /\ blobs \cup unwritten \subseteq blobs' \cup unwritten'
    BY <1>3 DEF CreateBlob, Put
  <2>2. InUse' = InUse /\ \A n : Parsed(n)' = Parsed(n)
    BY <2>1, SameFiles
  <2>3. ASSUME risk = {}, NEW s \in Slots PROVE HandlerSound(req[s])'
    <3>1. HandlerSound(req[s])
      BY <2>3 DEF StoreInv
    <3>2. QED
      BY <2>1, <2>2, <3>1 DEF HandlerSound
  <2>4. risk = {} => InUse \subseteq blobs' \cup unwritten'
    BY <2>1 DEF StoreInv, LayersPresent
  <2>5. QED
    BY <1>2, <2>1, <2>3, <2>4
<1>4. CASE (\E n \in Names : ShowCached(n)) \/ UNCHANGED vars
  <2>1. UNCHANGED <<file, blobs, unwritten, metadata, cache, req, up, risk>>
    BY <1>4 DEF ShowCached, vars, store, layers
  <2>2. InUse' = InUse /\ \A n : Parsed(n)' = Parsed(n)
    BY <2>1, SameFiles
  <2>3. ASSUME risk = {}, NEW s \in Slots PROVE HandlerSound(req[s])'
    <3>1. HandlerSound(req[s])
      BY <2>3 DEF StoreInv
    <3>2. QED
      BY <2>1, <2>2, <3>1 DEF HandlerSound
  <2>4. risk = {} => InUse \subseteq blobs' \cup unwritten'
    BY <2>1 DEF StoreInv, LayersPresent
  <2>5. QED
    BY <1>2, <2>1, <2>3, <2>4
<1>5. CASE Crash
  <2>1. /\ UNCHANGED <<file, blobs, unwritten, metadata, risk>>
        /\ cache' = [n \in Names |-> NoEntry]
        /\ \A s \in Slots : req'[s] = Idle
    BY <1>5 DEF Crash, store, layers
  <2>2. \A s \in Slots : Harmless(req'[s])
    BY <2>1, EndHarmless
  <2>3. \A s \in Slots : HandlerSound(req[s])' /\ OpenFiles(req[s])' /\ GGUFLayersOnly(req'[s])
    BY <2>2, HarmlessSound
  <2>4. InUse' = InUse
    BY <2>1, SameFiles
  <2>5. OneActive' /\ (OneFile' <=> OneFile)
    BY <2>1 DEF OneActive, OneFile
  <2>6. MetadataOfModels'
    BY <2>1, <2>3 DEF StoreInv, MetadataOfModels
  <2>7. CacheSound'
    BY <2>1 DEF CacheSound, NoEntry
  <2>8. risk = {} => LayersPresent'
    BY <2>1, <2>4 DEF StoreInv, LayersPresent
  <2>9. QED
    BY <2>1, <2>3, <2>5, <2>6, <2>7, <2>8 DEF StoreInv
<1>6. ASSUME NEW expired \in SUBSET blobs, Serve(expired) PROVE StoreInv'
  <2>1. /\ UNCHANGED <<file, cache, req, risk>> /\ ~up /\ metadata' \subseteq metadata
        /\ blobs' = blobs \ (expired \ InUse) \/ blobs' = blobs
        /\ unwritten' = unwritten
    BY <1>6 DEF Serve
  <2>2. \A s \in Slots : req'[s] = Idle /\ Harmless(req'[s])
    BY <2>1, EndHarmless DEF StoreInv
  <2>3. \A s \in Slots : HandlerSound(req[s])' /\ OpenFiles(req[s])' /\ GGUFLayersOnly(req'[s])
    BY <2>2, HarmlessSound
  <2>4. InUse' = InUse
    BY <2>1, SameFiles
  <2>5. OneActive' /\ (OneFile' <=> OneFile)
    BY <2>1, <2>2 DEF OneActive, OneFile
  <2>6. MetadataOfModels'
    BY <2>1, <2>3 DEF StoreInv, MetadataOfModels
  <2>7. risk = {} => LayersPresent' /\ CacheSound'
    BY <2>1, <2>4 DEF StoreInv, LayersPresent, CacheSound
  <2>8. QED
    BY <2>1, <2>2, <2>3, <2>5, <2>6, <2>7 DEF StoreInv
<1>7. QED
  BY <1>1, <1>3, <1>4, <1>5, <1>6 DEF Next

\* The inductive invariant of the store holds in every state.
THEOREM StoreInvCorrect == Spec => []StoreInv
BY TypeInit, TypeNext, StoreInvInit, StoreInvNext, PTL DEF Spec

\* While requests come one at a time and no name is in both directories, every
\* readable manifest names blobs that exist, whatever fails, wherever the
\* server is killed and whatever the prune at its next start removes.  The one
\* exception is a config that a sharded pull failed to write without noticing.
THEOREM ManifestsNameBlobs == Spec => []StoreSound
<1>1. StoreInv => StoreSound
  BY DEF StoreInv, StoreSound
<1>2. QED
  BY <1>1, StoreInvCorrect, PTL

\* A show answered from the cache describes the manifest that is there now,
\* while requests come one at a time: no writer of a manifest has to tell the
\* cache, because the key has the digest of the manifest.
THEOREM ShowAnswersCurrent == Spec => ShownIsCurrent
<1>1. StoreInv /\ [Next]_vars =>
        [\A n \in Names : ShowCached(n) /\ risk = {} => cache[n].response = Parsed(n)]_vars
  BY DEF StoreInv, CacheSound, ShowCached, Cached
<1>2. QED
  BY <1>1, StoreInvCorrect, PTL DEF Spec, ShownIsCurrent

-----------------------------------------------------------------------------
(***************************************************************************)
(* Metadata files                                                          *)
(***************************************************************************)

\* The metadata file of l does not need a sweeper, or has one.
Swept(l) == l \in leftover \/ \E s \in Slots : WillSweep(req[s], l)

\* A step of one handler that removes no blob but those that it will sweep,
\* adds no metadata file but those, and still sweeps the others it was to.
LEMMA SweepFrame ==
    ASSUME MetadataSwept, NEW s \in Slots,
           \A t \in Slots \ {s} : req'[t] = req[t],
           \A l \in metadata' \ blobs' :
              /\ l \in metadata \ blobs \/ WillSweep(req'[s], l)
              /\ WillSweep(req[s], l) => WillSweep(req'[s], l) \/ l \in leftover'
              /\ l \in leftover => l \in leftover'
    PROVE  MetadataSwept'
<1> SUFFICES ASSUME NEW l \in metadata' \ blobs' PROVE Swept(l)'
  BY DEF MetadataSwept, Swept
<1>1. CASE WillSweep(req'[s], l) \/ l \in leftover'
  BY <1>1 DEF Swept
<1>2. CASE ~WillSweep(req'[s], l) /\ l \notin leftover'
  <2>1. l \in metadata \ blobs /\ ~WillSweep(req[s], l)
    BY <1>2
  <2>2. l \in leftover \/ \E t \in Slots \ {s} : WillSweep(req[t], l)
    BY <2>1 DEF MetadataSwept
  <2>3. QED
    BY <1>2, <2>2 DEF Swept
<1>3. QED
  BY <1>1, <1>2

\* A handler that sweeps nothing moves, and takes no blob away.
LEMMA SweepQuiet ==
    ASSUME TypeOK, MetadataSwept, NEW s \in Slots, Become(s, req'[s]),
           req[s].pc \notin {"remove", "recheck", "unpublish"},
           UNCHANGED <<metadata, leftover>>, blobs \subseteq blobs'
    PROVE  MetadataSwept'
<1>1. \A t \in Slots \ {s} : req'[t] = req[t]
  BY DEF TypeOK, Become
<1>2. \A l : ~WillSweep(req[s], l)
  BY DEF WillSweep
<1>3. QED
  BY <1>1, <1>2, SweepFrame

\* The steps of a pull leave every metadata file its blob or its remover.
LEMMA PullSweeps ==
    ASSUME TypeOK, MetadataSwept, NEW s \in Slots, PullStep(s)
    PROVE  MetadataSwept'
<1>1. ASSUME NEW n \in Names, PullModel(s, n) PROVE MetadataSwept'
  BY <1>1, IdleOK, SweepQuiet DEF PullModel, Begin, Become, store, layers, TypeOK
<1>2. ASSUME NEW c \in Contents, PullShards(s, c) \/ PullUnified(s, c) PROVE MetadataSwept'
  BY <1>2, SweepQuiet DEF PullShards, PullUnified, Become, store, layers, history, TypeOK
<1>3. ASSUME NEW l \in Layers, FetchLayer(s, l) \/ VerifyLayer(s, l) PROVE MetadataSwept'
  BY <1>3, SweepQuiet DEF FetchLayer, VerifyLayer, Put, Become, store, layers, history, TypeOK
<1>4. CASE TruncateManifest(s) \/ WriteManifest(s) \/ WriteUnlinked(s) \/ Fail(s)
  BY <1>4, SweepQuiet
  DEF TruncateManifest, WriteManifest, WriteUnlinked, Fail, Become, store, layers, history, TypeOK
<1>5. ASSUME NEW l \in Layers, MergeShards(s, l) PROVE MetadataSwept'
  BY <1>5, SweepQuiet DEF MergeShards, Put, Become, history, TypeOK
<1>6. ASSUME NEW l \in Layers, NEW made \in BOOLEAN, WriteConfig(s, l, made) PROVE MetadataSwept'
  BY <1>6, SweepQuiet DEF WriteConfig, Put, Become, history, TypeOK
<1>7. CASE ShardsFail(s)
  BY <1>7, SweepQuiet DEF ShardsFail, Become, store, layers, history, TypeOK
<1>8. QED
  BY <1>1, <1>2, <1>3, <1>4, <1>5, <1>6, <1>7 DEF PullStep

\* So do the removals,
LEMMA RemoveSweeps ==
    ASSUME TypeOK, MetadataSwept, NEW s \in Slots, RemoveStep(s)
    PROVE  MetadataSwept'
<1>0. req[s] \in Handler
  BY DEF TypeOK
<1>1. CASE ScanManifests(s)
  BY <1>1, SweepQuiet DEF ScanManifests, Become, store, layers, history, TypeOK
<1>2. ASSUME NEW l \in Layers, RemoveBlob(s, l) PROVE MetadataSwept'
  <2>1. /\ req'[s].pc = "remove" /\ req'[s].gone = req[s].gone \cup {l}
        /\ \A t \in Slots \ {s} : req'[t] = req[t]
        /\ req[s].pc = "remove" /\ blobs' = blobs \ {l} /\ UNCHANGED <<metadata, leftover>>
    BY <1>0, <1>2 DEF RemoveBlob, Become, TypeOK, Handler, layers, history
  <2>2. QED
    BY <2>1, SweepFrame DEF WillSweep
<1>3. ASSUME NEW l \in Layers, RemoveMetadata(s, l) PROVE MetadataSwept'
  <2>1. /\ req'[s] = IF req[s].todo = {} /\ req[s].gone = {l} THEN Finished(req[s])
                     ELSE [req[s] EXCEPT !.gone = @ \ {l}]
        /\ \A t \in Slots \ {s} : req'[t] = req[t]
        /\ req[s].pc = "remove" /\ blobs' = blobs /\ DropMetadata({l})
    BY <1>3 DEF RemoveMetadata, Become, TypeOK, layers
  <2>2. req[s].gone # {l} => req'[s].pc = "remove" /\ req'[s].gone = req[s].gone \ {l}
    BY <1>0, <2>1 DEF Handler
  <2>3. \A k : k # l /\ WillSweep(req[s], k) => WillSweep(req'[s], k)
    BY <2>1, <2>2 DEF WillSweep
  <2>4. /\ metadata' \subseteq metadata
        /\ \A k \in metadata' : (k = l \/ k \in leftover) => k \in leftover'
    BY <2>1 DEF DropMetadata
  <2>5. QED
    BY <2>1, <2>3, <2>4, SweepFrame
<1>4. CASE SkipRemoval(s)
  BY <1>4, SweepQuiet DEF SkipRemoval, Become, store, layers, history, TypeOK
<1>5. ASSUME NEW l \in Layers, KeepBlob(s, l) PROVE MetadataSwept'
  <2> DEFINE rest == IF req[s].kind = "pull" THEN req[s].todo \ {l} ELSE {}
  <2>1. /\ req'[s] = IF rest = {} /\ req[s].gone = {} THEN Finished(req[s])
                     ELSE [req[s] EXCEPT !.todo = rest]
        /\ \A t \in Slots \ {s} : req'[t] = req[t]
        /\ req[s].pc = "remove" /\ UNCHANGED <<blobs, metadata, leftover>>
    BY <1>5 DEF KeepBlob, Become, TypeOK, store, layers, history
  <2> HIDE DEF rest
  <2>2. req[s].gone # {} => req'[s].pc = "remove" /\ req'[s].gone = req[s].gone
    BY <1>0, <2>1 DEF Handler
  <2>3. \A k : WillSweep(req[s], k) => WillSweep(req'[s], k)
    BY <2>1, <2>2 DEF WillSweep
  <2>4. QED
    BY <2>1, <2>3, SweepFrame
<1>6. QED
  BY <1>1, <1>2, <1>3, <1>4, <1>5 DEF RemoveStep

\* the steps of a create,
LEMMA CreateSweeps ==
    ASSUME TypeOK, StoreInv, MetadataSwept, NEW s \in Slots, CreateStep(s)
    PROVE  MetadataSwept'
<1>1. ASSUME NEW n \in Names, NEW f \in Names, CreateFrom(s, n, f) PROVE MetadataSwept'
  BY <1>1, IdleOK, SweepQuiet DEF CreateFrom, Begin, Become, store, layers, TypeOK
<1>2. ASSUME NEW n \in Names, NEW l \in ModelLayers, CreateFromFile(s, n, l) PROVE MetadataSwept'
  BY <1>2, IdleOK, SweepQuiet DEF CreateFromFile, Begin, Become, store, layers, TypeOK
<1>3. CASE ReadBase(s) \/ PullBase(s) \/ BaseFails(s)
  BY <1>3, SweepQuiet DEF ReadBase, PullBase, BaseFails, Become, store, layers, history, TypeOK
<1>4. CASE UnlinkLayer(s)
  <2>1. /\ \A t \in Slots \ {s} : req'[t] = req[t]
        /\ req[s].pc = "unlinkLayer" /\ blobs \ req[s].todo \subseteq blobs'
        /\ UNCHANGED <<metadata, leftover>>
    BY <1>4 DEF UnlinkLayer, Become, TypeOK, layers, history
  <2>2. metadata \cap req[s].todo = {}
    BY <2>1 DEF StoreInv, MetadataOfModels, GGUFLayersOnly
  <2>3. \A l : ~WillSweep(req[s], l)
    BY <2>1 DEF WillSweep
  <2>4. QED
    BY <2>1, <2>2, <2>3, SweepFrame
<1>5. ASSUME NEW l \in Layers, TouchLayer(s, l) \/ DropLayer(s, l) PROVE MetadataSwept'
  BY <1>5, SweepQuiet DEF TouchLayer, DropLayer, Become, store, layers, history, TypeOK
<1>6. ASSUME NEW l \in Layers, AddLayer(s, l) \/ AddConfig(s, l) PROVE MetadataSwept'
  BY <1>6, SweepQuiet DEF AddLayer, AddConfig, Put, Become, history, TypeOK
<1>7. ASSUME NEW l \in ModelLayers, NEW new \in ModelLayers, RewriteLayer(s, l, new)
      PROVE  MetadataSwept'
  BY <1>7, SweepQuiet DEF RewriteLayer, Put, Become, history, TypeOK
<1>8. QED
  BY <1>1, <1>2, <1>3, <1>4, <1>5, <1>6, <1>7 DEF CreateStep

\* those of a delete or a copy,
LEMMA DeleteOrCopySweeps ==
    ASSUME TypeOK, MetadataSwept, NEW s \in Slots, DeleteOrCopyStep(s)
    PROVE  MetadataSwept'
<1>1. ASSUME NEW n \in Names, DeleteModel(s, n) PROVE MetadataSwept'
  BY <1>1, IdleOK, SweepQuiet DEF DeleteModel, Begin, Become, store, layers, TypeOK
<1>2. ASSUME NEW src \in Names, NEW dst \in Names, CopyModel(s, src, dst) PROVE MetadataSwept'
  BY <1>2, IdleOK, SweepQuiet DEF CopyModel, Begin, Become, store, layers, TypeOK
<1>3. CASE RemoveManifest(s)
  <2>1. ASSUME NEW t \in Slots, NEW l, WillSweep(req[t], l) PROVE WillSweep(req'[t], l)
    <3>1. req[t] \in Handler /\ req[s].pc = "unlinkManifest" /\ t # s
      BY <1>3, <2>1 DEF RemoveManifest, TypeOK, WillSweep
    <3>2. ~Writes(t, req[s].dir, req[s].name)
      BY <2>1 DEF WillSweep, Writes
    <3>3. req'[t].pc = req[t].pc /\ req'[t].gone = req[t].gone /\ req'[t].fresh = req[t].fresh
      <4>1. CASE file[req[s].dir][req[s].name] = Absent
        BY <1>3, <3>1, <4>1 DEF RemoveManifest, Become, TypeOK
      <4>2. CASE file[req[s].dir][req[s].name] # Absent
        <5> DEFINE reads == Reads(t, req[s].dir, req[s].name)
        <5>1. req'[t] = [req[t] EXCEPT !.pc = @, !.from = IF reads THEN None ELSE @,
                            !.goal = IF reads THEN file[req[s].dir][req[s].name] ELSE @]
          BY <1>3, <3>1, <3>2, <4>2 DEF RemoveManifest
        <5> HIDE DEF reads
        <5>2. QED
          BY <3>1, <5>1 DEF Handler
      <4>3. QED
        BY <4>1, <4>2
    <3>4. QED
      BY <2>1, <3>3 DEF WillSweep
  <2>2. UNCHANGED <<blobs, metadata, leftover>>
    BY <1>3 DEF RemoveManifest, layers, history
  <2>3. QED
    BY <2>1, <2>2 DEF MetadataSwept
<1>4. CASE CopyTruncate(s) \/ CopyWrite(s)
  BY <1>4, SweepQuiet DEF CopyTruncate, CopyWrite, Become, layers, history, TypeOK
<1>5. QED
  BY <1>1, <1>2, <1>3, <1>4 DEF DeleteOrCopyStep

\* and those of a show, which publishes a metadata file and looks again.
LEMMA ShowSweeps ==
    ASSUME TypeOK, MetadataSwept, NEW s \in Slots, ShowStep(s)
    PROVE  MetadataSwept'
<1>0. req[s] \in Handler
  BY DEF TypeOK
<1>1. ASSUME NEW n \in Names, ShowModel(s, n) PROVE MetadataSwept'
  BY <1>1, IdleOK, SweepQuiet DEF ShowModel, Begin, Become, store, layers, TypeOK
<1>2. CASE GetModelCapabilities(s) \/ SetLocal(s)
  BY <1>2, SweepQuiet DEF GetModelCapabilities, SetLocal, Become, store, layers, history, TypeOK
<1>3. CASE PublishMetadata(s)
  <2>1. /\ \/ /\ req'[s].pc = "recheck" /\ req'[s].fresh = req[s].fresh
              /\ metadata' = metadata \cup req[s].fresh
           \/ metadata' = metadata
        /\ \A t \in Slots \ {s} : req'[t] = req[t]
        /\ req[s].pc = "publish" /\ UNCHANGED <<blobs, leftover>>
    BY <1>0, <1>3 DEF PublishMetadata, Become, TypeOK, Handler, layers, history
  <2>2. QED
    BY <2>1, SweepFrame DEF WillSweep
<1>4. CASE RecheckBlob(s)
  <2>0. /\ req[s].pc = "recheck" /\ UNCHANGED <<blobs, metadata, leftover>>
        /\ Become(s, IF req[s].fresh \subseteq blobs
                     THEN [req[s] EXCEPT !.pc = "metadata", !.fresh = {}]
                     ELSE [req[s] EXCEPT !.pc = "unpublish"])
    BY <1>4 DEF RecheckBlob, store, layers, history
  <2>1. /\ \A t \in Slots \ {s} : req'[t] = req[t]
        /\ req[s].fresh \subseteq blobs \/ req'[s] = [req[s] EXCEPT !.pc = "unpublish"]
    BY <2>0 DEF Become, TypeOK
  <2>2. CASE req[s].fresh \subseteq blobs
    BY <2>0, <2>1, <2>2, SweepFrame DEF WillSweep
  <2>3. CASE req'[s] = [req[s] EXCEPT !.pc = "unpublish"]
    <3>1. req'[s].pc = "unpublish" /\ req'[s].fresh = req[s].fresh
      BY <1>0, <2>3 DEF Handler
    <3>2. QED
      BY <2>0, <2>1, <3>1, SweepFrame DEF WillSweep
  <2>4. QED
    BY <2>1, <2>2, <2>3
<1>5. CASE UnpublishMetadata(s)
  <2>1. /\ req[s].pc = "unpublish" /\ DropMetadata(req[s].fresh)
        /\ blobs' = blobs /\ \A t \in Slots \ {s} : req'[t] = req[t]
    BY <1>5 DEF UnpublishMetadata, Become, TypeOK, layers
  <2>2. /\ metadata' \subseteq metadata
        /\ \A k \in metadata' : (k \in req[s].fresh \/ k \in leftover) => k \in leftover'
    BY <2>1 DEF DropMetadata
  <2>3. QED
    BY <2>1, <2>2, SweepFrame DEF WillSweep
<1>6. ASSUME NEW l \in Layers, ReadGGUFMetadata(s, l) PROVE MetadataSwept'
  BY <1>6, SweepQuiet DEF ReadGGUFMetadata, Become, store, layers, history, TypeOK
<1>7. QED
  BY <1>1, <1>2, <1>3, <1>4, <1>5, <1>6 DEF ShowStep

\* MetadataSwept is kept by every step.
LEMMA SweptNext == TypeOK /\ StoreInv /\ MetadataSwept /\ [Next]_vars => MetadataSwept'
<1> SUFFICES ASSUME TypeOK, StoreInv, MetadataSwept, [Next]_vars PROVE MetadataSwept'
  OBVIOUS
<1>1. ASSUME NEW s \in Slots,
             PullStep(s) \/ RemoveStep(s) \/ CreateStep(s) \/ DeleteOrCopyStep(s) \/ ShowStep(s)
      PROVE  MetadataSwept'
  BY <1>1, PullSweeps, RemoveSweeps, CreateSweeps, DeleteOrCopySweeps, ShowSweeps
<1>2. ASSUME NEW l \in Layers, CreateBlob(l) PROVE MetadataSwept'
  BY <1>2 DEF CreateBlob, Put, MetadataSwept
<1>3. CASE (\E n \in Names : ShowCached(n)) \/ UNCHANGED vars
  BY <1>3 DEF ShowCached, vars, store, layers, MetadataSwept
<1>4. CASE Crash
  BY <1>4 DEF Crash, store, layers, MetadataSwept
<1>5. ASSUME NEW expired \in SUBSET blobs, Serve(expired) PROVE MetadataSwept'
  <2>1. CASE Prunes
    BY <1>5, <2>1 DEF Serve, MetadataSwept
  <2>2. CASE ~Prunes
    BY <1>5, <2>2 DEF Serve, MetadataSwept
  <2>3. QED
    BY <2>1, <2>2
<1>6. QED
  BY <1>1, <1>2, <1>3, <1>4, <1>5 DEF Next

\* However requests interleave, a metadata file whose blob is gone has someone
\* who will remove it: the writer, which looks again after publishing, the
\* remover of the blob, or, after a crash or a failed removal, the prune at a
\* start.
THEOREM MetadataHasSweeper == Spec => []MetadataSwept
<1>1. Init => MetadataSwept
  BY DEF Init, MetadataSwept
<1>2. QED
  BY <1>1, StoreTypeCorrect, StoreInvCorrect, SweptNext, PTL DEF Spec
=============================================================================
