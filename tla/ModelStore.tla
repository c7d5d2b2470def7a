----------------------------- MODULE ModelStore -----------------------------
(***************************************************************************)
(* The model store on disk and the requests that change it: manifests      *)
(* (package manifest), layer blobs, the metadata files extracted from GGUF *)
(* blobs (server/gguf_metadata.go), and the cache of show answers, under   *)
(* pull, create, copy, delete, show and upload requests, crashes and the   *)
(* prune at the next start.                                                *)
(*                                                                         *)
(* A manifest is the set of the layers it names, its config included; two  *)
(* manifests have one digest when they name the same layers.  No lock      *)
(* guards the store: a step is one file operation, or several of which     *)
(* only one can be seen by others, and the scan of all manifests.  Of a    *)
(* blob only its existence matters here, not what is in it.                *)
(***************************************************************************)
EXTENDS Naturals, FiniteSets

CONSTANTS
    Slots,         \* the requests served at the same time
    Names,         \* model names
    Layers,        \* layer digests
    ModelLayers,   \* those of GGUF blobs, for which metadata is kept
    Configs,       \* those of config blobs
    Contents,      \* the manifests a registry may offer
    None,          \* no name, nil
    Absent,        \* no manifest file
    Torn,          \* a manifest file that cannot be parsed
    Aux,           \* an auxiliary directory is configured
    NoPrune,       \* YOLLAMA_NOPRUNE
    MaxRequests,   \* bound: how many requests are made
    MaxOverlapping, \* bound: how many, once some of them have overlapped
    MaxCrashes     \* bound: how many times the process is killed

Manifest == SUBSET Layers
Files == {Absent, Torn} \cup Manifest
Dirs == {"primary", "aux"}
Risks == {"overlap", "shadow"}

ASSUME LayersAssumption == /\ ModelLayers \subseteq Layers
                           /\ Configs \subseteq Layers \ ModelLayers
ASSUME ContentsAssumption == Contents \subseteq Manifest \ {{}}
ASSUME ValuesAssumption == /\ None \notin Names
                           /\ Absent # Torn
                           /\ \A m \in Manifest : m # Absent /\ m # Torn
ASSUME FlagsAssumption == Aux \in BOOLEAN /\ NoPrune \in BOOLEAN
ASSUME BoundsAssumption == MaxRequests \in Nat /\ MaxOverlapping \in Nat /\ MaxCrashes \in Nat

VARIABLES
    file,       \* file[d][n]: the manifest file of n in directory d
    blobs,      \* the layers whose blob exists
    metadata,   \* the layers whose metadata file exists
    cache,      \* modelShowCache.local: cache[n] is an entry or NoEntry
    req,        \* the state of each request handler
    up,         \* the server runs
    requests,   \* requests made
    crashes,    \* crashes seen
    risk,       \* history: requests overlapped, or a name was in both directories
    unwritten,  \* history: configs without a blob, whose failed write went unnoticed
    leftover    \* history: metadata files that lost their cleaner in a crash, or
                \* whose removal failed

vars == <<file, blobs, metadata, cache, req, up, requests, crashes, risk, unwritten, leftover>>
layers == <<blobs, unwritten>>
store == <<file, layers, metadata>>
history == <<up, requests, crashes, leftover>>

PullKinds == {"pull", "shards"}
\* "told" is a create whose client has been told an error.
Kinds == PullKinds \cup {"none", "create", "told", "delete", "copy", "show"}
Steps == {"idle", "probe", "fetch", "verify", "truncate", "write", "lost", "scan",
          "remove", "base", "rebase", "touch", "layers", "unlinkLayer",
          "unlinkManifest", "copyTruncate", "copyWrite",
          "info", "metadata", "publish", "recheck", "unpublish"}

(***************************************************************************)
(* A handler's locals: name is the manifest it writes, from the model it   *)
(* reads, then the model whose create waits for this pull, dir where the   *)
(* manifest to delete was found; goal is the manifest it will write, old   *)
(* the layers it may have to remove, keep the same for a waiting create,   *)
(* todo the layers of its loop, fresh those it downloaded (or the one it   *)
(* publishes), gone those removed whose metadata file is still there.      *)
(* For show, goal is the manifest of its cache key and old the one that    *)
(* its answer describes.                                                   *)
(***************************************************************************)
Handler == [pc: Steps, kind: Kinds, name: Names \cup {None}, from: Names \cup {None},
            then: Names \cup {None}, dir: Dirs, goal: Files, old: Manifest,
            keep: Manifest, todo: Manifest, fresh: Manifest, gone: Manifest]

Idle == [pc |-> "idle", kind |-> "none", name |-> None, from |-> None,
         then |-> None, dir |-> "primary", goal |-> {}, old |-> {},
         keep |-> {}, todo |-> {}, fresh |-> {}, gone |-> {}]

NoEntry == [digest |-> {}, response |-> {}]
Entry == [digest: Manifest, response: Manifest]

-----------------------------------------------------------------------------
(***************************************************************************)
(* Reading the store                                                       *)
(***************************************************************************)

\* PathForName: the primary directory hides the auxiliary one.
PathForName(n) == IF file["primary"][n] # Absent THEN "primary" ELSE "aux"

\* ParseNamedManifest succeeds, and what it returns.
Parsed(n) == file[PathForName(n)][n]
Readable(n) == Parsed(n) \notin {Absent, Torn}

\* ParseNamedManifest when the caller takes any error for "nothing there".
ParsedOrNone(n) == IF Readable(n) THEN Parsed(n) ELSE {}

\* Manifests(true): every name found in a directory is parsed through
\* PathForName, and the ones that cannot be parsed are skipped.
InUse == UNION {ParsedOrNone(n) : n \in Names}

\* Manifests(false) fails.
Corrupt == \E n \in Names : Parsed(n) = Torn

\* PathForPull and WriteManifest
WriteDir == IF Aux THEN "aux" ELSE "primary"
OtherDir(d) == IF d = "aux" THEN "primary" ELSE "aux"

-----------------------------------------------------------------------------
(***************************************************************************)
(* How a handler moves                                                     *)
(***************************************************************************)

Become(s, r) == req' = [req EXCEPT ![s] = r]

\* The blob of l is in its place.
Put(l) ==
    /\ blobs' = blobs \cup {l}
    /\ unwritten' = unwritten \ {l}

MayAsk == up /\ requests < IF "overlap" \in risk' THEN MaxOverlapping ELSE MaxRequests

\* A request arrives; it overlaps those under way.
Begin(s, r) ==
    /\ req[s] = Idle
    /\ requests' = requests + 1
    /\ Become(s, r)
    /\ risk' = risk \cup (IF \E t \in Slots \ {s} : req[t] # Idle THEN {"overlap"} ELSE {})
    /\ MayAsk
    /\ UNCHANGED <<store, up, crashes, leftover>>

\* A pull made by parseFromModel goes back to the create that waits for it.
Resume(r, pc, kind) == [Idle EXCEPT !.pc = pc, !.kind = kind, !.name = r.then,
                                    !.from = r.name, !.old = r.keep]

\* Mutant: the create that waited looks at no model at all.
ResumeWithoutFrom(r) ==
    IF r.kind \in PullKinds /\ r.then # None
    THEN [Resume(r, "rebase", "create") EXCEPT !.from = None]
    ELSE Idle

\* The handler has done its work.
Finished(r) ==
    IF r.kind \in PullKinds /\ r.then # None THEN Resume(r, "rebase", "create") ELSE Idle

\* The handler returns an error; create sends the error of its pull to the
\* client, which is the last that the client takes, and goes on without base
\* layers.
Failed(r) ==
    IF r.kind \in PullKinds /\ r.then # None THEN Resume(r, "layers", "told") ELSE Idle

\* What follows the writing of a manifest.
AfterWrite(r) ==
    IF r.kind \in {"shards", "copy"} \/ NoPrune \/ r.old = {}
    THEN Finished(r)
    ELSE [r EXCEPT !.pc = "scan"]

\* A registry, a file or the client fails before the manifest is written, or
\* the disk is full and the manifest stays empty.
Fail(s) ==
    /\ req[s].pc \in {"probe", "fetch", "truncate", "write", "copyTruncate", "copyWrite", "layers"}
    /\ req[s].pc = "fetch" => req[s].kind = "pull"
    /\ Become(s, Failed(req[s]))
    /\ UNCHANGED <<store, cache, history, risk>>

-----------------------------------------------------------------------------
(***************************************************************************)
(* Pull                                                                    *)
(***************************************************************************)

PullModel(s, n) ==
    /\ Begin(s, [Idle EXCEPT !.pc = "probe", !.kind = "pull", !.name = n])
    /\ UNCHANGED cache

\* PullShardedGGUFManifest finds shards, to be merged into one model, ...
PullShards(s, c) ==
    LET r == req[s] IN
    /\ r.pc = "probe" /\ r.kind = "pull"
    /\ \E m \in ModelLayers, g \in Configs : c = {m, g}
    /\ Become(s, [r EXCEPT !.pc = "fetch", !.kind = "shards", !.goal = c, !.todo = c])
    /\ UNCHANGED <<store, cache, history, risk>>

\* ... MergeAndRegisterShardsLocal moves the merged blob into its place, ...
MergeShards(s, l) ==
    LET r == req[s] IN
    /\ r.pc = "fetch" /\ r.kind = "shards" /\ l \in r.todo \cap ModelLayers
    /\ Put(l)
    /\ Become(s, [r EXCEPT !.todo = @ \ {l}])
    /\ UNCHANGED <<file, metadata, cache, history, risk>>

\* ... generateSyntheticManifest writes the config blob, ignoring every error,
\* and names it in the manifest, whether it was made or not, ...
WriteConfig(s, l, made) ==
    LET r == req[s] IN
    /\ r.pc = "fetch" /\ r.kind = "shards" /\ r.todo = {l} /\ l \in Configs
    /\ IF made THEN Put(l)
       ELSE unwritten' = unwritten \cup ({l} \ blobs) /\ UNCHANGED blobs
    /\ Become(s, [r EXCEPT !.pc = "truncate", !.todo = {}])
    /\ UNCHANGED <<file, metadata, cache, history, risk>>

\* ... and when a step of it fails, the unified pull is tried.
ShardsFail(s) ==
    LET r == req[s] IN
    /\ r.pc = "fetch" /\ r.kind = "shards"
    /\ Become(s, [r EXCEPT !.pc = "probe", !.goal = {}, !.todo = {}])
    /\ UNCHANGED <<store, cache, history, risk>>

\* Without shards: the layers of the manifest there is now may have to go.
PullUnified(s, c) ==
    LET r == req[s] IN
    /\ r.pc = "probe"
    /\ Become(s, [r EXCEPT !.pc = "fetch", !.kind = "pull", !.goal = c, !.todo = c,
                           !.old = ParsedOrNone(r.name)])
    /\ UNCHANGED <<store, cache, history, risk>>

\* downloadBlob
FetchLayer(s, l) ==
    LET r == req[s]
        fresh == IF l \notin blobs THEN r.fresh \cup {l} ELSE r.fresh
        next == IF r.todo # {l} THEN "fetch" ELSE IF fresh # {} THEN "verify" ELSE "truncate"
    IN
    /\ r.pc = "fetch" /\ r.kind = "pull" /\ l \in r.todo
    /\ Put(l)
    /\ Become(s, [r EXCEPT !.pc = next, !.todo = @ \ {l}, !.old = @ \ {l}, !.fresh = fresh])
    /\ UNCHANGED <<file, metadata, cache, history, risk>>

\* verifyBlob opens the blobs that were not there before.
VerifyLayer(s, l) ==
    LET r == req[s] IN
    /\ r.pc = "verify" /\ l \in r.fresh
    /\ Become(s, IF l \notin blobs THEN Failed(r)
                 ELSE [r EXCEPT !.pc = IF r.fresh = {l} THEN "truncate" ELSE "verify",
                                !.fresh = @ \ {l}])
    /\ UNCHANGED <<store, cache, history, risk>>

\* os.WriteFile and os.Create empty the file that is there, ...
TruncateManifest(s) ==
    LET r == req[s] IN
    /\ r.pc = "truncate"
    /\ file' = [file EXCEPT ![WriteDir][r.name] = Torn]
    /\ risk' = risk \cup (IF file[OtherDir(WriteDir)][r.name] # Absent THEN {"shadow"} ELSE {})
    /\ Become(s, [r EXCEPT !.pc = "write"])
    /\ UNCHANGED <<layers, metadata, cache, history>>

\* ... and fill it.
WriteManifest(s) ==
    LET r == req[s] IN
    /\ r.pc = "write"
    /\ file' = [file EXCEPT ![WriteDir][r.name] = r.goal]
    /\ Become(s, AfterWrite(r))
    /\ UNCHANGED <<layers, metadata, cache, history, risk>>

\* The file was unlinked after it was opened: what is written is lost.
WriteUnlinked(s) ==
    /\ req[s].pc = "lost"
    /\ Become(s, AfterWrite(req[s]))
    /\ UNCHANGED <<store, cache, history, risk>>

-----------------------------------------------------------------------------
(***************************************************************************)
(* Removal of unused layers: deleteUnusedLayers, Manifest.RemoveLayers     *)
(***************************************************************************)

\* Mutant: layers that another manifest names are not spared.
ScanNothing(s) ==
    LET r == req[s] IN
    /\ r.pc = "scan"
    /\ Become(s, IF r.old = {} THEN Finished(r)
                 ELSE [r EXCEPT !.pc = "remove", !.old = {}, !.todo = r.old])
    /\ UNCHANGED <<store, cache, history, risk>>

ScanManifests(s) ==
    LET r == req[s]
        unused == r.old \ InUse
    IN
    /\ r.pc = "scan"
    /\ Become(s, IF unused = {} THEN Finished(r)
                 ELSE [r EXCEPT !.pc = "remove", !.old = {}, !.todo = unused])
    /\ UNCHANGED <<store, cache, history, risk>>

\* Manifest.Remove cannot prune its directory, or no scan is possible: the
\* layers stay, and the pull or create has succeeded all the same.
SkipRemoval(s) ==
    /\ req[s].pc = "scan"
    /\ Become(s, Finished(req[s]))
    /\ UNCHANGED <<store, cache, history, risk>>

RemoveBlob(s, l) ==
    LET r == req[s] IN
    /\ r.pc = "remove" /\ l \in r.todo
    /\ r.kind = "pull" => r.gone = {}
    /\ blobs' = blobs \ {l}
    /\ Become(s, [r EXCEPT !.todo = @ \ {l}, !.gone = @ \cup {l}])
    /\ UNCHANGED <<file, unwritten, metadata, cache, history, risk>>

\* os.Remove fails: a pull goes on with the next layer, the others stop here.
KeepBlob(s, l) ==
    LET r == req[s]
        rest == IF r.kind = "pull" THEN r.todo \ {l} ELSE {}
    IN
    /\ r.pc = "remove" /\ l \in r.todo
    /\ r.kind = "pull" => r.gone = {}
    /\ Become(s, IF rest = {} /\ r.gone = {} THEN Finished(r) ELSE [r EXCEPT !.todo = rest])
    /\ UNCHANGED <<store, cache, history, risk>>

\* os.Remove of metadata files, whose failure is only logged
DropMetadata(ls) ==
    \/ metadata' = metadata \ ls /\ leftover' = leftover \ ls
    \/ metadata' = metadata /\ leftover' = leftover \cup (ls \cap metadata)

\* removeGGUFMetadata: after each blob in a pull, after all of them otherwise.
RemoveMetadata(s, l) ==
    LET r == req[s] IN
    /\ r.pc = "remove" /\ l \in r.gone
    /\ r.kind # "pull" => r.todo = {}
    /\ DropMetadata({l})
    /\ Become(s, IF r.todo = {} /\ r.gone = {l} THEN Finished(r)
                 ELSE [r EXCEPT !.gone = @ \ {l}])
    /\ UNCHANGED <<file, layers, cache, up, requests, crashes, risk>>

-----------------------------------------------------------------------------
(***************************************************************************)
(* Create                                                                  *)
(***************************************************************************)

\* CreateHandler with a base model
CreateFrom(s, n, f) ==
    /\ Begin(s, [Idle EXCEPT !.pc = "base", !.kind = "create", !.name = n, !.from = f,
                             !.old = ParsedOrNone(n)])
    /\ UNCHANGED cache

\* CreateHandler with uploaded files
CreateFromFile(s, n, l) ==
    /\ Begin(s, [Idle EXCEPT !.pc = "touch", !.kind = "create", !.name = n, !.todo = {l},
                             !.old = ParsedOrNone(n)])
    /\ UNCHANGED cache

\* parseFromModel reads the base model's layers, ...
ReadBase(s) ==
    LET r == req[s]
        base == Parsed(r.from) \ Configs
    IN
    /\ r.pc \in {"base", "rebase"} /\ Readable(r.from)
    /\ Become(s, [r EXCEPT !.pc = IF base = {} THEN "layers" ELSE "touch", !.todo = base])
    /\ UNCHANGED <<store, cache, history, risk>>

\* ... pulls the model when there is no manifest, ...
PullBase(s) ==
    LET r == req[s] IN
    /\ r.pc = "base" /\ Parsed(r.from) = Absent
    /\ Become(s, [r EXCEPT !.pc = "probe", !.kind = "pull", !.name = r.from,
                           !.from = None, !.then = r.name, !.old = {}, !.keep = r.old])
    /\ UNCHANGED <<store, cache, history, risk>>

\* ... and fails otherwise, which the client is told; CreateHandler goes on.
BaseFails(s) ==
    LET r == req[s] IN
    /\ \/ r.pc = "base" /\ Parsed(r.from) = Torn
       \/ r.pc = "rebase" /\ ~Readable(r.from)
    /\ Become(s, [r EXCEPT !.pc = "layers", !.kind = "told"])
    /\ UNCHANGED <<store, cache, history, risk>>

\* NewLayerFromLayer; an error ends a create from files, and leaves a create
\* from a model without base layers.
TouchLayer(s, l) ==
    LET r == req[s] IN
    /\ r.pc = "touch" /\ l \in r.todo
    /\ Become(s,
         IF l \in blobs
         THEN [r EXCEPT !.pc = IF r.todo = {l} THEN "layers" ELSE "touch",
                        !.todo = @ \ {l}, !.goal = @ \cup {l}]
         ELSE IF r.from = None THEN Idle
         ELSE [r EXCEPT !.pc = "layers", !.kind = "told", !.todo = {}, !.goal = {}])
    /\ UNCHANGED <<store, cache, history, risk>>

\* A GGUF layer is converted: NewLayer makes the blob that takes its place.
RewriteLayer(s, l, new) ==
    LET r == req[s] IN
    /\ r.pc = "layers" /\ l \in r.goal \cap ModelLayers /\ new \in ModelLayers \ {l}
    /\ Put(new)
    /\ Become(s, [r EXCEPT !.goal = (@ \ {l}) \cup {new}])
    /\ UNCHANGED <<file, metadata, cache, history, risk>>

\* removeLayer: Layer.Remove looks for a manifest that names the layer, ...
DropLayer(s, l) ==
    LET r == req[s] IN
    /\ r.pc = "layers" /\ l \in (r.goal \ ModelLayers) \ Configs
    /\ Become(s, IF l \in InUse THEN [r EXCEPT !.goal = @ \ {l}]
                 ELSE [r EXCEPT !.pc = "unlinkLayer", !.goal = @ \ {l}, !.todo = {l}])
    /\ UNCHANGED <<store, cache, history, risk>>

\* ... and removes the blob when there is none; an error is only logged.
UnlinkLayer(s) ==
    LET r == req[s] IN
    /\ r.pc = "unlinkLayer"
    /\ blobs' \in {blobs, blobs \ r.todo}
    /\ Become(s, [r EXCEPT !.pc = "layers", !.todo = {}])
    /\ UNCHANGED <<file, unwritten, metadata, cache, history, risk>>

\* setTemplate, setSystem, setLicense, setParameters, setMessages: NewLayer
AddLayer(s, l) ==
    LET r == req[s] IN
    /\ r.pc = "layers" /\ l \in ((Layers \ ModelLayers) \ Configs) \ r.goal
    /\ Put(l)
    /\ Become(s, [r EXCEPT !.goal = @ \cup {l}])
    /\ UNCHANGED <<file, metadata, cache, history, risk>>

\* createConfigLayer, the last layer.  A create that has told its client an
\* error waits here for good to tell it more, and writes no manifest.
AddConfig(s, l) ==
    LET r == req[s] IN
    /\ r.pc = "layers" /\ l \in Configs
    /\ Put(l)
    /\ Become(s, IF r.kind = "told" THEN Idle
                 ELSE [r EXCEPT !.pc = "truncate", !.goal = @ \cup {l}])
    /\ UNCHANGED <<file, metadata, cache, history, risk>>

\* CreateBlobHandler: a blob is uploaded.
CreateBlob(l) ==
    /\ l \notin blobs
    /\ Put(l)
    /\ requests' = requests + 1
    /\ UNCHANGED <<file, metadata, cache, req, up, crashes, risk, leftover>>
    /\ MayAsk

-----------------------------------------------------------------------------
(***************************************************************************)
(* Delete and copy                                                         *)
(***************************************************************************)

\* DeleteHandler gives up on a manifest that it cannot parse.
DeleteModel(s, n) ==
    /\ Readable(n)
    /\ Begin(s, [Idle EXCEPT !.pc = "unlinkManifest", !.kind = "delete", !.name = n,
                             !.dir = PathForName(n), !.old = Parsed(n)])
    /\ UNCHANGED cache

\* t has the manifest file of n in d open for writing, or for reading.
Writes(t, d, n) ==
    /\ req[t].name = n
    /\ \/ req[t].pc = "write" /\ d = WriteDir
       \/ req[t].pc = "copyWrite" /\ d = "primary"
Reads(t, d, n) ==
    req[t].pc \in {"copyTruncate", "copyWrite"} /\ req[t].from = n /\ d = "primary"

\* Manifest.Remove.  A handler that has the file open keeps what it opened.
RemoveManifest(s) ==
    LET r == req[s]
        unlinked(t) ==
            [req[t] EXCEPT !.pc = IF Writes(t, r.dir, r.name) THEN "lost" ELSE @,
                           !.from = IF Reads(t, r.dir, r.name) THEN None ELSE @,
                           !.goal = IF Reads(t, r.dir, r.name) THEN file[r.dir][r.name] ELSE @]
    IN
    /\ r.pc = "unlinkManifest"
    /\ IF file[r.dir][r.name] = Absent
       THEN Become(s, Idle) /\ UNCHANGED file
       ELSE /\ file' = [file EXCEPT ![r.dir][r.name] = Absent]
            /\ req' = [t \in Slots |-> IF t = s THEN [r EXCEPT !.pc = "scan"] ELSE unlinked(t)]
    /\ UNCHANGED <<layers, metadata, cache, history, risk>>

\* CopyModel knows the primary directory only.
CopyModel(s, src, dst) ==
    /\ src # dst /\ file["primary"][src] # Absent
    /\ Begin(s, [Idle EXCEPT !.pc = "copyTruncate", !.kind = "copy", !.name = dst, !.from = src])
    /\ UNCHANGED cache

CopyTruncate(s) ==
    LET r == req[s] IN
    /\ r.pc = "copyTruncate"
    /\ file' = [file EXCEPT !["primary"][r.name] = Torn]
    /\ risk' = risk \cup (IF file["aux"][r.name] # Absent THEN {"shadow"} ELSE {})
    /\ Become(s, [r EXCEPT !.pc = "copyWrite"])
    /\ UNCHANGED <<layers, metadata, cache, history>>

CopyWrite(s) ==
    LET r == req[s] IN
    /\ r.pc = "copyWrite"
    /\ file' = [file EXCEPT !["primary"][r.name] =
                    IF r.from # None THEN file["primary"][r.from] ELSE r.goal]
    /\ Become(s, Idle)
    /\ UNCHANGED <<layers, metadata, cache, history, risk>>

-----------------------------------------------------------------------------
(***************************************************************************)
(* Show, with its cache and the metadata files                             *)
(***************************************************************************)

\* Mutant: a cached answer is served whatever the manifest is now.
CachedByName(n) == cache[n] # NoEntry

\* modelShowCache.getLocal
Cached(n) == cache[n] # NoEntry /\ cache[n].digest = Parsed(n)

ShowCached(n) ==
    /\ Readable(n) /\ Cached(n)
    /\ requests' = requests + 1
    /\ UNCHANGED <<store, cache, req, up, crashes, risk, leftover>>
    /\ MayAsk

\* GetLocal misses: the key has the digest of the manifest read now, ...
ShowModel(s, n) ==
    /\ Readable(n) /\ ~Cached(n)
    /\ Begin(s, [Idle EXCEPT !.pc = "info", !.kind = "show", !.name = n, !.goal = Parsed(n)])
    /\ UNCHANGED cache

\* ... and GetModelCapabilities parses the manifest again.
GetModelCapabilities(s) ==
    LET r == req[s] IN
    /\ r.pc = "info"
    /\ Become(s, IF ~Readable(r.name) THEN Idle
                 ELSE [r EXCEPT !.pc = "metadata", !.old = Parsed(r.name),
                                !.todo = Parsed(r.name) \cap ModelLayers])
    /\ UNCHANGED <<store, cache, history, risk>>

\* readGGUFMetadata: load the file, or extract it from the blob if that is there.
ReadGGUFMetadata(s, l) ==
    LET r == req[s] IN
    /\ r.pc = "metadata" /\ l \in r.todo
    /\ Become(s, IF l \notin metadata /\ l \in blobs
                 THEN [r EXCEPT !.pc = "publish", !.todo = @ \ {l}, !.fresh = {l}]
                 ELSE [r EXCEPT !.todo = @ \ {l}])
    /\ UNCHANGED <<store, cache, history, risk>>

\* writeGGUFMetadata: the finished file is renamed into place unless something
\* fails, ...
PublishMetadata(s) ==
    LET r == req[s] IN
    /\ r.pc = "publish"
    /\ \/ /\ metadata' = metadata \cup r.fresh
          /\ Become(s, [r EXCEPT !.pc = "recheck"])
       \/ /\ metadata' = metadata
          /\ Become(s, [r EXCEPT !.pc = "metadata", !.fresh = {}])
    /\ UNCHANGED <<file, layers, cache, history, risk>>

\* Mutant: the writer does not look again.
RecheckNothing(s) ==
    LET r == req[s] IN
    /\ r.pc = "recheck"
    /\ Become(s, [r EXCEPT !.pc = "metadata", !.fresh = {}])
    /\ UNCHANGED <<store, cache, history, risk>>

\* ... the writer looks whether the blob is still there, ...
RecheckBlob(s) ==
    LET r == req[s] IN
    /\ r.pc = "recheck"
    /\ Become(s, IF r.fresh \subseteq blobs
                 THEN [r EXCEPT !.pc = "metadata", !.fresh = {}]
                 ELSE [r EXCEPT !.pc = "unpublish"])
    /\ UNCHANGED <<store, cache, history, risk>>

\* ... and takes the file back if it is not.
UnpublishMetadata(s) ==
    LET r == req[s] IN
    /\ r.pc = "unpublish"
    /\ DropMetadata(r.fresh)
    /\ Become(s, [r EXCEPT !.pc = "metadata", !.fresh = {}])
    /\ UNCHANGED <<file, layers, cache, up, requests, crashes, risk>>

\* The other layers are read, the answer is made and setLocal keeps it.
SetLocal(s) ==
    LET r == req[s] IN
    /\ r.pc = "metadata" /\ r.todo = {}
    /\ cache' = IF r.old \subseteq blobs
                THEN [cache EXCEPT ![r.name] = [digest |-> r.goal, response |-> r.old]]
                ELSE cache
    /\ Become(s, Idle)
    /\ UNCHANGED <<store, history, risk>>

-----------------------------------------------------------------------------
(***************************************************************************)
(* Crash and start                                                         *)
(***************************************************************************)

Crash ==
    /\ up /\ crashes < MaxCrashes
    /\ up' = FALSE
    /\ crashes' = crashes + 1
    /\ req' = [s \in Slots |-> Idle]
    /\ cache' = [n \in Names |-> NoEntry]
    /\ leftover' = metadata \ blobs
    /\ UNCHANGED <<store, requests, risk>>

\* Serve: PruneLayers removes the blobs older than layerPruneGracePeriod that
\* no manifest names, and pruneGGUFMetadata what is left of them, unless a
\* manifest cannot be parsed.
Prunes == ~NoPrune /\ ~Corrupt

Serve(expired) ==
    /\ ~up
    /\ up' = TRUE
    /\ IF Prunes
       THEN /\ blobs' = blobs \ (expired \ InUse)
            /\ metadata' = metadata \cap blobs'
       ELSE UNCHANGED <<blobs, metadata>>
    /\ leftover' = IF Prunes THEN {} ELSE leftover
    /\ UNCHANGED <<file, unwritten, cache, req, requests, crashes, risk>>

-----------------------------------------------------------------------------
\* A server may start on a store that earlier ones have left: each name in one
\* directory at most, the auxiliary one only if it is configured.
Init ==
    /\ file \in [Dirs -> [Names -> {Absent} \cup Contents]]
    /\ \A n \in Names : Absent \in {file["primary"][n], file["aux"][n]}
    /\ ~Aux => \A n \in Names : file["aux"][n] = Absent
    /\ blobs = InUse
    /\ metadata = {}
    /\ cache = [n \in Names |-> NoEntry]
    /\ req = [s \in Slots |-> Idle]
    /\ up = TRUE
    /\ requests = 0
    /\ crashes = 0
    /\ risk = {}
    /\ unwritten = {}
    /\ leftover = {}

PullStep(s) ==
    \/ \E n \in Names : PullModel(s, n)
    \/ \E c \in Contents : PullShards(s, c) \/ PullUnified(s, c)
    \/ \E l \in Layers : FetchLayer(s, l) \/ VerifyLayer(s, l) \/ MergeShards(s, l)
    \/ \E l \in Layers, made \in BOOLEAN : WriteConfig(s, l, made)
    \/ ShardsFail(s)
    \/ TruncateManifest(s) \/ WriteManifest(s) \/ WriteUnlinked(s) \/ Fail(s)

RemoveStep(s) ==
    \/ ScanManifests(s) \/ SkipRemoval(s)
    \/ \E l \in Layers : RemoveBlob(s, l) \/ KeepBlob(s, l) \/ RemoveMetadata(s, l)

CreateStep(s) ==
    \/ \E n, f \in Names : CreateFrom(s, n, f)
    \/ \E n \in Names, l \in ModelLayers : CreateFromFile(s, n, l)
    \/ ReadBase(s) \/ PullBase(s) \/ BaseFails(s) \/ UnlinkLayer(s)
    \/ \E l \in Layers : TouchLayer(s, l) \/ DropLayer(s, l) \/ AddLayer(s, l) \/ AddConfig(s, l)
    \/ \E l, new \in ModelLayers : RewriteLayer(s, l, new)

DeleteOrCopyStep(s) ==
    \/ \E n \in Names : DeleteModel(s, n)
    \/ \E src, dst \in Names : CopyModel(s, src, dst)
    \/ RemoveManifest(s) \/ CopyTruncate(s) \/ CopyWrite(s)

ShowStep(s) ==
    \/ \E n \in Names : ShowModel(s, n)
    \/ GetModelCapabilities(s) \/ PublishMetadata(s) \/ RecheckBlob(s)
    \/ UnpublishMetadata(s) \/ SetLocal(s)
    \/ \E l \in Layers : ReadGGUFMetadata(s, l)

Next ==
    \/ \E s \in Slots : PullStep(s) \/ RemoveStep(s) \/ CreateStep(s)
                        \/ DeleteOrCopyStep(s) \/ ShowStep(s)
    \/ \E l \in Layers : CreateBlob(l)
    \/ \E n \in Names : ShowCached(n)
    \/ Crash
    \/ \E expired \in SUBSET blobs : Serve(expired)

Spec == Init /\ [][Next]_vars

-----------------------------------------------------------------------------
(***************************************************************************)
(* Properties                                                              *)
(***************************************************************************)

HandlerOK(r) ==
    /\ r \in Handler
    /\ r.kind = "copy" => r.pc \in {"copyTruncate", "copyWrite", "lost"}
    /\ r.pc \in {"copyTruncate", "copyWrite"} => r.kind = "copy"
    /\ r.kind # "copy" => r.goal \in Manifest
    /\ r.pc \in {"base", "rebase"} => r.from \in Names
    /\ r.pc # "idle" => r.name \in Names

\* The types, and no handler looks for a model that has no name: a create
\* that resumes after its pull still knows the model it is made from.
TypeOK ==
    /\ file \in [Dirs -> [Names -> Files]]
    /\ blobs \in Manifest
    /\ metadata \in Manifest
    /\ cache \in [Names -> Entry]
    /\ req \in [Slots -> Handler]
    /\ \A s \in Slots : HandlerOK(req[s])
    /\ up \in BOOLEAN
    /\ requests \in Nat
    /\ crashes \in Nat
    /\ risk \in SUBSET Risks
    /\ unwritten \in SUBSET Configs
    /\ leftover \in Manifest

\* Every manifest that can be read names layers whose blobs exist; only the
\* config blob that a sharded pull could not write, and that nothing has
\* written since, may be missing.
LayersPresent == InUse \subseteq blobs \cup unwritten

\* While requests come one at a time and no name is in both directories,
\* whatever fails in between, wherever the server is killed and whatever is
\* pruned, every readable manifest names blobs that exist, but for a config
\* that a sharded pull failed to write without noticing: a blob is in place
\* before the manifest that names it, and out of use before it is removed.
StoreSound == risk = {} => LayersPresent

\* The layers that a removal is about to delete are named by no manifest:
\* "RemoveLayers deletes the layers no other manifest references."
RemovesUnused == \A s \in Slots : req[s].pc = "remove" => req[s].todo \cap InUse = {}

\* A handler that will remove, or look again at, the metadata file of l.
WillSweep(r, l) ==
    \/ r.pc = "remove" /\ l \in r.gone
    \/ r.pc \in {"recheck", "unpublish"} /\ l \in r.fresh

\* However requests interleave, a metadata file whose blob is gone has someone
\* who will remove it: the writer that looks again after publishing it, the
\* remover of the blob, or, after a crash or when the file could not be
\* removed, the prune at a start.
MetadataSwept ==
    \A l \in metadata \ blobs :
        l \in leftover \/ \E s \in Slots : WillSweep(req[s], l)

\* What the handlers know of the store when they run alone.
HandlerSound(r) ==
    /\ r.pc = "fetch" => r.goal \ r.todo \subseteq blobs \cup unwritten
    /\ r.pc \in {"verify", "truncate", "write", "base", "rebase", "touch", "layers", "unlinkLayer"}
          => r.goal \subseteq blobs \cup unwritten
    /\ r.pc \in {"unlinkLayer", "remove"} => r.todo \cap InUse = {}
    /\ r.pc = "unlinkLayer" => r.todo \cap r.goal = {}
    /\ r.pc \in {"copyTruncate", "copyWrite"} => r.from # None
    /\ r.pc = "info" => r.goal = Parsed(r.name)
    /\ r.pc \in {"metadata", "publish", "recheck", "unpublish"} => r.goal = r.old

\* A handler has a manifest file open for writing, or for reading, only while
\* the file is there; what a copy reads from an unlinked file was one.
OpenFiles(r) ==
    /\ r.pc = "write" => file[WriteDir][r.name] # Absent
    /\ r.pc = "copyWrite" => file["primary"][r.name] # Absent
    /\ r.pc \in {"copyTruncate", "copyWrite"} =>
          IF r.from = None THEN r.goal # Absent ELSE file["primary"][r.from] # Absent

\* Metadata is written for GGUF layers only, and create removes other layers only.
GGUFLayersOnly(r) ==
    /\ r.pc \in {"info", "metadata", "publish", "recheck", "unpublish"} =>
          r.todo \cup r.fresh \subseteq ModelLayers
    /\ r.pc = "unlinkLayer" => r.todo \cap ModelLayers = {}

MetadataOfModels ==
    /\ metadata \subseteq ModelLayers
    /\ \A s \in Slots : GGUFLayersOnly(req[s])

\* A cached answer describes the manifest of its key.
CacheSound == \A n \in Names : cache[n].digest = cache[n].response

OneActive == \A s, t \in Slots : req[s] # Idle /\ req[t] # Idle => s = t
OneFile == \A n \in Names : file["primary"][n] = Absent \/ file["aux"][n] = Absent

\* Without overlap one handler is active at most; without a name in both
\* directories each name has one file at most; and then every handler's
\* knowledge of the store, and the cache, are right.  A server that is down
\* has no handlers.
StoreInv ==
    /\ ~up => \A s \in Slots : req[s] = Idle
    /\ "overlap" \notin risk => OneActive
    /\ "shadow" \notin risk => OneFile
    /\ \A s \in Slots : OpenFiles(req[s])
    /\ MetadataOfModels
    /\ risk = {} => LayersPresent /\ CacheSound /\ \A s \in Slots : HandlerSound(req[s])

\* A show answered from the cache describes the manifest that is there now,
\* after any sequence of pulls, creates, copies, deletes and restarts, when
\* requests come one at a time.
ShownIsCurrent ==
    [][\A n \in Names : ShowCached(n) /\ risk = {} => cache[n].response = Parsed(n)]_vars
=============================================================================
