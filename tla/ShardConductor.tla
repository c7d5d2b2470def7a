--------------------------- MODULE ShardConductor ---------------------------
(***************************************************************************)
(* Pulls of models that are split into shards                              *)
(* (server/multi_shard_conductor.go): the shards are downloaded to one     *)
(* staging directory, merged by an external tool to one assembly file,     *)
(* that file is hashed and renamed to the blob of its digest, and PullModel*)
(* writes a manifest that names the blob.  All pulls share the directory   *)
(* and the assembly file, and nothing keeps them apart.                    *)
(*                                                                         *)
(* The content of a complete file is the model it belongs to; the digest   *)
(* of a file is its content.                                               *)
(***************************************************************************)
EXTENDS Naturals

CONSTANTS
    Slots,       \* the pulls served at the same time
    Models,      \* the models that are split
    Files,       \* the base names of their shards
    ShardsOf,    \* ShardsOf[m]: the names of the shards of m
    Absent,      \* no file, nil
    Torn,        \* the content of a file that is being written
    Mixed,       \* the content of a file put together from parts of several
    MaxPulls,    \* bound: how many pulls are made
    MaxCrashes   \* bound: how often the server is killed

Content == Models \cup {Torn, Mixed}

ASSUME ShardsAssumption == ShardsOf \in [Models -> (SUBSET Files) \ {{}}]
ASSUME ValuesAssumption == /\ Absent # Torn /\ Absent # Mixed /\ Torn # Mixed
                           /\ {Absent, Torn, Mixed} \cap Models = {}
                           /\ Absent \notin Slots
                           /\ "asm" \notin Content \cup {Absent}
ASSUME BoundsAssumption == MaxPulls \in Nat /\ MaxCrashes \in Nat

VARIABLES
    stageDir,   \* yollama-shard-stage exists
    staged,     \* staged[f]: the content of the shard file f in it
    creator,    \* creator[f]: the pull that created or truncated it last
    asm,        \* the content of yollama_direct_assembly.gguf
    merger,     \* the pull whose tool created or truncated it last
    blobs,      \* blobs[d]: the content of the blob file of digest d
    manifests,  \* manifests[m]: the digest that the manifest of m names
    pull,       \* the state of each pull
    pulls,      \* pulls made
    crashes,    \* crashes seen
    stale       \* (history) the last removal of the directory failed or was cut off

vars == <<stageDir, staged, creator, asm, merger, blobs, manifests, pull, pulls, crashes, stale>>
stage == <<stageDir, staged, creator>>
assembly == <<asm, merger>>
counters == <<pulls, crashes, stale>>

Steps == {"idle", "list", "stage", "create", "copy", "merge", "merging", "digest",
          "rename", "manifest", "cleanup", "write", "orphan"}

(***************************************************************************)
(* A pull: its model, the shards it still has to download, the file it     *)
(* writes and whether that is still in the directory, where the output of  *)
(* its merge goes (the assembly file, the blob it has been renamed to, or  *)
(* Absent), the digest it computed, whether it succeeded, and (history)    *)
(* whether another pull, or what a killed server left running, was under   *)
(* way at the same time.                                                   *)
(***************************************************************************)
Pull == [pc: Steps, model: Models \cup {Absent}, todo: SUBSET Files, file: Files \cup {Absent},
         linked: BOOLEAN, output: Content \cup {"asm", Absent}, digest: Content \cup {Absent},
         ok: BOOLEAN, disturbed: BOOLEAN]

Idle == [pc |-> "idle", model |-> Absent, todo |-> {}, file |-> Absent, linked |-> FALSE,
         output |-> Absent, digest |-> Absent, ok |-> FALSE, disturbed |-> FALSE]

Busy(p) == pull[p].pc # "idle"
Become(p, r) == pull' = [pull EXCEPT ![p] = r]

\* Every return of PullShardedGGUFManifest after MkdirAll runs os.RemoveAll.
Abandon(p) == Become(p, [pull[p] EXCEPT !.pc = "cleanup", !.file = Absent,
                                        !.linked = FALSE, !.output = Absent])

-----------------------------------------------------------------------------
(***************************************************************************)
(* Listing and downloading the shards                                      *)
(***************************************************************************)

\* PullModel tries the shards first.
PullModel(p, m) ==
    /\ ~Busy(p) /\ pulls < MaxPulls
    /\ pulls' = pulls + 1
    /\ LET others == {q \in Slots \ {p} : Busy(q)} IN
       pull' = [q \in Slots |->
                  IF q = p THEN [Idle EXCEPT !.pc = "list", !.model = m, !.disturbed = others # {}]
                  ELSE IF q \in others THEN [pull[q] EXCEPT !.disturbed = TRUE]
                  ELSE pull[q]]
    /\ UNCHANGED <<stage, assembly, blobs, manifests, crashes, stale>>

\* fetchAndFilterHFShards finds the shards of the model, ...
ListShards(p) ==
    LET r == pull[p] IN
    /\ r.pc = "list"
    /\ Become(p, [r EXCEPT !.pc = "stage", !.todo = ShardsOf[r.model]])
    /\ UNCHANGED <<stage, assembly, blobs, manifests, counters>>

\* ... or none, or the directory cannot be made, and PullModel goes on with a
\* pull of one file.
NoShards(p) ==
    /\ pull[p].pc \in {"list", "stage"}
    /\ Become(p, Idle)
    /\ UNCHANGED <<stage, assembly, blobs, manifests, counters>>

\* os.MkdirAll(stageDir)
MakeStage(p) ==
    /\ pull[p].pc = "stage"
    /\ stageDir' = TRUE
    /\ Become(p, [pull[p] EXCEPT !.pc = "create"])
    /\ UNCHANGED <<staged, creator, assembly, blobs, manifests, counters>>

\* Mutant: the file is opened without being emptied.
OpenShard(p, f) ==
    LET r == pull[p] IN
    /\ r.pc = "create" /\ f \in r.todo
    /\ IF stageDir
       THEN /\ staged' = [staged EXCEPT ![f] = IF @ = Absent THEN Torn ELSE @]
            /\ creator' = [creator EXCEPT ![f] = p]
            /\ Become(p, [r EXCEPT !.pc = "copy", !.file = f, !.linked = TRUE])
       ELSE Abandon(p) /\ UNCHANGED <<staged, creator>>
    /\ UNCHANGED <<stageDir, assembly, blobs, manifests, counters>>

\* downloadShardFile: os.Create, for which the directory must exist, ...
CreateShard(p, f) ==
    LET r == pull[p] IN
    /\ r.pc = "create" /\ f \in r.todo
    /\ IF stageDir
       THEN /\ staged' = [staged EXCEPT ![f] = Torn]
            /\ creator' = [creator EXCEPT ![f] = p]
            /\ Become(p, [r EXCEPT !.pc = "copy", !.file = f, !.linked = TRUE])
       ELSE Abandon(p) /\ UNCHANGED <<staged, creator>>
    /\ UNCHANGED <<stageDir, assembly, blobs, manifests, counters>>

\* ... then io.Copy, to a file that may be gone or written by others by now.
CopyShard(p) ==
    LET r == pull[p]
        f == r.file
        content == IF creator[f] = p /\ staged[f] = Torn THEN r.model ELSE Mixed
    IN
    /\ r.pc = "copy"
    /\ staged' = IF r.linked THEN [staged EXCEPT ![f] = content] ELSE staged
    /\ Become(p, [r EXCEPT !.pc = IF r.todo = {f} THEN "merge" ELSE "create",
                           !.todo = @ \ {f}, !.file = Absent, !.linked = FALSE])
    /\ UNCHANGED <<stageDir, creator, assembly, blobs, manifests, counters>>

\* The download, the tool or the disk fails, or the client has gone.
Fail(p) ==
    /\ pull[p].pc \in {"create", "copy", "merge", "merging", "digest"}
    /\ Abandon(p)
    /\ UNCHANGED <<stage, assembly, blobs, manifests, counters>>

-----------------------------------------------------------------------------
(***************************************************************************)
(* Merging: buildModelFromStagedFiles                                      *)
(***************************************************************************)

\* What the tool makes of the shards of m that are staged.
MergeOf(m) ==
    IF \E c \in Models : /\ ShardsOf[c] = ShardsOf[m]
                         /\ \A f \in ShardsOf[m] : staged[f] = c
    THEN CHOOSE c \in Models : \A f \in ShardsOf[m] : staged[f] = c
    ELSE Mixed

\* llama-gguf-split --merge opens its output (a version that refuses a file
\* that exists fails here), ...
StartMerge(p) ==
    /\ pull[p].pc = "merge"
    /\ asm' = Torn
    /\ merger' = p
    /\ Become(p, [pull[p] EXCEPT !.pc = "merging", !.output = "asm"])
    /\ UNCHANGED <<stage, blobs, manifests, counters>>

\* What the file p writes holds when p has written all of it.
Written(p, content, now) == IF merger = p /\ now = Torn THEN content ELSE Mixed

FillOutput(p) ==
    LET r == pull[p]
        content == MergeOf(r.model)
    IN
    /\ asm' = IF r.output = "asm" /\ asm # Absent THEN Written(p, content, asm) ELSE asm
    /\ blobs' = IF r.output \in Content
                THEN [blobs EXCEPT ![r.output] = Written(p, content, @)]
                ELSE blobs

\* ... and reads the shards, all of which must be there.
FinishMerge(p) ==
    LET r == pull[p] IN
    /\ r.pc = "merging"
    /\ IF \E f \in ShardsOf[r.model] : staged[f] = Absent
       THEN Abandon(p) /\ UNCHANGED <<asm, blobs>>
       ELSE FillOutput(p) /\ Become(p, [r EXCEPT !.pc = "digest", !.output = Absent])
    /\ UNCHANGED <<stage, merger, manifests, counters>>

\* Mutant: the file is taken to be there.
DigestUnchecked(p) ==
    /\ pull[p].pc = "digest"
    /\ Become(p, [pull[p] EXCEPT !.pc = "rename", !.digest = asm])
    /\ UNCHANGED <<stage, assembly, blobs, manifests, counters>>

\* os.Open and GetSHA256Digest of the assembly file (a read error there is
\* log.Fatal: it is a Crash)
Digest(p) ==
    /\ pull[p].pc = "digest"
    /\ IF asm = Absent THEN Abandon(p)
       ELSE Become(p, [pull[p] EXCEPT !.pc = "rename", !.digest = asm])
    /\ UNCHANGED <<stage, assembly, blobs, manifests, counters>>

\* Mutant: the assembly file is appended to what the blob file holds.
AppendAssembly(p) ==
    LET d == pull[p].digest IN
    /\ pull[p].pc = "rename" /\ asm # Absent
    /\ blobs' = [blobs EXCEPT ![d] = IF @ = Absent THEN asm ELSE Mixed]
    /\ asm' = Absent
    /\ Become(p, [pull[p] EXCEPT !.pc = "manifest"])
    /\ UNCHANGED <<stage, merger, manifests, counters>>

\* os.Rename to the blob of the digest; a tool that still writes goes on
\* writing to the file under its new name, or to one that no name leads to.
RenameAssembly(p) ==
    LET d == pull[p].digest
        moved(q) == [pull[q] EXCEPT !.output = IF @ = "asm" THEN d
                                               ELSE IF @ = d THEN Absent ELSE @]
    IN
    /\ pull[p].pc = "rename" /\ asm # Absent
    /\ blobs' = [blobs EXCEPT ![d] = asm]
    /\ asm' = Absent
    /\ pull' = [q \in Slots |-> IF q = p THEN [pull[p] EXCEPT !.pc = "manifest"] ELSE moved(q)]
    /\ UNCHANGED <<stage, merger, manifests, counters>>

\* Another pull has renamed it, or the disk fails; os.Remove takes away what
\* is there under its name, and a tool that writes to it loses its output.
RenameFails(p) ==
    /\ pull[p].pc = "rename"
    /\ asm' = Absent
    /\ pull' = [q \in Slots |->
                  IF q = p THEN [pull[p] EXCEPT !.pc = "cleanup"]
                  ELSE [pull[q] EXCEPT !.output = IF @ = "asm" THEN Absent ELSE @]]
    /\ UNCHANGED <<stage, merger, blobs, manifests, counters>>

\* generateSyntheticManifest finds the blob.  (The config blob it writes beside
\* it is part of ModelStore.)
SyntheticManifest(p) ==
    /\ pull[p].pc = "manifest"
    /\ IF blobs[pull[p].digest] = Absent THEN Abandon(p)
       ELSE Become(p, [pull[p] EXCEPT !.pc = "cleanup", !.ok = TRUE])
    /\ UNCHANGED <<stage, assembly, blobs, manifests, counters>>

-----------------------------------------------------------------------------
(***************************************************************************)
(* Return                                                                  *)
(***************************************************************************)

\* Mutant: the directory is removed on success only.
RemoveStageIfOk(p) ==
    LET r == pull[p] IN
    /\ r.pc = "cleanup"
    /\ IF r.ok
       THEN /\ stageDir' = FALSE
            /\ staged' = [f \in Files |-> Absent]
       ELSE UNCHANGED <<stageDir, staged>>
    /\ Become(p, IF r.ok THEN [r EXCEPT !.pc = "write"] ELSE Idle)
    /\ UNCHANGED <<creator, assembly, blobs, manifests, counters>>

\* defer os.RemoveAll(stageDir), whoever else uses it; its error is ignored,
\* and some of the files may be left then.
RemoveStage(p) ==
    LET r == pull[p] IN
    /\ r.pc = "cleanup"
    /\ \E left \in SUBSET {f \in Files : staged[f] # Absent} :
          /\ stale' \in {FALSE, stageDir} /\ (left # {} => stale')
          /\ stageDir' = stale'
          /\ staged' = [f \in Files |-> IF f \in left THEN staged[f] ELSE Absent]
          /\ pull' = [q \in Slots |->
                        IF q # p THEN [pull[q] EXCEPT !.linked = @ /\ pull[q].file \in left]
                        ELSE IF r.ok THEN [r EXCEPT !.pc = "write"] ELSE Idle]
    /\ UNCHANGED <<creator, assembly, blobs, manifests, pulls, crashes>>

\* PullModel writes the manifest, or fails to.
WriteManifest(p) ==
    LET r == pull[p] IN
    /\ r.pc = "write"
    /\ \/ manifests' = [manifests EXCEPT ![r.model] = r.digest]
       \/ UNCHANGED manifests
    /\ Become(p, Idle)
    /\ UNCHANGED <<stage, assembly, blobs, counters>>

-----------------------------------------------------------------------------
(***************************************************************************)
(* Crash and start                                                         *)
(***************************************************************************)

\* The blobs that no manifest names.
Unnamed == {d \in Content : blobs[d] # Absent /\ \A m \in Models : manifests[m] # d}

\* The server is killed: the tools that run are not its threads and go on.
\* PruneLayers of the next start removes the assembly file and the blobs that
\* no manifest names, those that are old enough and as far as it can, but no
\* directory.
Crash ==
    /\ crashes < MaxCrashes
    /\ crashes' = crashes + 1
    /\ stale' = TRUE
    /\ asm' \in {asm, Absent}
    /\ \E gone \in SUBSET Unnamed :
          /\ blobs' = [d \in Content |-> IF d \in gone THEN Absent ELSE blobs[d]]
          /\ LET lost(o) == o \in gone \/ (o = "asm" /\ asm' = Absent)
                 orphan(p) == [pull[p] EXCEPT !.pc = "orphan", !.disturbed = TRUE,
                                              !.output = IF lost(@) THEN Absent ELSE @]
             IN pull' = [p \in Slots |-> IF pull[p].pc = "merging" THEN orphan(p) ELSE Idle]
    /\ UNCHANGED <<stage, merger, manifests, pulls>>

\* A tool that lost its server ends; an unlinked output is lost.
OrphanEnds(p) ==
    LET r == pull[p] IN
    /\ r.pc = "orphan"
    /\ \/ FillOutput(p)
       \/ UNCHANGED <<asm, blobs>>
    /\ Become(p, Idle)
    /\ UNCHANGED <<stage, merger, manifests, counters>>

-----------------------------------------------------------------------------
Init ==
    /\ stageDir = FALSE
    /\ staged = [f \in Files |-> Absent]
    /\ creator = [f \in Files |-> Absent]
    /\ asm = Absent
    /\ merger = Absent
    /\ blobs = [d \in Content |-> Absent]
    /\ manifests = [m \in Models |-> Absent]
    /\ pull = [p \in Slots |-> Idle]
    /\ pulls = 0
    /\ crashes = 0
    /\ stale = FALSE

Download(p) == ListShards(p) \/ NoShards(p) \/ MakeStage(p) \/ CopyShard(p) \/ Fail(p)
Merge(p) == StartMerge(p) \/ FinishMerge(p) \/ Digest(p) \/ RenameAssembly(p) \/ RenameFails(p)
Finish(p) == SyntheticManifest(p) \/ RemoveStage(p) \/ WriteManifest(p) \/ OrphanEnds(p)

Next ==
    \/ \E p \in Slots : \/ \E m \in Models : PullModel(p, m)
                        \/ \E f \in Files : CreateShard(p, f)
                        \/ Download(p) \/ Merge(p) \/ Finish(p)
    \/ Crash

Spec == Init /\ [][Next]_vars

-----------------------------------------------------------------------------
(***************************************************************************)
(* Properties                                                              *)
(***************************************************************************)

\* The types, and no pull names a blob without having hashed a file.
TypeOK ==
    /\ stageDir \in BOOLEAN
    /\ staged \in [Files -> Content \cup {Absent}]
    /\ creator \in [Files -> Slots \cup {Absent}]
    /\ asm \in Content \cup {Absent}
    /\ merger \in Slots \cup {Absent}
    /\ blobs \in [Content -> Content \cup {Absent}]
    /\ manifests \in [Models -> Content \cup {Absent}]
    /\ pull \in [Slots -> Pull]
    /\ \A p \in Slots : pull[p].pc \in {"rename", "manifest", "write"} => pull[p].digest # Absent
    /\ pulls \in Nat
    /\ crashes \in Nat
    /\ stale \in BOOLEAN

\* A pull that no other one overlapped writes a manifest of its own model and
\* of a blob that holds it whole, whatever earlier pulls that failed, were
\* killed or got in each other's way have left in the shared directory, the
\* assembly file and the blobs.
PulledAlone ==
    \A p \in Slots :
        pull[p].pc = "write" /\ ~pull[p].disturbed =>
            pull[p].digest = pull[p].model /\ blobs[pull[p].model] = pull[p].model

\* The staging directory is there only while a pull uses it, unless the last
\* pull to leave it could not remove it or the server was killed: every way out
\* of the function removes it, and takes away what was left before.
StageRemoved ==
    stageDir /\ ~stale => \E p \in Slots : pull[p].pc # "idle"

\* The steps of PullShardedGGUFManifest between MkdirAll and RemoveAll.
UsesStage(p) ==
    pull[p].pc \in {"create", "copy", "merge", "merging", "digest", "rename", "manifest", "cleanup"}

\* Every pull that goes on has a model, and it has succeeded only when it
\* has hashed a file and found the blob.
PullSound(p) ==
    LET r == pull[p] IN
    /\ Busy(p) => r.model \in Models
    /\ r.ok => r.pc \in {"cleanup", "write"} /\ r.digest # Absent
    /\ r.pc = "write" => r.ok
    /\ r.pc = "orphan" => r.disturbed

\* How far a pull that no other one overlaps has come: the shards it has
\* downloaded are its own, then the assembly file, then the blob.
AloneSoFar(p) ==
    LET r == pull[p]
        has(F) == \A f \in F : staged[f] = r.model
    IN
    /\ r.pc \in {"stage", "create", "copy"} => r.todo \subseteq ShardsOf[r.model]
    /\ r.pc = "stage" => r.todo = ShardsOf[r.model]
    /\ r.pc \in {"create", "copy"} => has(ShardsOf[r.model] \ r.todo)
    /\ r.pc = "copy" => /\ r.file \in r.todo /\ r.linked
                        /\ creator[r.file] = p /\ staged[r.file] = Torn
    /\ r.pc \in {"merge", "merging"} => has(ShardsOf[r.model])
    /\ r.pc = "merging" => r.output = "asm" /\ asm = Torn /\ merger = p
    /\ r.pc \in {"digest", "rename"} => asm = r.model
    /\ r.pc \in {"rename", "manifest"} \/ r.ok => r.digest = r.model
    /\ r.pc = "manifest" \/ r.ok => blobs[r.model] = r.model

\* The invariant from which the properties here follow.
ShardInv ==
    /\ \A p \in Slots : PullSound(p)
    /\ \A p \in Slots : Busy(p) /\ ~pull[p].disturbed =>
          AloneSoFar(p) /\ \A q \in Slots \ {p} : ~Busy(q)
    /\ stageDir /\ ~stale => \E p \in Slots : UsesStage(p)

\* A blob that holds what its digest says is not changed again while no pull
\* overlaps another: only the prune of a start may take it away, and only when
\* no manifest names it.
BlobKept ==
    [][\A d \in Models :
        blobs[d] = d /\ (\A p \in Slots : ~pull[p].disturbed) =>
            \/ blobs'[d] = d
            \/ crashes' # crashes /\ blobs'[d] = Absent /\ \A m \in Models : manifests[m] # d]_vars
=============================================================================
