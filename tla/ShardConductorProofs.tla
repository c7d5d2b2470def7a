------------------------ MODULE ShardConductorProofs ------------------------
(***************************************************************************)
(* Proofs about ShardConductor, for any number of pulls, models and shards *)
(* and any sharing of names between them.                                  *)
(***************************************************************************)
EXTENDS ShardConductor, TLAPS

-----------------------------------------------------------------------------
(***************************************************************************)
(* Records                                                                 *)
(***************************************************************************)

Outputs == Content \cup {"asm", Absent}

\* A pull with some of its fields replaced, in the combinations of the actions.
LEMMA PullRecord ==
    ASSUME NEW r \in Pull, NEW pc \in Steps, NEW t \in SUBSET Files,
           NEW o \in Outputs, NEW d \in Content \cup {Absent}
    PROVE  /\ [r EXCEPT !.pc = pc] \in Pull
           /\ [r EXCEPT !.pc = pc, !.todo = t] \in Pull
           /\ [r EXCEPT !.pc = pc, !.output = o] \in Pull
           /\ [r EXCEPT !.pc = pc, !.digest = d] \in Pull
           /\ [r EXCEPT !.output = o] \in Pull
<1> USE DEF Pull, Outputs
<1>1. [r EXCEPT !.pc = pc] \in Pull
  OBVIOUS
<1>2. [r EXCEPT !.pc = pc, !.todo = t] \in Pull
  OBVIOUS
<1>3. [r EXCEPT !.pc = pc, !.output = o] \in Pull /\ [r EXCEPT !.output = o] \in Pull
  OBVIOUS
<1>4. [r EXCEPT !.pc = pc, !.digest = d] \in Pull
  OBVIOUS
<1>5. QED
  BY <1>1, <1>2, <1>3, <1>4

\* The changes that steps make to a pull keep its type.
LEMMA PullFlags ==
    ASSUME NEW r \in Pull, NEW pc \in Steps, NEW t \in SUBSET Files, NEW f \in Files \cup {Absent},
           NEW o \in Outputs
    PROVE  /\ [r EXCEPT !.disturbed = TRUE] \in Pull
           /\ \A b \in BOOLEAN : [r EXCEPT !.linked = b] \in Pull
           /\ [r EXCEPT !.pc = pc, !.ok = TRUE] \in Pull
           /\ [r EXCEPT !.pc = pc, !.file = f, !.linked = TRUE] \in Pull
           /\ [r EXCEPT !.pc = pc, !.todo = t, !.file = f, !.linked = FALSE] \in Pull
           /\ [r EXCEPT !.pc = pc, !.file = f, !.linked = FALSE, !.output = o] \in Pull
           /\ [r EXCEPT !.pc = pc, !.disturbed = TRUE, !.output = o] \in Pull
<1> USE DEF Pull, Outputs
<1>1. [r EXCEPT !.disturbed = TRUE] \in Pull /\ \A b \in BOOLEAN : [r EXCEPT !.linked = b] \in Pull
  OBVIOUS
<1>2. [r EXCEPT !.pc = pc, !.ok = TRUE] \in Pull
  OBVIOUS
<1>3. [r EXCEPT !.pc = pc, !.file = f, !.linked = TRUE] \in Pull
  OBVIOUS
<1>4. [r EXCEPT !.pc = pc, !.todo = t, !.file = f, !.linked = FALSE] \in Pull
  OBVIOUS
<1>5. [r EXCEPT !.pc = pc, !.file = f, !.linked = FALSE, !.output = o] \in Pull
  OBVIOUS
<1>6. [r EXCEPT !.pc = pc, !.disturbed = TRUE, !.output = o] \in Pull
  OBVIOUS
<1>7. QED
  BY <1>1, <1>2, <1>3, <1>4, <1>5, <1>6

\* So do its end and its start.
LEMMA IdlePull ==
    /\ Idle \in Pull
    /\ \A m \in Models, b \in BOOLEAN :
          [Idle EXCEPT !.pc = "list", !.model = m, !.disturbed = b] \in Pull
<1>1. Idle \in Pull
  BY Zenon DEF Idle, Pull, Steps
<1>2. ASSUME NEW r \in Pull, NEW m \in Models, NEW b \in BOOLEAN
      PROVE  [r EXCEPT !.pc = "list", !.model = m, !.disturbed = b] \in Pull
  BY DEF Pull, Steps
<1>3. QED
  BY <1>1, <1>2

\* A step of one pull leaves the others alone.
LEMMA Becomes ==
    ASSUME TypeOK, NEW p \in Slots, NEW r \in Pull, Become(p, r)
    PROVE  /\ pull' \in [Slots -> Pull] /\ pull'[p] = r
           /\ \A q \in Slots \ {p} : pull'[q] = pull[q]
BY DEF TypeOK, Become

-----------------------------------------------------------------------------
(***************************************************************************)
(* Steps of one pull                                                       *)
(***************************************************************************)

\* To the other pulls a step of p does no more than cut them off their files.
OthersStand(p) ==
    \A q \in Slots \ {p} :
        /\ pull'[q].pc = pull[q].pc /\ pull'[q].model = pull[q].model
        /\ pull'[q].ok = pull[q].ok /\ pull'[q].digest = pull[q].digest
        /\ pull'[q].disturbed = pull[q].disturbed

\* A pull that no other one overlaps is the only one that steps, and so it
\* suffices to look at the pull that steps.
LEMMA OnePull ==
    ASSUME ShardInv, NEW p \in Slots, Busy(p), OthersStand(p), PullSound(p)',
           Busy(p)' => pull'[p].disturbed = pull[p].disturbed,
           ~pull[p].disturbed /\ AloneSoFar(p) /\ Busy(p)' => AloneSoFar(p)',
           stageDir' /\ ~stale' => ~stale,
           stageDir' /\ ~stale' => UsesStage(p)' \/ (stageDir /\ ~UsesStage(p))
    PROVE  ShardInv'
<1>1. \A q \in Slots : PullSound(q)'
  BY DEF ShardInv, OthersStand, PullSound, Busy
<1>2. ASSUME NEW q \in Slots, Busy(q)', ~pull'[q].disturbed
      PROVE  AloneSoFar(q)' /\ \A u \in Slots \ {q} : ~Busy(u)'
  <2>1. q = p
    BY <1>2 DEF ShardInv, OthersStand, Busy
  <2>2. QED
    BY <1>2, <2>1 DEF ShardInv, OthersStand, Busy
<1>3. stageDir' /\ ~stale' => \E q \in Slots : UsesStage(q)'
  <2> SUFFICES ASSUME stageDir', ~stale', ~UsesStage(p)' PROVE \E q \in Slots : UsesStage(q)'
    OBVIOUS
  <2>1. PICK q \in Slots : UsesStage(q) /\ q # p
    BY DEF ShardInv
  <2>2. QED
    BY <2>1 DEF OthersStand, UsesStage
<1>4. QED
  BY <1>1, <1>2, <1>3 DEF ShardInv, Busy

\* The types, but for the files a step changes.
LEMMA PullTypes ==
    ASSUME TypeOK, NEW p \in Slots, pull' \in [Slots -> Pull], OthersStand(p),
           pull'[p].pc \in {"rename", "manifest", "write"} => pull'[p].digest # Absent
    PROVE  \A q \in Slots : pull'[q].pc \in {"rename", "manifest", "write"} => pull'[q].digest # Absent
BY DEF TypeOK, OthersStand

\* A pull that fails goes on to remove the stage.
LEMMA AbandonKept ==
    ASSUME TypeOK, ShardInv, NEW p \in Slots, Abandon(p),
           pull[p].pc \in {"create", "copy", "merge", "merging", "digest", "manifest"},
           UNCHANGED <<stageDir, staged, creator, asm, merger, blobs, manifests, pulls, crashes, stale>>
    PROVE  TypeOK' /\ ShardInv'
<1>1. pull[p] \in Pull /\ "cleanup" \in Steps /\ Absent \in Outputs
  BY DEF TypeOK, Steps, Outputs
<1>2. PICK r \in Pull : r = [pull[p] EXCEPT !.pc = "cleanup", !.file = Absent,
                                            !.linked = FALSE, !.output = Absent]
  BY <1>1, PullFlags
<1>3. /\ pull' \in [Slots -> Pull] /\ pull'[p] = r
      /\ \A q \in Slots \ {p} : pull'[q] = pull[q]
  BY <1>2, Becomes DEF Abandon
<1>4. /\ pull'[p].pc = "cleanup" /\ pull'[p].model = pull[p].model /\ pull'[p].ok = pull[p].ok
      /\ pull'[p].disturbed = pull[p].disturbed
  BY <1>1, <1>2, <1>3 DEF Pull
<1>5. OthersStand(p)
  BY <1>3 DEF OthersStand
<1>6. ~pull[p].ok /\ pull[p].model \in Models
  BY DEF ShardInv, PullSound, Busy
<1>7. PullSound(p)'
  BY <1>4, <1>6 DEF PullSound, Busy
<1>8. AloneSoFar(p)'
  BY <1>4, <1>6 DEF AloneSoFar
<1>9. TypeOK'
  BY <1>3, <1>4, <1>5, PullTypes DEF TypeOK
<1>10. QED
  BY <1>4, <1>5, <1>7, <1>8, <1>9, OnePull DEF Busy, UsesStage

\* It may fail at any point.
LEMMA FailKept ==
    ASSUME TypeOK, ShardInv, NEW p \in Slots, Fail(p)
    PROVE  TypeOK' /\ ShardInv'
BY AbandonKept DEF Fail, stage, assembly, counters

\* A pull ends.
LEMMA IdleKept ==
    ASSUME TypeOK, ShardInv, NEW p \in Slots, Become(p, Idle), Busy(p), ~UsesStage(p),
           asm' \in Content \cup {Absent}, blobs' \in [Content -> Content \cup {Absent}],
           manifests' \in [Models -> Content \cup {Absent}],
           UNCHANGED <<stageDir, staged, creator, merger, pulls, crashes, stale>>
    PROVE  TypeOK' /\ ShardInv'
<1>1. /\ pull' \in [Slots -> Pull] /\ pull'[p] = Idle
      /\ \A q \in Slots \ {p} : pull'[q] = pull[q]
  BY IdlePull, Becomes
<1>2. pull'[p].pc = "idle" /\ ~pull'[p].ok
  BY <1>1 DEF Idle
<1>3. OthersStand(p)
  BY <1>1 DEF OthersStand
<1>4. PullSound(p)' /\ ~Busy(p)'
  BY <1>2 DEF PullSound, Busy
<1>5. TypeOK'
  BY <1>1, <1>2, <1>3, PullTypes DEF TypeOK
<1>6. QED
  BY <1>3, <1>4, <1>5, OnePull

\* It lists the shards.
LEMMA ListKept ==
    ASSUME TypeOK, ShardInv, NEW p \in Slots, ListShards(p)
    PROVE  TypeOK' /\ ShardInv'
<1>1. /\ pull[p] \in Pull /\ pull[p].pc = "list"
      /\ UNCHANGED <<stageDir, staged, creator, asm, merger, blobs, manifests, pulls, crashes, stale>>
  BY DEF ListShards, TypeOK, stage, assembly, counters
<1>2. pull[p].model \in Models /\ ~pull[p].ok
  BY <1>1 DEF ShardInv, PullSound, Busy
<1>3. "stage" \in Steps /\ ShardsOf[pull[p].model] \in SUBSET Files /\ Absent \in Outputs
  BY <1>2, ShardsAssumption DEF Steps, Outputs
<1>4. PICK r \in Pull : r = [pull[p] EXCEPT !.pc = "stage", !.todo = ShardsOf[pull[p].model]]
  BY <1>1, <1>3, PullRecord
<1>5. /\ pull' \in [Slots -> Pull] /\ pull'[p] = r
      /\ \A q \in Slots \ {p} : pull'[q] = pull[q]
  BY <1>4, Becomes DEF ListShards
<1>6. /\ pull'[p].pc = "stage" /\ pull'[p].todo = ShardsOf[pull[p].model]
      /\ pull'[p].model = pull[p].model /\ pull'[p].ok = pull[p].ok
      /\ pull'[p].disturbed = pull[p].disturbed
  BY <1>1, <1>4, <1>5 DEF Pull
<1>7. OthersStand(p)
  BY <1>5 DEF OthersStand
<1>8. PullSound(p)' /\ AloneSoFar(p)'
  BY <1>2, <1>6 DEF PullSound, AloneSoFar, Busy
<1>9. TypeOK'
  BY <1>1, <1>5, <1>6, <1>7, PullTypes DEF TypeOK
<1>10. QED
  BY <1>1, <1>6, <1>7, <1>8, <1>9, OnePull DEF Busy, UsesStage

\* It makes the staging directory.
LEMMA StageKept ==
    ASSUME TypeOK, ShardInv, NEW p \in Slots, MakeStage(p)
    PROVE  TypeOK' /\ ShardInv'
<1>1. /\ pull[p] \in Pull /\ pull[p].pc = "stage" /\ stageDir' = TRUE
      /\ UNCHANGED <<staged, creator, asm, merger, blobs, manifests, pulls, crashes, stale>>
  BY DEF MakeStage, TypeOK, assembly, counters
<1>2. pull[p].model \in Models /\ ~pull[p].ok
  BY <1>1 DEF ShardInv, PullSound, Busy
<1>3. PICK r \in Pull : r = [pull[p] EXCEPT !.pc = "create"]
  <2>1. "create" \in Steps /\ {} \in SUBSET Files /\ Absent \in Outputs
    BY DEF Steps, Outputs
  <2>2. QED
    BY <1>1, <2>1, PullRecord
<1>4. /\ pull' \in [Slots -> Pull] /\ pull'[p] = r
      /\ \A q \in Slots \ {p} : pull'[q] = pull[q]
  BY <1>3, Becomes DEF MakeStage
<1>5. /\ pull'[p].pc = "create" /\ pull'[p].todo = pull[p].todo
      /\ pull'[p].model = pull[p].model /\ pull'[p].ok = pull[p].ok
      /\ pull'[p].disturbed = pull[p].disturbed
  BY <1>1, <1>3, <1>4 DEF Pull
<1>6. OthersStand(p)
  BY <1>4 DEF OthersStand
<1>7. PullSound(p)' /\ (AloneSoFar(p) => AloneSoFar(p)')
  BY <1>1, <1>2, <1>5 DEF PullSound, AloneSoFar, Busy
<1>8. TypeOK'
  BY <1>1, <1>4, <1>5, <1>6, PullTypes DEF TypeOK
<1>9. QED
  BY <1>1, <1>5, <1>6, <1>7, <1>8, OnePull DEF Busy, UsesStage

\* It creates, or empties, a shard file.
LEMMA CreateKept ==
    ASSUME TypeOK, ShardInv, NEW p \in Slots, NEW f \in Files, CreateShard(p, f)
    PROVE  TypeOK' /\ ShardInv'
<1>1. /\ pull[p] \in Pull /\ pull[p].pc = "create" /\ f \in pull[p].todo
      /\ UNCHANGED <<stageDir, asm, merger, blobs, manifests, pulls, crashes, stale>>
  BY DEF CreateShard, TypeOK, assembly, counters
<1>2. pull[p].model \in Models /\ ~pull[p].ok
  BY <1>1 DEF ShardInv, PullSound, Busy
<1>3. CASE ~stageDir
  BY <1>1, <1>3, AbandonKept DEF CreateShard
<1>4. CASE stageDir
  <2>1. /\ staged' = [staged EXCEPT ![f] = Torn] /\ creator' = [creator EXCEPT ![f] = p]
        /\ Become(p, [pull[p] EXCEPT !.pc = "copy", !.file = f, !.linked = TRUE])
    BY <1>4 DEF CreateShard
  <2>2. PICK r \in Pull : r = [pull[p] EXCEPT !.pc = "copy", !.file = f, !.linked = TRUE]
    <3>1. "copy" \in Steps /\ {} \in SUBSET Files /\ Absent \in Outputs
      BY DEF Steps, Outputs
    <3>2. QED
      BY <1>1, <3>1, PullFlags
  <2>3. /\ pull' \in [Slots -> Pull] /\ pull'[p] = r
        /\ \A q \in Slots \ {p} : pull'[q] = pull[q]
    BY <2>1, <2>2, Becomes
  <2>4. /\ pull'[p].pc = "copy" /\ pull'[p].file = f /\ pull'[p].linked
        /\ pull'[p].todo = pull[p].todo
        /\ pull'[p].model = pull[p].model /\ pull'[p].ok = pull[p].ok
        /\ pull'[p].disturbed = pull[p].disturbed
    BY <1>1, <2>2, <2>3 DEF Pull
  <2>5. OthersStand(p)
    BY <2>3 DEF OthersStand
  <2>6. staged'[f] = Torn /\ creator'[f] = p /\ \A g \in Files \ {f} : staged'[g] = staged[g]
    BY <2>1 DEF TypeOK
  <2>7. PullSound(p)'
    BY <1>2, <2>4 DEF PullSound, Busy
  <2>8. AloneSoFar(p) => AloneSoFar(p)'
    <3>1. ShardsOf[pull[p].model] \subseteq Files
      BY <1>2, ShardsAssumption
    <3>2. QED
      BY <1>1, <1>2, <2>4, <2>6, <3>1 DEF AloneSoFar
  <2>9. TypeOK'
    <3>1. staged' \in [Files -> Content \cup {Absent}] /\ creator' \in [Files -> Slots \cup {Absent}]
      BY <2>1 DEF TypeOK, Content
    <3>2. QED
      BY <1>1, <2>3, <2>4, <2>5, <3>1, PullTypes DEF TypeOK
  <2>10. QED
    BY <1>1, <2>4, <2>5, <2>7, <2>8, <2>9, OnePull DEF Busy, UsesStage
<1>5. QED
  BY <1>3, <1>4

\* It fills the shard file that it has open.
LEMMA CopyKept ==
    ASSUME TypeOK, ShardInv, NEW p \in Slots, CopyShard(p)
    PROVE  TypeOK' /\ ShardInv'
<1> DEFINE content == IF creator[pull[p].file] = p /\ staged[pull[p].file] = Torn
                      THEN pull[p].model ELSE Mixed
           pc == IF pull[p].todo = {pull[p].file} THEN "merge" ELSE "create"
<1>1. /\ pull[p] \in Pull /\ pull[p].pc = "copy"
      /\ staged' = IF pull[p].linked THEN [staged EXCEPT ![pull[p].file] = content] ELSE staged
      /\ Become(p, [pull[p] EXCEPT !.pc = pc, !.todo = pull[p].todo \ {pull[p].file},
                                   !.file = Absent, !.linked = FALSE])
      /\ UNCHANGED <<stageDir, creator, asm, merger, blobs, manifests, pulls, crashes, stale>>
  BY DEF CopyShard, TypeOK, assembly, counters
<1>2. pull[p].model \in Models /\ ~pull[p].ok
  BY <1>1 DEF ShardInv, PullSound, Busy
<1>3. PICK r \in Pull : r = [pull[p] EXCEPT !.pc = pc, !.todo = pull[p].todo \ {pull[p].file},
                                            !.file = Absent, !.linked = FALSE]
  <2>1. /\ pc \in Steps /\ pull[p].todo \ {pull[p].file} \in SUBSET Files /\ Absent \in Outputs
        /\ Absent \in Files \cup {Absent}
    BY <1>1 DEF Steps, Outputs, Pull
  <2>2. QED
    BY <1>1, <2>1, PullFlags
<1>4. /\ pull' \in [Slots -> Pull] /\ pull'[p] = r
      /\ \A q \in Slots \ {p} : pull'[q] = pull[q]
  BY <1>1, <1>3, Becomes
<1>5. /\ pull'[p].pc = pc /\ pull'[p].todo = pull[p].todo \ {pull[p].file}
      /\ pull'[p].model = pull[p].model /\ pull'[p].ok = pull[p].ok
      /\ pull'[p].disturbed = pull[p].disturbed
  <2>1. PICK k : k = pc
    OBVIOUS
  <2>2. PICK t : t = pull[p].todo \ {pull[p].file}
    OBVIOUS
  <2>3. pull'[p] = [pull[p] EXCEPT !.pc = k, !.todo = t, !.file = Absent, !.linked = FALSE]
    BY <1>3, <1>4, <2>1, <2>2
  <2>4. /\ pull'[p].pc = k /\ pull'[p].todo = t
        /\ pull'[p].model = pull[p].model /\ pull'[p].ok = pull[p].ok
        /\ pull'[p].disturbed = pull[p].disturbed
    BY <1>1, <2>3 DEF Pull
  <2>5. QED
    BY <2>1, <2>2, <2>4
<1>6. OthersStand(p)
  BY <1>4 DEF OthersStand
<1>7. PullSound(p)'
  BY <1>2, <1>5 DEF PullSound, Busy
<1>8. AloneSoFar(p) => AloneSoFar(p)'
  <2> SUFFICES ASSUME AloneSoFar(p) PROVE AloneSoFar(p)'
    OBVIOUS
  <2>1. PICK f \in pull[p].todo : f = pull[p].file
    BY <1>1 DEF AloneSoFar
  <2>2. /\ ShardsOf[pull[p].model] \subseteq Files /\ pull[p].todo \subseteq ShardsOf[pull[p].model]
        /\ pull[p].linked /\ creator[f] = p /\ staged[f] = Torn
        /\ \A g \in ShardsOf[pull[p].model] \ pull[p].todo : staged[g] = pull[p].model
    BY <1>1, <1>2, <2>1, ShardsAssumption DEF AloneSoFar
  <2>3. staged'[f] = pull[p].model /\ \A g \in Files \ {f} : staged'[g] = staged[g]
    BY <1>1, <2>1, <2>2 DEF TypeOK
  <2>4. \A g \in ShardsOf[pull[p].model] \ pull'[p].todo : staged'[g] = pull[p].model
    BY <1>5, <2>1, <2>2, <2>3
  <2>5. pull'[p].todo \subseteq ShardsOf[pull[p].model]
    BY <1>5, <2>2
  <2>6. pc = "merge" => pull'[p].todo = {}
    BY <1>5
  <2>7. QED
    BY <1>2, <1>5, <2>4, <2>5, <2>6 DEF AloneSoFar
<1>9. TypeOK'
  <2>1. content \in Content \cup {Absent}
    BY <1>2 DEF Content
  <2>2. staged' \in [Files -> Content \cup {Absent}]
    BY <1>1, <2>1 DEF TypeOK
  <2>3. QED
    BY <1>1, <1>4, <1>5, <1>6, <2>2, PullTypes DEF TypeOK
<1>10. QED
  BY <1>1, <1>5, <1>6, <1>7, <1>8, <1>9, OnePull DEF Busy, UsesStage

-----------------------------------------------------------------------------
(***************************************************************************)
(* The merge                                                               *)
(***************************************************************************)

\* What the tool makes of a complete set of shards of one model is that model.
LEMMA MergeOfAll ==
    ASSUME NEW m \in Models, \A f \in ShardsOf[m] : staged[f] = m
    PROVE  MergeOf(m) = m
<1>1. PICK f : f \in ShardsOf[m]
  BY ShardsAssumption
<1>2. \A c \in Models : (\A g \in ShardsOf[m] : staged[g] = c) => c = m
  BY <1>1
<1>3. (CHOOSE c \in Models : \A g \in ShardsOf[m] : staged[g] = c) = m
  BY <1>2
<1>4. QED
  BY <1>3 DEF MergeOf

\* What the merge tool makes of the shards has a content.
LEMMA MergeOfType ==
    ASSUME NEW m \in Models
    PROVE  MergeOf(m) \in Content
<1>1. ASSUME \E c \in Models : \A f \in ShardsOf[m] : staged[f] = c
      PROVE  (CHOOSE c \in Models : \A f \in ShardsOf[m] : staged[f] = c) \in Models
  BY <1>1
<1>2. QED
  BY <1>1 DEF MergeOf, Content

\* The output of a merge is the assembly file, or the blob it has become.
LEMMA FillTypes ==
    ASSUME TypeOK, NEW p \in Slots, pull[p].model \in Models, FillOutput(p)
    PROVE  asm' \in Content \cup {Absent} /\ blobs' \in [Content -> Content \cup {Absent}]
<1>1. \A x : Written(p, MergeOf(pull[p].model), x) \in Content
  BY MergeOfType DEF Written, Content
<1>2. QED
  BY <1>1 DEF FillOutput, TypeOK

\* The merge tool empties its output.
LEMMA StartMergeKept ==
    ASSUME TypeOK, ShardInv, NEW p \in Slots, StartMerge(p)
    PROVE  TypeOK' /\ ShardInv'
<1>1. /\ pull[p] \in Pull /\ pull[p].pc = "merge" /\ asm' = Torn /\ merger' = p
      /\ UNCHANGED <<stageDir, staged, creator, blobs, manifests, pulls, crashes, stale>>
  BY DEF StartMerge, TypeOK, stage, counters
<1>2. pull[p].model \in Models /\ ~pull[p].ok
  BY <1>1 DEF ShardInv, PullSound, Busy
<1>3. PICK r \in Pull : r = [pull[p] EXCEPT !.pc = "merging", !.output = "asm"]
  <2>1. "merging" \in Steps /\ {} \in SUBSET Files /\ "asm" \in Outputs
    BY DEF Steps, Outputs
  <2>2. QED
    BY <1>1, <2>1, PullRecord
<1>4. /\ pull' \in [Slots -> Pull] /\ pull'[p] = r
      /\ \A q \in Slots \ {p} : pull'[q] = pull[q]
  BY <1>3, Becomes DEF StartMerge
<1>5. /\ pull'[p].pc = "merging" /\ pull'[p].output = "asm"
      /\ pull'[p].model = pull[p].model /\ pull'[p].ok = pull[p].ok
      /\ pull'[p].disturbed = pull[p].disturbed
  BY <1>1, <1>3, <1>4 DEF Pull
<1>6. OthersStand(p)
  BY <1>4 DEF OthersStand
<1>7. PullSound(p)' /\ (AloneSoFar(p) => AloneSoFar(p)')
  BY <1>1, <1>2, <1>5 DEF PullSound, AloneSoFar, Busy
<1>8. TypeOK'
  BY <1>1, <1>4, <1>5, <1>6, PullTypes DEF TypeOK, Content
<1>9. QED
  BY <1>1, <1>5, <1>6, <1>7, <1>8, OnePull DEF Busy, UsesStage

\* The merge tool fills its output.
LEMMA FinishMergeKept ==
    ASSUME TypeOK, ShardInv, NEW p \in Slots, FinishMerge(p)
    PROVE  TypeOK' /\ ShardInv'
<1>1. /\ pull[p] \in Pull /\ pull[p].pc = "merging"
      /\ UNCHANGED <<stageDir, staged, creator, merger, manifests, pulls, crashes, stale>>
  BY DEF FinishMerge, TypeOK, stage, counters
<1>2. pull[p].model \in Models /\ ~pull[p].ok
  BY <1>1 DEF ShardInv, PullSound, Busy
<1>3. CASE \E f \in ShardsOf[pull[p].model] : staged[f] = Absent
  BY <1>1, <1>3, AbandonKept DEF FinishMerge
<1>4. CASE ~\E f \in ShardsOf[pull[p].model] : staged[f] = Absent
  <2>1. FillOutput(p) /\ Become(p, [pull[p] EXCEPT !.pc = "digest", !.output = Absent])
    BY <1>4 DEF FinishMerge
  <2>2. PICK r \in Pull : r = [pull[p] EXCEPT !.pc = "digest", !.output = Absent]
    <3>1. "digest" \in Steps /\ {} \in SUBSET Files /\ Absent \in Outputs
      BY DEF Steps, Outputs
    <3>2. QED
      BY <1>1, <3>1, PullRecord
  <2>3. /\ pull' \in [Slots -> Pull] /\ pull'[p] = r
        /\ \A q \in Slots \ {p} : pull'[q] = pull[q]
    BY <2>1, <2>2, Becomes
  <2>4. /\ pull'[p].pc = "digest"
        /\ pull'[p].model = pull[p].model /\ pull'[p].ok = pull[p].ok
        /\ pull'[p].disturbed = pull[p].disturbed
    BY <1>1, <2>2, <2>3 DEF Pull
  <2>5. OthersStand(p)
    BY <2>3 DEF OthersStand
  <2>6. PullSound(p)'
    BY <1>2, <2>4 DEF PullSound, Busy
  <2>7. AloneSoFar(p) => AloneSoFar(p)'
    <3> SUFFICES ASSUME AloneSoFar(p) PROVE AloneSoFar(p)'
      OBVIOUS
    <3>1. /\ pull[p].output = "asm" /\ asm = Torn /\ merger = p
          /\ \A f \in ShardsOf[pull[p].model] : staged[f] = pull[p].model
      BY <1>1 DEF AloneSoFar
    <3>2. MergeOf(pull[p].model) = pull[p].model
      BY <1>2, <3>1, MergeOfAll
    <3>3. asm' = pull[p].model
      BY <2>1, <3>1, <3>2, ValuesAssumption DEF FillOutput, Written
    <3>4. QED
      BY <1>2, <2>4, <3>3 DEF AloneSoFar
  <2>8. TypeOK'
    BY <1>1, <1>2, <2>1, <2>3, <2>4, <2>5, FillTypes, PullTypes DEF TypeOK
  <2>9. QED
    BY <1>1, <2>4, <2>5, <2>6, <2>7, <2>8, OnePull DEF Busy, UsesStage
<1>5. QED
  BY <1>3, <1>4

\* The digest of the assembly file is taken.
LEMMA DigestKept ==
    ASSUME TypeOK, ShardInv, NEW p \in Slots, Digest(p)
    PROVE  TypeOK' /\ ShardInv'
<1>1. /\ pull[p] \in Pull /\ pull[p].pc = "digest"
      /\ UNCHANGED <<stageDir, staged, creator, asm, merger, blobs, manifests, pulls, crashes, stale>>
  BY DEF Digest, TypeOK, stage, assembly, counters
<1>2. pull[p].model \in Models /\ ~pull[p].ok
  BY <1>1 DEF ShardInv, PullSound, Busy
<1>3. CASE asm = Absent
  BY <1>1, <1>3, AbandonKept DEF Digest
<1>4. CASE asm # Absent
  <2>1. PICK r \in Pull : r = [pull[p] EXCEPT !.pc = "rename", !.digest = asm]
    <3>1. /\ "rename" \in Steps /\ {} \in SUBSET Files /\ Absent \in Outputs
          /\ asm \in Content \cup {Absent}
      BY DEF Steps, Outputs, TypeOK
    <3>2. QED
      BY <1>1, <3>1, PullRecord
  <2>2. /\ pull' \in [Slots -> Pull] /\ pull'[p] = r
        /\ \A q \in Slots \ {p} : pull'[q] = pull[q]
    BY <1>4, <2>1, Becomes DEF Digest
  <2>3. /\ pull'[p].pc = "rename" /\ pull'[p].digest = asm
        /\ pull'[p].model = pull[p].model /\ pull'[p].ok = pull[p].ok
        /\ pull'[p].disturbed = pull[p].disturbed
    BY <1>1, <2>1, <2>2 DEF Pull
  <2>4. OthersStand(p)
    BY <2>2 DEF OthersStand
  <2>5. PullSound(p)' /\ (AloneSoFar(p) => AloneSoFar(p)')
    BY <1>1, <1>2, <2>3 DEF PullSound, AloneSoFar, Busy
  <2>6. TypeOK'
    BY <1>1, <1>4, <2>2, <2>3, <2>4, PullTypes DEF TypeOK
  <2>7. QED
    BY <1>1, <2>3, <2>4, <2>5, <2>6, OnePull DEF Busy, UsesStage
<1>5. QED
  BY <1>3, <1>4

\* The assembly file is renamed to the blob of its digest.
LEMMA RenameKept ==
    ASSUME TypeOK, ShardInv, NEW p \in Slots, RenameAssembly(p)
    PROVE  TypeOK' /\ ShardInv'
<1> DEFINE d == pull[p].digest
           out(q) == IF pull[q].output = "asm" THEN d
                     ELSE IF pull[q].output = d THEN Absent ELSE pull[q].output
<1>1. /\ pull[p] \in Pull /\ pull[p].pc = "rename" /\ asm # Absent
      /\ blobs' = [blobs EXCEPT ![d] = asm] /\ asm' = Absent
      /\ pull' = [q \in Slots |-> IF q = p THEN [pull[p] EXCEPT !.pc = "manifest"]
                                  ELSE [pull[q] EXCEPT !.output = out(q)]]
      /\ UNCHANGED <<stageDir, staged, creator, merger, manifests, pulls, crashes, stale>>
  BY DEF RenameAssembly, TypeOK, stage, counters
<1>2. /\ pull[p].model \in Models /\ ~pull[p].ok
      /\ d \in Content /\ d # Absent /\ asm \in Content
  BY <1>1 DEF ShardInv, PullSound, Busy, TypeOK, Pull
<1>3. \A q \in Slots : out(q) \in Outputs /\ pull[q] \in Pull
  BY <1>2 DEF Outputs, TypeOK, Pull
<1>4. /\ "manifest" \in Steps /\ {} \in SUBSET Files /\ Absent \in Outputs
      /\ Absent \in Content \cup {Absent}
  BY DEF Steps, Outputs
<1>5. [pull[p] EXCEPT !.pc = "manifest"] \in Pull
  BY <1>1, <1>4, PullRecord
<1>6. \A q \in Slots : [pull[q] EXCEPT !.output = out(q)] \in Pull
  <2> HIDE DEF out
  <2> QED BY <1>3, <1>4, PullRecord, Zenon
<1>7. pull' \in [Slots -> Pull]
  <2> HIDE DEF out
  <2> QED BY <1>1, <1>5, <1>6
<1>8. /\ pull'[p].pc = "manifest" /\ pull'[p].digest = d
      /\ pull'[p].model = pull[p].model /\ pull'[p].ok = pull[p].ok
      /\ pull'[p].disturbed = pull[p].disturbed
  <2>1. pull'[p] = [pull[p] EXCEPT !.pc = "manifest"]
    BY <1>1
  <2>2. QED
    BY <1>1, <2>1 DEF Pull
<1>9. OthersStand(p)
  <2> SUFFICES ASSUME NEW q \in Slots \ {p}
               PROVE  /\ pull'[q].pc = pull[q].pc /\ pull'[q].model = pull[q].model
                      /\ pull'[q].ok = pull[q].ok /\ pull'[q].digest = pull[q].digest
                      /\ pull'[q].disturbed = pull[q].disturbed
    BY DEF OthersStand
  <2>1. PICK o : pull'[q] = [pull[q] EXCEPT !.output = o]
    BY <1>1
  <2>2. QED
    BY <1>3, <2>1 DEF Pull
<1>10. PullSound(p)'
  BY <1>2, <1>8 DEF PullSound, Busy
<1>11. AloneSoFar(p) => AloneSoFar(p)'
  <2> SUFFICES ASSUME AloneSoFar(p) PROVE AloneSoFar(p)'
    OBVIOUS
  <2>1. d = pull[p].model /\ asm = pull[p].model
    BY <1>1 DEF AloneSoFar
  <2>2. blobs'[pull[p].model] = pull[p].model
    BY <1>1, <1>2, <2>1 DEF TypeOK
  <2>3. QED
    BY <1>2, <1>8, <2>1, <2>2 DEF AloneSoFar
<1>12. TypeOK'
  <2>1. blobs' \in [Content -> Content \cup {Absent}]
    BY <1>1, <1>2 DEF TypeOK
  <2>2. QED
    BY <1>1, <1>2, <1>7, <1>8, <1>9, <2>1, PullTypes DEF TypeOK
<1>13. QED
  BY <1>1, <1>8, <1>9, <1>10, <1>11, <1>12, OnePull DEF Busy, UsesStage

\* Another pull has renamed the assembly file, or the disk fails.
LEMMA RenameFailsKept ==
    ASSUME TypeOK, ShardInv, NEW p \in Slots, RenameFails(p)
    PROVE  TypeOK' /\ ShardInv'
<1> DEFINE out(q) == IF pull[q].output = "asm" THEN Absent ELSE pull[q].output
<1>1. /\ pull[p] \in Pull /\ pull[p].pc = "rename" /\ asm' = Absent
      /\ pull' = [q \in Slots |-> IF q = p THEN [pull[p] EXCEPT !.pc = "cleanup"]
                                  ELSE [pull[q] EXCEPT !.output = out(q)]]
      /\ UNCHANGED <<stageDir, staged, creator, merger, blobs, manifests, pulls, crashes, stale>>
  BY DEF RenameFails, TypeOK, stage, counters
<1>2. pull[p].model \in Models /\ ~pull[p].ok
  BY <1>1 DEF ShardInv, PullSound, Busy
<1>3. \A q \in Slots : out(q) \in Outputs /\ pull[q] \in Pull
  BY DEF Outputs, TypeOK, Pull
<1>4. /\ "cleanup" \in Steps /\ {} \in SUBSET Files /\ Absent \in Outputs
      /\ Absent \in Content \cup {Absent}
  BY DEF Steps, Outputs
<1>5. [pull[p] EXCEPT !.pc = "cleanup"] \in Pull
  BY <1>1, <1>4, PullRecord
<1>6. \A q \in Slots : [pull[q] EXCEPT !.output = out(q)] \in Pull
  <2> HIDE DEF out
  <2> QED BY <1>3, <1>4, PullRecord, Zenon
<1>7. pull' \in [Slots -> Pull]
  <2> HIDE DEF out
  <2> QED BY <1>1, <1>5, <1>6
<1>8. /\ pull'[p].pc = "cleanup"
      /\ pull'[p].model = pull[p].model /\ pull'[p].ok = pull[p].ok
      /\ pull'[p].disturbed = pull[p].disturbed
  <2>1. pull'[p] = [pull[p] EXCEPT !.pc = "cleanup"]
    BY <1>1
  <2>2. QED
    BY <1>1, <2>1 DEF Pull
<1>9. OthersStand(p)
  <2> SUFFICES ASSUME NEW q \in Slots \ {p}
               PROVE  /\ pull'[q].pc = pull[q].pc /\ pull'[q].model = pull[q].model
                      /\ pull'[q].ok = pull[q].ok /\ pull'[q].digest = pull[q].digest
                      /\ pull'[q].disturbed = pull[q].disturbed
    BY DEF OthersStand
  <2>1. PICK o : pull'[q] = [pull[q] EXCEPT !.output = o]
    BY <1>1
  <2>2. QED
    BY <1>3, <2>1 DEF Pull
<1>10. PullSound(p)' /\ AloneSoFar(p)'
  BY <1>2, <1>8 DEF PullSound, AloneSoFar, Busy
<1>11. TypeOK'
  BY <1>1, <1>7, <1>8, <1>9, PullTypes DEF TypeOK
<1>12. QED
  BY <1>1, <1>8, <1>9, <1>10, <1>11, OnePull DEF Busy, UsesStage

-----------------------------------------------------------------------------
(***************************************************************************)
(* Return, start and crash                                                 *)
(***************************************************************************)

\* generateSyntheticManifest looks for the blob.
LEMMA SyntheticKept ==
    ASSUME TypeOK, ShardInv, NEW p \in Slots, SyntheticManifest(p)
    PROVE  TypeOK' /\ ShardInv'
<1>1. /\ pull[p] \in Pull /\ pull[p].pc = "manifest"
      /\ UNCHANGED <<stageDir, staged, creator, asm, merger, blobs, manifests, pulls, crashes, stale>>
  BY DEF SyntheticManifest, TypeOK, stage, assembly, counters
<1>2. pull[p].model \in Models /\ pull[p].digest # Absent
  BY <1>1 DEF ShardInv, PullSound, Busy, TypeOK
<1>3. CASE blobs[pull[p].digest] = Absent
  BY <1>1, <1>3, AbandonKept DEF SyntheticManifest
<1>4. CASE blobs[pull[p].digest] # Absent
  <2>1. PICK r \in Pull : r = [pull[p] EXCEPT !.pc = "cleanup", !.ok = TRUE]
    <3>1. "cleanup" \in Steps /\ {} \in SUBSET Files /\ Absent \in Outputs
      BY DEF Steps, Outputs
    <3>2. QED
      BY <1>1, <3>1, PullFlags
  <2>2. /\ pull' \in [Slots -> Pull] /\ pull'[p] = r
        /\ \A q \in Slots \ {p} : pull'[q] = pull[q]
    BY <1>4, <2>1, Becomes DEF SyntheticManifest
  <2>3. /\ pull'[p].pc = "cleanup" /\ pull'[p].digest = pull[p].digest
        /\ pull'[p].model = pull[p].model /\ pull'[p].disturbed = pull[p].disturbed
    BY <1>1, <2>1, <2>2 DEF Pull
  <2>4. OthersStand(p)
    BY <2>2 DEF OthersStand
  <2>5. PullSound(p)' /\ (AloneSoFar(p) => AloneSoFar(p)')
    BY <1>1, <1>2, <2>3 DEF PullSound, AloneSoFar, Busy
  <2>6. TypeOK'
    BY <1>1, <2>2, <2>3, <2>4, PullTypes DEF TypeOK
  <2>7. QED
    BY <1>1, <2>3, <2>4, <2>5, <2>6, OnePull DEF Busy, UsesStage
<1>5. QED
  BY <1>3, <1>4

\* The staging directory is removed, with all shards in it or as many as it can.
LEMMA RemoveStageKept ==
    ASSUME TypeOK, ShardInv, NEW p \in Slots, RemoveStage(p)
    PROVE  TypeOK' /\ ShardInv'
<1> DEFINE r == IF pull[p].ok THEN [pull[p] EXCEPT !.pc = "write"] ELSE Idle
<1>0. PICK left \in SUBSET Files :
         /\ staged' = [f \in Files |-> IF f \in left THEN staged[f] ELSE Absent]
         /\ pull' = [q \in Slots |->
                       IF q # p THEN [pull[q] EXCEPT !.linked = @ /\ pull[q].file \in left] ELSE r]
  BY DEF RemoveStage
<1> DEFINE linked(q) == pull[q].linked /\ pull[q].file \in left
<1>1. /\ pull[p] \in Pull /\ pull[p].pc = "cleanup"
      /\ stageDir' = stale' /\ stale' \in BOOLEAN
      /\ staged' \in [Files -> Content \cup {Absent}]
      /\ pull' = [q \in Slots |-> IF q # p THEN [pull[q] EXCEPT !.linked = linked(q)] ELSE r]
      /\ UNCHANGED <<creator, asm, merger, blobs, manifests, pulls, crashes>>
  <2>1. staged' \in [Files -> Content \cup {Absent}]
    BY <1>0 DEF TypeOK
  <2>2. QED
    BY <1>0, <2>1 DEF RemoveStage, TypeOK, assembly
<1>2. pull[p].model \in Models /\ (pull[p].ok => pull[p].digest # Absent)
  BY <1>1 DEF ShardInv, PullSound, Busy
<1>3. /\ "write" \in Steps /\ {} \in SUBSET Files /\ Absent \in Outputs
      /\ Absent \in Content \cup {Absent} /\ \A q \in Slots : pull[q] \in Pull
  BY DEF Steps, Outputs, TypeOK
<1>4. r \in Pull
  BY <1>1, <1>3, PullRecord, IdlePull
<1>5. \A q \in Slots : [pull[q] EXCEPT !.linked = linked(q)] \in Pull
  <2>1. \A q \in Slots : linked(q) \in BOOLEAN
    BY Zenon
  <2> HIDE DEF linked
  <2>2. QED
    BY <1>3, <2>1, PullFlags, Zenon
<1>6. pull' \in [Slots -> Pull]
  <2> HIDE DEF r, linked
  <2> QED BY <1>1, <1>4, <1>5
<1>7. CASE pull[p].ok
  <2>1. pull'[p] = [pull[p] EXCEPT !.pc = "write"]
    BY <1>1, <1>7
  <2>2. /\ pull'[p].pc = "write" /\ pull'[p].digest = pull[p].digest
        /\ pull'[p].model = pull[p].model /\ pull'[p].disturbed = pull[p].disturbed
        /\ pull'[p].ok = pull[p].ok
    BY <1>1, <2>1 DEF Pull
  <2>3. PullSound(p)' /\ (AloneSoFar(p) => AloneSoFar(p)')
    BY <1>1, <1>2, <1>7, <2>2 DEF PullSound, AloneSoFar, Busy
  <2>4. OthersStand(p)
    <3> HIDE DEF linked
    <3> QED BY <1>1, <1>3 DEF OthersStand, Pull
  <2>5. TypeOK'
    BY <1>1, <1>2, <1>6, <1>7, <2>2, <2>4, PullTypes DEF TypeOK
  <2>6. QED
    BY <1>1, <2>2, <2>3, <2>4, <2>5, OnePull DEF Busy
<1>8. CASE ~pull[p].ok
  <2>1. pull'[p].pc = "idle" /\ ~pull'[p].ok
    BY <1>1, <1>8 DEF Idle
  <2>2. PullSound(p)' /\ ~Busy(p)'
    BY <2>1 DEF PullSound, Busy
  <2>3. OthersStand(p)
    <3> HIDE DEF linked
    <3> QED BY <1>1, <1>3 DEF OthersStand, Pull
  <2>4. TypeOK'
    BY <1>1, <1>6, <2>1, <2>3, PullTypes DEF TypeOK
  <2>5. QED
    BY <1>1, <2>2, <2>3, <2>4, OnePull DEF Busy
<1>9. QED
  BY <1>7, <1>8

\* A model without shards goes on to a pull of one file.
LEMMA NoShardsKept ==
    ASSUME TypeOK, ShardInv, NEW p \in Slots, NoShards(p)
    PROVE  TypeOK' /\ ShardInv'
<1>1. Become(p, Idle) /\ UNCHANGED <<stageDir, staged, creator, asm, merger, blobs, manifests, pulls, crashes, stale>>
  BY DEF NoShards, stage, assembly, counters
<1>2. Busy(p) /\ ~UsesStage(p)
  BY DEF NoShards, Busy, UsesStage
<1>3. QED
  BY <1>1, <1>2, IdleKept DEF TypeOK

\* The manifest is written.
LEMMA WriteKept ==
    ASSUME TypeOK, ShardInv, NEW p \in Slots, WriteManifest(p)
    PROVE  TypeOK' /\ ShardInv'
<1>1. Become(p, Idle) /\ UNCHANGED <<stageDir, staged, creator, asm, merger, blobs, pulls, crashes, stale>>
  BY DEF WriteManifest, stage, assembly, counters
<1>2. Busy(p) /\ ~UsesStage(p)
  BY DEF WriteManifest, Busy, UsesStage
<1>3. manifests' \in [Models -> Content \cup {Absent}]
  BY DEF WriteManifest, TypeOK, Pull
<1>4. QED
  BY <1>1, <1>2, <1>3, IdleKept DEF TypeOK

\* A merge tool that has outlived the server ends.
LEMMA OrphanKept ==
    ASSUME TypeOK, ShardInv, NEW p \in Slots, OrphanEnds(p)
    PROVE  TypeOK' /\ ShardInv'
<1>1. Become(p, Idle) /\ UNCHANGED <<stageDir, staged, creator, merger, manifests, pulls, crashes, stale>>
  BY DEF OrphanEnds, stage, counters
<1>2. Busy(p) /\ ~UsesStage(p)
  BY DEF OrphanEnds, Busy, UsesStage
<1>3. pull[p].model \in Models
  BY <1>2 DEF ShardInv, PullSound
<1>4. asm' \in Content \cup {Absent} /\ blobs' \in [Content -> Content \cup {Absent}]
  BY <1>3, FillTypes DEF OrphanEnds, TypeOK
<1>5. QED
  BY <1>1, <1>2, <1>4, IdleKept DEF TypeOK

\* A pull starts, and is disturbed by those that run.
LEMMA PullModelKept ==
    ASSUME TypeOK, ShardInv, NEW p \in Slots, NEW m \in Models, PullModel(p, m)
    PROVE  TypeOK' /\ ShardInv'
<1> DEFINE others == {q \in Slots \ {p} : Busy(q)}
           r == [Idle EXCEPT !.pc = "list", !.model = m, !.disturbed = others # {}]
<1>1. /\ ~Busy(p) /\ pulls' = pulls + 1
      /\ pull' = [q \in Slots |-> IF q = p THEN r
                                  ELSE IF q \in others THEN [pull[q] EXCEPT !.disturbed = TRUE]
                                  ELSE pull[q]]
      /\ UNCHANGED <<stageDir, staged, creator, asm, merger, blobs, manifests, crashes, stale>>
  BY DEF PullModel, stage, assembly
<1>2. /\ "idle" \in Steps /\ {} \in SUBSET Files /\ Absent \in Outputs
      /\ \A q \in Slots : pull[q] \in Pull
  BY DEF Steps, Outputs, TypeOK
<1>3. r \in Pull
  <2>1. PICK b \in BOOLEAN : b = (others # {})
    BY Zenon
  <2>2. QED
    BY <2>1, IdlePull, Zenon
<1>4. \A q \in Slots : [pull[q] EXCEPT !.disturbed = TRUE] \in Pull
  BY <1>2, PullFlags, Zenon
<1>5. pull' \in [Slots -> Pull]
  <2> HIDE DEF r, others
  <2> QED BY <1>1, <1>2, <1>3, <1>4
<1>6. /\ pull'[p].pc = "list" /\ pull'[p].model = m /\ ~pull'[p].ok
      /\ ~pull'[p].disturbed => others = {}
  <2>1. pull'[p] = r
    BY <1>1
  <2>2. r.pc = "list" /\ r.model = m /\ r.ok = FALSE /\ r.disturbed = (others # {})
    <3> HIDE DEF others
    <3> QED BY DEF Idle
  <2>3. QED
    BY <2>1, <2>2
<1>7. \A q \in Slots \ {p} :
         /\ pull'[q].pc = pull[q].pc /\ pull'[q].model = pull[q].model
         /\ pull'[q].ok = pull[q].ok /\ pull'[q].digest = pull[q].digest
         /\ pull[q].disturbed \/ Busy(q) => pull'[q].disturbed
  <2> SUFFICES ASSUME NEW q \in Slots \ {p}
               PROVE  /\ pull'[q].pc = pull[q].pc /\ pull'[q].model = pull[q].model
                      /\ pull'[q].ok = pull[q].ok /\ pull'[q].digest = pull[q].digest
                      /\ pull[q].disturbed \/ Busy(q) => pull'[q].disturbed
    OBVIOUS
  <2>1. CASE Busy(q)
    <3>1. pull'[q] = [pull[q] EXCEPT !.disturbed = TRUE]
      BY <1>1, <2>1
    <3>2. QED
      BY <1>2, <3>1 DEF Pull
  <2>2. CASE ~Busy(q)
    BY <1>1, <2>2
  <2>3. QED
    BY <2>1, <2>2
<1>8. TypeOK'
  <2>1. \A q \in Slots : pull'[q].pc \in {"rename", "manifest", "write"} => pull'[q].digest # Absent
    BY <1>6, <1>7 DEF TypeOK
  <2>2. pulls' \in Nat
    <3>1. pulls \in Nat
      BY DEF TypeOK
    <3>2. pulls' = pulls + 1
      BY DEF PullModel
    <3>3. QED
      BY <3>1, <3>2
  <2>3. QED
    BY <1>1, <1>5, <2>1, <2>2 DEF TypeOK
<1>9. \A q \in Slots : PullSound(q)'
  <2>1. PullSound(p)'
    BY <1>6 DEF PullSound, Busy
  <2>2. \A q \in Slots \ {p} : PullSound(q)'
    BY <1>7 DEF ShardInv, PullSound, Busy
  <2>3. QED
    BY <2>1, <2>2
<1>10. ASSUME NEW q \in Slots, Busy(q)', ~pull'[q].disturbed
       PROVE  AloneSoFar(q)' /\ \A u \in Slots \ {q} : ~Busy(u)'
  <2>1. q = p
    BY <1>7, <1>10 DEF Busy
  <2>2. others = {}
    BY <1>6, <1>10, <2>1
  <2>3. \A u \in Slots \ {p} : ~Busy(u)'
    BY <1>7, <2>2 DEF Busy
  <2>4. AloneSoFar(p)'
    BY <1>6 DEF AloneSoFar
  <2>5. QED
    BY <2>1, <2>3, <2>4
<1>11. stageDir' /\ ~stale' => \E q \in Slots : UsesStage(q)'
  BY <1>1, <1>7 DEF ShardInv, UsesStage, Busy
<1>12. QED
  BY <1>8, <1>9, <1>10, <1>11 DEF ShardInv, Busy

\* A crash leaves the files and the merge tools.
LEMMA CrashKept ==
    ASSUME TypeOK, ShardInv, Crash
    PROVE  TypeOK' /\ ShardInv'
<1>0. PICK gone \in SUBSET Unnamed :
         /\ blobs' = [d \in Content |-> IF d \in gone THEN Absent ELSE blobs[d]]
         /\ pull' = [q \in Slots |->
                       IF pull[q].pc = "merging"
                       THEN [pull[q] EXCEPT !.pc = "orphan", !.disturbed = TRUE,
                               !.output = IF @ \in gone \/ (@ = "asm" /\ asm' = Absent)
                                          THEN Absent ELSE @]
                       ELSE Idle]
  BY DEF Crash
<1> DEFINE out(q) == IF pull[q].output \in gone \/ (pull[q].output = "asm" /\ asm' = Absent)
                     THEN Absent ELSE pull[q].output
           orphan(q) == [pull[q] EXCEPT !.pc = "orphan", !.disturbed = TRUE, !.output = out(q)]
<1>1. /\ crashes' = crashes + 1 /\ asm' \in {asm, Absent} /\ stale' = TRUE
      /\ blobs' \in [Content -> Content \cup {Absent}]
      /\ pull' = [q \in Slots |-> IF pull[q].pc = "merging" THEN orphan(q) ELSE Idle]
      /\ UNCHANGED <<stageDir, staged, creator, merger, manifests, pulls>>
  <2>1. blobs' \in [Content -> Content \cup {Absent}]
    BY <1>0 DEF TypeOK
  <2>2. QED
    BY <1>0, <2>1 DEF Crash, stage
<1>2. /\ "orphan" \in Steps /\ {} \in SUBSET Files /\ Absent \in Files \cup {Absent}
      /\ \A q \in Slots : pull[q] \in Pull /\ out(q) \in Outputs
  BY DEF Steps, Outputs, TypeOK, Pull
<1>3. \A q \in Slots : orphan(q) \in Pull
  <2> HIDE DEF out
  <2> QED BY <1>2, PullFlags, Zenon
<1>4. pull' \in [Slots -> Pull]
  <2> HIDE DEF orphan
  <2> QED BY <1>1, <1>3, IdlePull
<1>5. ASSUME NEW q \in Slots
      PROVE  \/ /\ pull'[q].pc = "orphan" /\ pull'[q].disturbed
                /\ pull'[q].model \in Models /\ ~pull'[q].ok
             \/ pull'[q].pc = "idle" /\ ~pull'[q].ok
  <2>1. CASE pull[q].pc = "merging"
    <3>1. PICK o : pull'[q] = [pull[q] EXCEPT !.pc = "orphan", !.disturbed = TRUE, !.output = o]
      BY <1>1, <2>1
    <3>2. /\ pull'[q].pc = "orphan" /\ pull'[q].disturbed
          /\ pull'[q].model = pull[q].model /\ pull'[q].ok = pull[q].ok
      BY <1>2, <3>1 DEF Pull
    <3>3. pull[q].model \in Models /\ ~pull[q].ok
      BY <2>1 DEF ShardInv, PullSound, Busy
    <3>4. QED
      BY <3>2, <3>3
  <2>2. CASE pull[q].pc # "merging"
    <3>1. pull'[q] = Idle
      BY <1>1, <2>2
    <3>2. QED
      BY <3>1 DEF Idle
  <2>3. QED
    BY <2>1, <2>2
<1>c. crashes' \in Nat
  <2>1. crashes \in Nat
    BY DEF TypeOK
  <2>2. crashes' = crashes + 1
    BY DEF Crash
  <2>3. QED
    BY <2>1, <2>2
<1>6. TypeOK'
  <2>1. asm' \in Content \cup {Absent}
    BY <1>1 DEF TypeOK
  <2>2. QED
    BY <1>1, <1>4, <1>5, <1>c, <2>1 DEF TypeOK
<1>7. \A q \in Slots : PullSound(q)' /\ (Busy(q)' => pull'[q].disturbed)
  BY <1>5 DEF PullSound, Busy
<1>8. QED
  BY <1>1, <1>6, <1>7 DEF ShardInv, Busy

-----------------------------------------------------------------------------
(***************************************************************************)
(* The theorems                                                            *)
(***************************************************************************)

\* There are no files at first.
LEMMA ShardInit == ASSUME Init PROVE TypeOK /\ ShardInv
<1>1. \A p \in Slots : pull[p].pc = "idle" /\ ~pull[p].ok
  BY DEF Init, Idle
<1>2. TypeOK
  BY <1>1, IdlePull DEF Init, TypeOK
<1>3. \A p \in Slots : PullSound(p) /\ ~Busy(p)
  BY <1>1 DEF PullSound, Busy
<1>4. QED
  BY <1>2, <1>3 DEF Init, ShardInv

\* ShardInv is inductive, with the types.
LEMMA ShardNext == ASSUME TypeOK, ShardInv, [Next]_vars PROVE TypeOK' /\ ShardInv'
<1>1. ASSUME NEW p \in Slots, NEW m \in Models, PullModel(p, m) PROVE TypeOK' /\ ShardInv'
  BY <1>1, PullModelKept
<1>2. ASSUME NEW p \in Slots, NEW f \in Files, CreateShard(p, f) PROVE TypeOK' /\ ShardInv'
  BY <1>2, CreateKept
<1>3. ASSUME NEW p \in Slots, Download(p) PROVE TypeOK' /\ ShardInv'
  BY <1>3, ListKept, NoShardsKept, StageKept, CopyKept, FailKept DEF Download
<1>4. ASSUME NEW p \in Slots, Merge(p) PROVE TypeOK' /\ ShardInv'
  BY <1>4, StartMergeKept, FinishMergeKept, DigestKept, RenameKept, RenameFailsKept DEF Merge
<1>5. ASSUME NEW p \in Slots, Finish(p) PROVE TypeOK' /\ ShardInv'
  BY <1>5, SyntheticKept, RemoveStageKept, WriteKept, OrphanKept DEF Finish
<1>6. CASE Crash
  BY <1>6, CrashKept
<1>7. CASE UNCHANGED vars
  <2>1. TypeOK'
    BY <1>7 DEF TypeOK, vars
  <2>2. \A p \in Slots : PullSound(p)' /\ (AloneSoFar(p) => AloneSoFar(p)')
    BY <1>7 DEF ShardInv, PullSound, AloneSoFar, Busy, vars
  <2>3. QED
    BY <1>7, <2>1, <2>2 DEF ShardInv, Busy, UsesStage, vars
<1>8. QED
  BY <1>1, <1>2, <1>3, <1>4, <1>5, <1>6, <1>7 DEF Next

\* The types: a pull that renames, looks for or names a blob has hashed one.
THEOREM ShardTypeCorrect == Spec => []TypeOK
<1>1. QED
  BY ShardInit, ShardNext, PTL DEF Spec

\* The inductive invariant of the conductor.
THEOREM ShardInvCorrect == Spec => []ShardInv
<1>1. QED
  BY ShardInit, ShardNext, PTL DEF Spec

\* A pull that no other one overlaps makes a manifest of its own model and a
\* whole blob, whatever is left of earlier pulls under the shared names, for
\* any models, any shard names in common and any number of crashes.
THEOREM AlonePullsWhole == Spec => []PulledAlone
<1>1. TypeOK /\ ShardInv => PulledAlone
  BY DEF ShardInv, PullSound, AloneSoFar, Busy, PulledAlone
<1>2. QED
  BY <1>1, ShardTypeCorrect, ShardInvCorrect, PTL

\* Whatever way PullShardedGGUFManifest is left, the last pull to return
\* takes the staging directory with it, unless os.RemoveAll fails.
THEOREM StageIsRemoved == Spec => []StageRemoved
<1>1. ShardInv => StageRemoved
  BY DEF ShardInv, StageRemoved, UsesStage
<1>2. QED
  BY <1>1, ShardInvCorrect, PTL

\* As long as no pull overlaps another one, a blob that holds what its digest
\* says is never changed, and goes only with the prune of a start that finds no
\* manifest for it.
THEOREM BlobsAreKept == Spec => BlobKept
<1> DEFINE Kept == \A d \in Models :
               blobs[d] = d /\ (\A p \in Slots : ~pull[p].disturbed) =>
                   \/ blobs'[d] = d
                   \/ crashes' # crashes /\ blobs'[d] = Absent /\ \A m \in Models : manifests[m] # d
<1>1. ASSUME TypeOK, ShardInv, [Next]_vars PROVE Kept \/ UNCHANGED vars
  <2> DEFINE Pruned(d) == /\ crashes' # crashes /\ blobs'[d] = Absent
                          /\ \A m \in Models : manifests[m] # d
  <2> SUFFICES ASSUME NEW d \in Models, blobs[d] = d, \A p \in Slots : ~pull[p].disturbed, Next
               PROVE  blobs'[d] = d \/ Pruned(d)
    BY <1>1
  <2>1. \A p \in Slots : ~OrphanEnds(p)
    BY <1>1 DEF OrphanEnds, ShardInv, PullSound
  <2>2. ASSUME NEW p \in Slots, RenameAssembly(p) PROVE blobs'[d] = d
    <3>1. pull[p].digest = pull[p].model /\ asm = pull[p].model
      BY <1>1, <2>2 DEF RenameAssembly, ShardInv, AloneSoFar, Busy
    <3>2. QED
      BY <1>1, <2>2, <3>1 DEF RenameAssembly, TypeOK
  <2>3. ASSUME NEW p \in Slots, FinishMerge(p) PROVE blobs'[d] = d
    <3>1. pull[p].output = "asm"
      BY <1>1, <2>3 DEF FinishMerge, ShardInv, AloneSoFar, Busy
    <3>2. blobs' = blobs
      BY <2>3, <3>1, ValuesAssumption DEF FinishMerge, FillOutput
    <3>3. QED
      BY <3>2
  <2>4. ASSUME NEW p \in Slots, Download(p) PROVE blobs' = blobs
    BY <2>4 DEF Download, ListShards, NoShards, MakeStage, CopyShard, Fail
  <2>5. CASE \E p \in Slots : \/ \E m \in Models : PullModel(p, m)
                              \/ \E f \in Files : CreateShard(p, f)
    BY <2>5 DEF PullModel, CreateShard
  <2>6. ASSUME NEW p \in Slots, StartMerge(p) \/ Digest(p) \/ RenameFails(p) \/ SyntheticManifest(p)
                                \/ RemoveStage(p) \/ WriteManifest(p)
        PROVE  blobs' = blobs
    BY <2>6 DEF StartMerge, Digest, RenameFails, SyntheticManifest, RemoveStage, WriteManifest
  <2>7. CASE \E p \in Slots : Download(p) \/ Merge(p) \/ Finish(p)
    <3>1. blobs'[d] = d
      BY <2>1, <2>2, <2>3, <2>4, <2>6, <2>7 DEF Merge, Finish
    <3>2. QED
      BY <3>1
  <2>8. CASE Crash
    <3>1. PICK gone \in SUBSET Unnamed :
             blobs' = [e \in Content |-> IF e \in gone THEN Absent ELSE blobs[e]]
      BY <2>8 DEF Crash
    <3>2. crashes' # crashes
      <4>1. crashes \in Nat
        BY <1>1 DEF TypeOK
      <4>2. crashes' = crashes + 1
        BY <2>8 DEF Crash
      <4>3. QED
        BY <4>1, <4>2
    <3>3. d \in Content
      BY DEF Content
    <3>4. CASE d \in gone
      BY <3>1, <3>2, <3>3, <3>4 DEF Unnamed
    <3>5. CASE d \notin gone
      BY <3>1, <3>3, <3>5
    <3>6. QED
      BY <3>4, <3>5
  <2>9. \/ \E p \in Slots : \/ \E m \in Models : PullModel(p, m)
                            \/ \E f \in Files : CreateShard(p, f)
        \/ \E p \in Slots : Download(p) \/ Merge(p) \/ Finish(p)
        \/ Crash
    BY Zenon DEF Next
  <2>10. QED
    BY <2>5, <2>7, <2>8, <2>9, Zenon
<1>2. QED
  BY <1>1, ShardTypeCorrect, ShardInvCorrect, PTL DEF Spec, BlobKept
=============================================================================
