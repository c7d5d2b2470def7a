-------------------------- MODULE ChatStreamProofs --------------------------
(***************************************************************************)
(* Proofs about ChatStream, for any number of chats, slots, chunks and     *)
(* runners.                                                                *)
(***************************************************************************)
EXTENDS ChatStream, FiniteSetTheorems, TLAPS

-----------------------------------------------------------------------------
(***************************************************************************)
(* The semaphore                                                           *)
(***************************************************************************)

\* The chats that hold a slot of runner g.
Holders(g) == {c \in Chats : producer[c].runner = g /\ HoldsSlot(c)}

\* The chats that hold a slot can be counted.
LEMMA HoldersFinite ==
    \A g : /\ IsFiniteSet(Holders(g)) /\ Cardinality(Holders(g)) \in Nat
           /\ IsFiniteSet(Holders(g))' /\ Cardinality(Holders(g))' \in Nat
<1> TAKE g
<1>1. Holders(g) \subseteq Chats /\ Holders(g)' \subseteq Chats
  BY DEF Holders
<1>2. IsFiniteSet(Holders(g)) /\ IsFiniteSet(Holders(g)')
  BY <1>1, ChatsAssumption, FS_Subset
<1>3. QED
  BY <1>2, FS_CardinalityType

\* A step that neither takes nor returns a slot.
LEMMA SlotsKept ==
    ASSUME SlotsCounted, UNCHANGED sem,
           \A c \in Chats : /\ HoldsSlot(c)' <=> HoldsSlot(c)
                            /\ HoldsSlot(c) => producer'[c].runner = producer[c].runner
    PROVE  SlotsCounted'
<1>1. \A g : Holders(g)' = Holders(g)
  BY DEF Holders
<1>2. QED
  BY <1>1 DEF SlotsCounted, Holders

\* sem.Acquire
LEMMA SlotTaken ==
    ASSUME TypeOK, SlotsCounted, NEW c \in Chats, ~HoldsSlot(c), HoldsSlot(c)',
           producer'[c].runner = producer[c].runner,
           \A d \in Chats \ {c} : producer'[d] = producer[d],
           sem' = [sem EXCEPT ![producer[c].runner] = @ + 1]
    PROVE  SlotsCounted'
<1>1. PICK g \in Runners : g = producer[c].runner
  BY DEF TypeOK, Producer
<1>2. Holders(g)' = Holders(g) \cup {c} /\ c \notin Holders(g)
  BY <1>1 DEF Holders, HoldsSlot
<1>3. Cardinality(Holders(g)') = Cardinality(Holders(g)) + 1
  BY <1>2, HoldersFinite, FS_AddElement
<1>4. \A h \in Runners \ {g} : Holders(h)' = Holders(h)
  BY <1>1 DEF Holders, HoldsSlot
<1>5. \A h \in Runners : sem[h] = Cardinality(Holders(h))
  BY DEF SlotsCounted, Holders
<1>6. sem'[g] = sem[g] + 1 /\ \A h \in Runners \ {g} : sem'[h] = sem[h]
  BY <1>1 DEF TypeOK
<1>7. \A h \in Runners : sem'[h] = Cardinality(Holders(h)')
  BY <1>1, <1>3, <1>4, <1>5, <1>6
<1>8. QED
  BY <1>7 DEF SlotsCounted, Holders

\* sem.Release
LEMMA SlotReturned ==
    ASSUME TypeOK, SlotsCounted, NEW c \in Chats, HoldsSlot(c), ~HoldsSlot(c)',
           \A d \in Chats \ {c} : producer'[d] = producer[d],
           sem' = [sem EXCEPT ![producer[c].runner] = @ - 1]
    PROVE  SlotsCounted' /\ sem' \in [Runners -> 0..NumParallel]
<1>1. PICK g \in Runners : g = producer[c].runner
  BY DEF TypeOK, Producer
<1>2. Holders(g)' = Holders(g) \ {c} /\ c \in Holders(g)
  BY <1>1 DEF Holders, HoldsSlot
<1>3. Cardinality(Holders(g)') = Cardinality(Holders(g)) - 1
  BY <1>2, HoldersFinite, FS_RemoveElement
<1>4. \A h \in Runners \ {g} : Holders(h)' = Holders(h)
  BY <1>1 DEF Holders, HoldsSlot
<1>5. \A h \in Runners : sem[h] = Cardinality(Holders(h))
  BY DEF SlotsCounted, Holders
<1>6. sem'[g] = sem[g] - 1 /\ \A h \in Runners \ {g} : sem'[h] = sem[h]
  BY <1>1 DEF TypeOK
<1>7. \A h \in Runners : sem'[h] = Cardinality(Holders(h)')
  BY <1>1, <1>3, <1>4, <1>5, <1>6
<1>8. sem'[g] \in Nat /\ sem[g] \in 0..NumParallel
  BY <1>1, <1>7, HoldersFinite DEF TypeOK
<1>9. sem' \in [Runners -> 0..NumParallel]
  BY <1>1, <1>6, <1>8, SlotsAssumption DEF TypeOK
<1>10. QED
  BY <1>7, <1>9 DEF SlotsCounted, Holders

-----------------------------------------------------------------------------
(***************************************************************************)
(* Types                                                                   *)
(***************************************************************************)

\* Records of the producer and of the body with some fields replaced.
LEMMA ProducerRecord ==
    ASSUME NEW r \in Producer, NEW pc \in Steps, NEW k \in 0..MaxChunks, NEW m \in Messages
    PROVE  /\ [r EXCEPT !.pc = pc] \in Producer
           /\ [r EXCEPT !.pc = pc, !.msg = m] \in Producer
           /\ [r EXCEPT !.pc = pc, !.read = k, !.msg = m] \in Producer
BY DEF Producer

\* What llama-server adds to an answer keeps its type.
LEMMA BodyRecord ==
    ASSUME NEW r \in Body, NEW k \in 0..MaxChunks,
           NEW e \in {"none", "open", "hung", "eof", "torn"}
    PROVE  /\ [r EXCEPT !.sent = k] \in Body
           /\ [r EXCEPT !.final = TRUE] \in Body
           /\ [r EXCEPT !.end = e] \in Body
BY DEF Body

\* An answer that has not begun has the type of one.
LEMMA NoBodyType == NoBody \in Body /\ [NoBody EXCEPT !.end = "open"] \in Body
<1>1. 0 \in 0..MaxChunks
  BY BoundsAssumption
<1>2. NoBody \in Body
  BY <1>1, Zenon DEF NoBody, Body
<1>3. QED
  BY <1>1, <1>2, BodyRecord, Zenon

\* The producer of c goes to another step.
LEMMA Goes ==
    ASSUME TypeOK, NEW c \in Chats, NEW pc \in Steps, Goto(c, pc)
    PROVE  /\ producer' \in [Chats -> Producer]
           /\ producer'[c].pc = pc /\ producer'[c].runner = producer[c].runner
           /\ producer'[c].read = producer[c].read /\ producer'[c].msg = producer[c].msg
           /\ \A d \in Chats \ {c} : producer'[d] = producer[d]
<1>1. producer' = [producer EXCEPT ![c] = [producer[c] EXCEPT !.pc = pc]]
  BY DEF Goto
<1>2. producer[c] \in Producer /\ DOMAIN producer = Chats
  BY DEF TypeOK
<1>3. [producer[c] EXCEPT !.pc = pc] \in Producer
  BY <1>2, BoundsAssumption, ProducerRecord DEF Producer
<1>4. /\ producer' \in [Chats -> Producer]
      /\ producer'[c] = [producer[c] EXCEPT !.pc = pc]
      /\ \A d \in Chats \ {c} : producer'[d] = producer[d]
  BY <1>1, <1>2, <1>3 DEF TypeOK
<1>5. QED
  BY <1>2, <1>4 DEF Producer

\* ... that holds a slot if the old one did.
LEMMA GotoTypes ==
    ASSUME TypeOK, SlotsCounted, NEW c \in Chats, NEW pc \in Steps, Goto(c, pc),
           HoldsSlot(c)' <=> HoldsSlot(c), UNCHANGED sem
    PROVE  producer' \in [Chats -> Producer] /\ SlotsCounted'
<1>1. producer[c] \in Producer
  BY DEF TypeOK
<1>2. \A d \in Chats : producer'[d].runner = producer[d].runner
  BY <1>1, Goes DEF Producer
<1>3. \A d \in Chats : HoldsSlot(d)' <=> HoldsSlot(d)
  BY Goes DEF HoldsSlot
<1>4. QED
  BY <1>2, <1>3, Goes, SlotsKept

\* Chat returns.
LEMMA ReleaseTypes ==
    ASSUME TypeOK, SlotsCounted, NEW c \in Chats, NEW pc \in {"sendError", "close"},
           Release(c, pc), HoldsSlot(c)
    PROVE  /\ producer' \in [Chats -> Producer]
           /\ sem' \in [Runners -> 0..NumParallel]
           /\ SlotsCounted'
<1>0. producer[c].runner \in Runners
  BY DEF TypeOK, Producer
<1>1. producer'[c] = [Silent EXCEPT !.pc = pc, !.runner = producer[c].runner]
  BY DEF TypeOK, Release
<1>2. producer'[c] = [pc |-> pc, runner |-> producer[c].runner, read |-> 0, msg |-> Error]
  BY <1>1 DEF Silent
<1>a. 0 \in 0..MaxChunks /\ pc \in Steps /\ Error \in Messages
  BY BoundsAssumption DEF Steps, Messages
<1>b. producer'[c] \in Producer /\ producer'[c].pc = pc
  BY <1>0, <1>2, <1>a DEF Producer
<1>3. producer' \in [Chats -> Producer] /\ \A d \in Chats \ {c} : producer'[d] = producer[d]
  BY <1>b DEF TypeOK, Release
<1>4. ~HoldsSlot(c)'
  BY <1>b DEF HoldsSlot
<1>5. QED
  BY <1>3, <1>4, SlotReturned DEF Release

\* A return with an error, with its deferred release, keeps types and count.
LEMMA ReturnErrorTypes ==
    ASSUME TypeOK, SlotsCounted, NEW c \in Chats, ReturnError(c), HoldsSlot(c)
    PROVE  TypeOK' /\ SlotsCounted'
<1>1. /\ producer' \in [Chats -> Producer]
      /\ sem' \in [Runners -> 0..NumParallel]
      /\ SlotsCounted'
  BY ReleaseTypes DEF ReturnError
<1>2. body' \in [Chats -> Body]
  BY NoBodyType DEF ReturnError, TypeOK
<1>3. QED
  BY <1>1, <1>2 DEF ReturnError, TypeOK, handlerVars, processVars

\* Answers that are broken off are answers.
LEMMA TornTypes ==
    ASSUME TypeOK, NEW g \in Runners
    PROVE  Torn(g) \in [Chats -> Body]
<1>0. 0 \in 0..MaxChunks
  BY BoundsAssumption
<1>1. \A d \in Chats : body[d] \in Body /\ [body[d] EXCEPT !.end = "torn"] \in Body
  BY <1>0, BodyRecord, Zenon DEF TypeOK
<1>2. QED
  BY <1>1 DEF Torn

\* The end of a process, its reaping and a reload keep types and count.
LEMMA ProcessTypes ==
    ASSUME TypeOK, SlotsCounted,
           (\E g \in Runners : Crash(g) \/ Reap(g)) \/ Reload
    PROVE  TypeOK' /\ SlotsCounted'
<1>1. UNCHANGED <<producer, sem, handler, mode, client, out>>
  BY DEF Crash, Reap, Reload, producerVars, handlerVars
<1>2. SlotsCounted'
  BY <1>1, SlotsKept DEF HoldsSlot
<1>3. ASSUME NEW g \in Runners, Crash(g) \/ Reap(g) PROVE TypeOK'
  BY <1>1, <1>3, TornTypes DEF Crash, Exit, Reap, TypeOK
<1>4. CASE Reload
  <2>1. gen \in Runners /\ gen + 1 \in Runners
    BY <1>4, BoundsAssumption DEF Reload, TypeOK, Runners
  <2>2. proc' \in [Runners -> {"none", "running", "exited", "done"}] /\ body' \in [Chats -> Body]
    BY <1>4, <2>1, TornTypes DEF Reload, TypeOK
  <2>3. gen' \in Runners
    BY <1>4, <2>1 DEF Reload
  <2>4. QED
    BY <1>1, <1>2, <2>2, <2>3 DEF TypeOK
<1>5. QED
  BY <1>2, <1>3, <1>4

\* So do the steps of llama-server,
LEMMA AnsweringTypes ==
    ASSUME TypeOK, SlotsCounted, NEW c \in Chats, Answering(c)
    PROVE  TypeOK' /\ SlotsCounted'
<1>1. UNCHANGED <<producer, sem, handler, mode, client, out, proc, gen>>
  BY DEF Answering, SendChunk, SendFinal, EndBody, Hang, producerVars, handlerVars, processVars
<1>2. SlotsCounted'
  BY <1>1, SlotsKept DEF HoldsSlot
<1>3. body' \in [Chats -> Body]
  <2>0. body[c] \in Body /\ body[c].sent \in 0..MaxChunks
    BY DEF TypeOK, Body
  <2>1. CASE SendChunk(c)
    <3>1. body[c].sent + 1 \in 0..MaxChunks
      BY <2>0, <2>1, BoundsAssumption DEF SendChunk
    <3>2. body' = [body EXCEPT ![c] = [body[c] EXCEPT !.sent = body[c].sent + 1]]
      BY <2>1 DEF SendChunk
    <3>3. [body[c] EXCEPT !.sent = body[c].sent + 1] \in Body
      BY <2>0, <3>1, BodyRecord
    <3>4. QED
      BY <3>2, <3>3 DEF TypeOK
  <2>2. CASE SendFinal(c)
    <3>1. [body[c] EXCEPT !.final = TRUE] \in Body
      BY <2>0, BodyRecord
    <3>2. QED
      BY <2>2, <3>1 DEF SendFinal, TypeOK
  <2>3. CASE EndBody(c) \/ Hang(c)
    <3>1. [body[c] EXCEPT !.end = "eof"] \in Body /\ [body[c] EXCEPT !.end = "hung"] \in Body
      BY <2>0, BodyRecord
    <3>2. QED
      BY <2>3, <3>1 DEF EndBody, Hang, TypeOK
  <2>4. QED
    BY <2>1, <2>2, <2>3 DEF Answering
<1>4. QED
  BY <1>1, <1>2, <1>3 DEF TypeOK

\* the producer before it has an answer.
LEMMA ConnectTypes ==
    ASSUME TypeOK, SlotsCounted, NEW c \in Chats, Acquire(c) \/ Connecting(c)
    PROVE  TypeOK' /\ SlotsCounted'
<1>1. CASE Acquire(c)
  <2> DEFINE g == producer[c].runner
  <2>1. /\ producer' \in [Chats -> Producer]
        /\ \A d \in Chats \ {c} : producer'[d] = producer[d]
        /\ producer'[c].pc = "connect" /\ producer'[c].runner = g
    BY <1>1, Goes DEF Acquire, Steps
  <2>2. g \in Runners /\ sem[g] \in 0..NumParallel /\ sem[g] < NumParallel
    BY <1>1 DEF Acquire, TypeOK, Producer
  <2>3. sem' = [sem EXCEPT ![g] = @ + 1] /\ ~HoldsSlot(c) /\ HoldsSlot(c)'
    BY <1>1, <2>1 DEF Acquire, HoldsSlot, At
  <2>4. sem' \in [Runners -> 0..NumParallel]
    BY <2>2, <2>3, SlotsAssumption DEF TypeOK
  <2>5. SlotsCounted'
    BY <2>1, <2>3, SlotTaken
  <2>6. QED
    BY <1>1, <2>1, <2>4, <2>5 DEF Acquire, TypeOK, handlerVars, processVars
<1>2. CASE AcquireCancelled(c)
  <2>1. HoldsSlot(c)' <=> HoldsSlot(c)
    BY <1>2, Goes DEF AcquireCancelled, At, Steps, HoldsSlot
  <2>2. producer' \in [Chats -> Producer] /\ SlotsCounted'
    BY <1>2, <2>1, GotoTypes DEF AcquireCancelled, Steps
  <2>3. QED
    BY <1>2, <2>2 DEF AcquireCancelled, TypeOK, handlerVars, processVars
<1>3. CASE Connect(c)
  <2>1. HoldsSlot(c)' <=> HoldsSlot(c)
    BY <1>3, Goes DEF Connect, At, Steps, HoldsSlot
  <2>2. producer' \in [Chats -> Producer] /\ SlotsCounted'
    BY <1>3, <2>1, GotoTypes DEF Connect, Steps
  <2>3. body' \in [Chats -> Body]
    BY <1>3, NoBodyType DEF Connect, TypeOK
  <2>4. QED
    BY <1>3, <2>2, <2>3 DEF Connect, TypeOK, handlerVars, processVars
<1>4. CASE ConnectFails(c)
  BY <1>4, ReturnErrorTypes DEF ConnectFails, At, HoldsSlot
<1>5. QED
  BY <1>1, <1>2, <1>3, <1>4 DEF Connecting

\* The producer after fn(resp) and after fn(finalResp).
LEMMA ChunkScanned ==
    ASSUME TypeOK, NEW c \in Chats, ScanChunk(c)
    PROVE  /\ producer' \in [Chats -> Producer]
           /\ producer'[c].pc = "send" /\ producer'[c].read = producer[c].read + 1
           /\ producer'[c].runner = producer[c].runner /\ producer'[c].msg = producer[c].read + 1
           /\ \A d \in Chats \ {c} : producer'[d] = producer[d]
<1>1. /\ producer[c] \in Producer /\ DOMAIN producer = Chats
      /\ producer[c].read \in 0..MaxChunks /\ body[c].sent \in 0..MaxChunks
      /\ producer[c].read < body[c].sent
  BY DEF ScanChunk, TypeOK, Producer, Body
<1>2. PICK k \in 0..MaxChunks : k = producer[c].read + 1 /\ k \in Messages
  BY <1>1, BoundsAssumption DEF Messages, Chunks
<1>3. producer' = [producer EXCEPT ![c] = [producer[c] EXCEPT !.pc = "send", !.read = k, !.msg = k]]
  BY <1>1, <1>2 DEF ScanChunk
<1>4. [producer[c] EXCEPT !.pc = "send", !.read = k, !.msg = k] \in Producer
  BY <1>1, <1>2, ProducerRecord DEF Steps
<1>5. /\ producer' \in [Chats -> Producer]
      /\ producer'[c] = [producer[c] EXCEPT !.pc = "send", !.read = k, !.msg = k]
      /\ \A d \in Chats \ {c} : producer'[d] = producer[d]
  BY <1>1, <1>3, <1>4 DEF TypeOK
<1>6. QED
  BY <1>1, <1>2, <1>5 DEF Producer

\* The rest of the answer has been read: the final response comes next.
LEMMA Drained ==
    ASSUME TypeOK, NEW c \in Chats, Drain(c)
    PROVE  /\ producer' \in [Chats -> Producer]
           /\ producer'[c].pc = "send" /\ producer'[c].msg = Done
           /\ producer'[c].runner = producer[c].runner /\ producer'[c].read = producer[c].read
           /\ \A d \in Chats \ {c} : producer'[d] = producer[d]
<1>1. producer[c] \in Producer /\ DOMAIN producer = Chats
  BY DEF TypeOK
<1>2. producer' = [producer EXCEPT ![c] = [producer[c] EXCEPT !.pc = "send", !.msg = Done]]
  BY <1>1 DEF Drain
<1>3. [producer[c] EXCEPT !.pc = "send", !.msg = Done] \in Producer
  <2>1. "send" \in Steps /\ Done \in Messages /\ 0 \in 0..MaxChunks
    BY BoundsAssumption DEF Steps, Messages
  <2>2. QED
    BY <1>1, <2>1, ProducerRecord, Zenon
<1>4. /\ producer' \in [Chats -> Producer]
      /\ producer'[c] = [producer[c] EXCEPT !.pc = "send", !.msg = Done]
      /\ \A d \in Chats \ {c} : producer'[d] = producer[d]
  BY <1>1, <1>2, <1>3 DEF TypeOK
<1>5. QED
  BY <1>1, <1>4 DEF Producer

\* The producer that reads the answer keeps types and count,
LEMMA ScanTypes ==
    ASSUME TypeOK, SlotsCounted, NEW c \in Chats, Scanning(c)
    PROVE  TypeOK' /\ SlotsCounted'
<1>1. CASE ScanChunk(c)
  <2>2. producer' \in [Chats -> Producer]
    BY <1>1, ChunkScanned
  <2>3. \A d \in Chats : producer'[d].runner = producer[d].runner /\ (HoldsSlot(d)' <=> HoldsSlot(d))
    BY <1>1, ChunkScanned DEF ScanChunk, At, HoldsSlot
  <2>4. SlotsCounted'
    BY <1>1, <2>3, SlotsKept DEF ScanChunk
  <2>5. QED
    BY <1>1, <2>2, <2>4 DEF ScanChunk, TypeOK, handlerVars, processVars
<1>2. CASE ScanError(c) \/ ScanCancelled(c) \/ (ScanTorn(c) /\ ReturnError(c))
  BY <1>2, ReturnErrorTypes DEF ScanError, ScanCancelled, ScanTorn, At, HoldsSlot
<1>3. CASE ScanFinal(c)
  <2>1. HoldsSlot(c)' <=> HoldsSlot(c)
    BY <1>3, Goes DEF ScanFinal, At, Steps, HoldsSlot
  <2>2. producer' \in [Chats -> Producer] /\ SlotsCounted'
    BY <1>3, <2>1, GotoTypes DEF ScanFinal, Steps
  <2>3. QED
    BY <1>3, <2>2 DEF ScanFinal, TypeOK, handlerVars, processVars
<1>4. CASE ScanEOF(c)
  <2>1. /\ producer' \in [Chats -> Producer]
        /\ sem' \in [Runners -> 0..NumParallel]
        /\ SlotsCounted'
    BY <1>4, ReleaseTypes DEF ScanEOF, At, HoldsSlot
  <2>2. QED
    BY <1>4, <2>1 DEF ScanEOF, TypeOK, handlerVars, processVars
<1>5. CASE ScanTorn(c) /\ Goto(c, "closing") /\ UNCHANGED <<sem, body, handlerVars, processVars>>
  <2>1. HoldsSlot(c)' <=> HoldsSlot(c)
    BY <1>5, Goes DEF ScanTorn, At, Steps, HoldsSlot
  <2>2. producer' \in [Chats -> Producer] /\ SlotsCounted'
    BY <1>5, <2>1, GotoTypes DEF Steps
  <2>3. QED
    BY <1>5, <2>2 DEF TypeOK, handlerVars, processVars
<1>6. QED
  BY <1>1, <1>2, <1>3, <1>4, <1>5 DEF Scanning, ScanTorn

\* the end of the producer,
LEMMA EndTypes ==
    ASSUME TypeOK, SlotsCounted, NEW c \in Chats, Ending(c)
    PROVE  TypeOK' /\ SlotsCounted'
<1>1. CASE StopProcess(c) /\ ReturnError(c)
  BY <1>1, ReturnErrorTypes DEF StopProcess, At, HoldsSlot
<1>2. CASE StopProcess(c) /\ ~ReturnError(c)
  <2>1. PICK g \in Runners : g = producer[c].runner
    BY DEF TypeOK, Producer
  <2>2. /\ At(c, "closing") /\ Goto(c, "waiting")
        /\ proc' = [proc EXCEPT ![g] = "exited"] /\ body' = Torn(g)
        /\ UNCHANGED <<sem, handler, mode, client, out, gen>>
    BY <1>2, <2>1 DEF StopProcess, Exit, handlerVars
  <2>3. HoldsSlot(c)' <=> HoldsSlot(c)
    BY <2>2, Goes DEF At, Steps, HoldsSlot
  <2>4. producer' \in [Chats -> Producer] /\ SlotsCounted'
    BY <2>2, <2>3, GotoTypes DEF Steps
  <2>5. QED
    BY <2>2, <2>4, TornTypes DEF TypeOK
<1>3. CASE Stopped(c) \/ DrainFails(c)
  BY <1>3, ReturnErrorTypes DEF Stopped, DrainFails, At, HoldsSlot
<1>4. CASE Drain(c)
  <2>1. producer' \in [Chats -> Producer]
    BY <1>4, Drained
  <2>2. \A d \in Chats : producer'[d].runner = producer[d].runner /\ (HoldsSlot(d)' <=> HoldsSlot(d))
    BY <1>4, Drained DEF Drain, At, HoldsSlot
  <2>3. SlotsCounted'
    BY <1>4, <2>2, SlotsKept DEF Drain
  <2>4. QED
    BY <1>4, <2>1, <2>3 DEF Drain, TypeOK, handlerVars, processVars
<1>5. CASE ReturnNil(c)
  <2>1. /\ producer' \in [Chats -> Producer]
        /\ sem' \in [Runners -> 0..NumParallel]
        /\ SlotsCounted'
    BY <1>5, ReleaseTypes DEF ReturnNil, At, HoldsSlot
  <2>2. QED
    BY <1>5, <2>1 DEF ReturnNil, TypeOK, handlerVars, processVars
<1>6. CASE CloseChannel(c)
  <2>1. HoldsSlot(c)' <=> HoldsSlot(c)
    BY <1>6, Goes DEF CloseChannel, At, Steps, HoldsSlot
  <2>2. producer' \in [Chats -> Producer] /\ SlotsCounted'
    BY <1>6, <2>1, GotoTypes DEF CloseChannel, Steps
  <2>3. QED
    BY <1>6, <2>2 DEF CloseChannel, TypeOK, handlerVars, processVars
<1>7. QED
  BY <1>1, <1>2, <1>3, <1>4, <1>5, <1>6 DEF Ending

\* the handler,
LEMMA HandlingTypes ==
    ASSUME TypeOK, SlotsCounted, NEW c \in Chats, Handling(c)
    PROVE  TypeOK' /\ SlotsCounted'
<1>1. CASE CheckClient(c) \/ ChannelClosed(c)
  <2>1. UNCHANGED <<producer, sem, body, mode, client, out, proc, gen>>
    BY <1>1 DEF CheckClient, ChannelClosed, producerVars, processVars
  <2>2. handler' \in [Chats -> {"idle", "check", "receive", "returned"}]
    BY <1>1 DEF CheckClient, ChannelClosed, TypeOK
  <2>3. SlotsCounted'
    BY <2>1, SlotsKept DEF HoldsSlot
  <2>4. QED
    BY <2>1, <2>2, <2>3 DEF TypeOK
<1>2. CASE Deliver(c)
  <2>1. PICK pc \in {"return", "scan"} : Goto(c, pc)
    BY <1>2 DEF Deliver
  <2>2. HoldsSlot(c)' <=> HoldsSlot(c)
    BY <1>2, <2>1, Goes DEF Deliver, At, Steps, HoldsSlot
  <2>3. producer' \in [Chats -> Producer] /\ SlotsCounted'
    BY <1>2, <2>1, <2>2, GotoTypes DEF Deliver, Steps
  <2>4. out' \in [Chats -> Seq(Messages)]
    <3>1. producer[c].msg \in Messages /\ out[c] \in Seq(Messages)
      BY DEF TypeOK, Producer
    <3>2. Append(out[c], producer[c].msg) \in Seq(Messages)
      BY <3>1
    <3>3. QED
      BY <1>2, <3>2 DEF Deliver, TypeOK
  <2>5. handler' \in [Chats -> {"idle", "check", "receive", "returned"}]
    BY <1>2 DEF Deliver, TypeOK
  <2>6. QED
    BY <1>2, <2>3, <2>4, <2>5 DEF Deliver, TypeOK, processVars
<1>3. CASE DeliverError(c)
  <2>1. HoldsSlot(c)' <=> HoldsSlot(c)
    BY <1>3, Goes DEF DeliverError, At, Steps, HoldsSlot
  <2>2. producer' \in [Chats -> Producer] /\ SlotsCounted'
    BY <1>3, <2>1, GotoTypes DEF DeliverError, Steps
  <2>3. out' \in [Chats -> Seq(Messages)]
    <3>1. Append(out[c], Error) \in Seq(Messages)
      BY DEF TypeOK, Messages
    <3>2. QED
      BY <1>3, <3>1 DEF DeliverError, TypeOK
  <2>4. handler' \in [Chats -> {"idle", "check", "receive", "returned"}]
    BY <1>3 DEF DeliverError, TypeOK
  <2>5. QED
    BY <1>3, <2>2, <2>3, <2>4 DEF DeliverError, TypeOK, processVars
<1>4. QED
  BY <1>1, <1>2, <1>3 DEF Handling

\* the client that leaves,
LEMMA LeaveTypes ==
    ASSUME TypeOK, SlotsCounted, NEW c \in Chats, Leave(c)
    PROVE  TypeOK' /\ SlotsCounted'
<1>1. UNCHANGED <<producer, sem, body, handler, mode, out, proc, gen>>
  BY DEF Leave, producerVars, processVars
<1>2. client' \in [Chats -> {"none", "here", "gone"}]
  BY DEF Leave, TypeOK
<1>3. SlotsCounted'
  BY <1>1, SlotsKept DEF HoldsSlot
<1>4. QED
  BY <1>1, <1>2, <1>3 DEF TypeOK

\* The producer of a chat that starts.
LEMMA Started ==
    ASSUME TypeOK, NEW c \in Chats, NEW m \in {"stream", "collect"}, StartChat(c, m)
    PROVE  /\ producer' \in [Chats -> Producer]
           /\ producer'[c].pc = "acquire" /\ producer'[c].read = 0
           /\ \A d \in Chats \ {c} : producer'[d] = producer[d]
<1>1. producer'[c] = [Silent EXCEPT !.pc = "acquire", !.runner = gen]
  BY DEF StartChat, TypeOK
<1>2. /\ "acquire" \in Steps /\ gen \in Runners /\ 0 \in 0..MaxChunks /\ Error \in Messages
  BY BoundsAssumption DEF TypeOK, Steps, Messages
<1>3. producer'[c] = [pc |-> "acquire", runner |-> gen, read |-> 0, msg |-> Error]
  BY <1>1 DEF Silent
<1>4. producer'[c] \in Producer
  BY <1>2, <1>3 DEF Producer
<1>5. QED
  BY <1>3, <1>4 DEF StartChat, TypeOK

\* and the start of a chat.
LEMMA StartTypes ==
    ASSUME TypeOK, SlotsCounted, NEW c \in Chats, NEW m \in {"stream", "collect"},
           StartChat(c, m), At(c, "idle")
    PROVE  TypeOK' /\ SlotsCounted'
<1>1. /\ mode' \in [Chats -> {"stream", "collect"}]
      /\ client' \in [Chats -> {"none", "here", "gone"}]
      /\ handler' \in [Chats -> {"idle", "check", "receive", "returned"}]
  BY DEF StartChat, TypeOK
<1>2. ~HoldsSlot(c) /\ ~HoldsSlot(c)'
  BY Started DEF At, HoldsSlot
<1>3. \A d \in Chats : /\ HoldsSlot(d)' <=> HoldsSlot(d)
                       /\ HoldsSlot(d) => producer'[d].runner = producer[d].runner
  BY <1>2, Started DEF HoldsSlot
<1>4. SlotsCounted'
  BY <1>3, SlotsKept DEF StartChat
<1>5. QED
  BY <1>1, <1>4, Started DEF StartChat, TypeOK, processVars

-----------------------------------------------------------------------------
(***************************************************************************)
(* What a chat has been sent                                               *)
(***************************************************************************)

\* AnswerInOrder and EndIsTold for one chat.
InOrder(c) ==
    /\ \A i \in 1..Len(out[c]) :
          out[c][i] = i \/ (i = Len(out[c]) /\ out[c][i] \in {Done, Error})
    /\ Len(out[c]) > 0 /\ out[c][Len(out[c])] = Done =>
          Len(out[c]) = body[c].sent + 1 /\ body[c].final /\ body[c].end = "eof"
Told(c) ==
    handler[c] = "returned" /\ client[c] = "here" =>
        \/ out[c] # <<>> /\ out[c][Len(out[c])] \in {Done, Error}
        \/ body[c].end = "eof" /\ ~body[c].final /\ Len(out[c]) = body[c].sent

PerChat(c) == AnswerSoFar(c) /\ HandlerSoFar(c) /\ InOrder(c) /\ Told(c)

\* ChatInv is about the slots and about each chat by itself.
LEMMA ChatInvPerChat == ChatInv <=> SlotsCounted /\ \A c \in Chats : PerChat(c)
BY DEF ChatInv, PerChat, InOrder, Told, AnswerInOrder, EndIsTold

\* The same in the next state.
LEMMA ChatInvPerChatPrime == ChatInv' <=> SlotsCounted' /\ \A c \in Chats : PerChat(c)'
BY DEF ChatInv, PerChat, InOrder, Told, AnswerInOrder, EndIsTold

\* The chats a step is not about.
LEMMA OthersKept ==
    ASSUME NEW d \in Chats, PerChat(d), producer'[d] = producer[d], body'[d] = body[d],
           handler'[d] = handler[d], mode'[d] = mode[d], client'[d] = client[d], out'[d] = out[d]
    PROVE  PerChat(d)'
BY DEF PerChat, AnswerSoFar, HandlerSoFar, InOrder, Told, OnlyChunks, Complete, Cut, At

\* llama-server adds to an answer it has not ended, or breaks it off.
LEMMA AnswerGoesOn ==
    ASSUME NEW d \in Chats, PerChat(d), producer'[d] = producer[d],
           handler'[d] = handler[d], mode'[d] = mode[d], client'[d] = client[d], out'[d] = out[d],
           body[d].end # "eof",
           \/ body'[d].sent = body[d].sent /\ body'[d].final = body[d].final
           \/ ~body[d].final
    PROVE  PerChat(d)'
<1>1. AnswerSoFar(d)'
  BY DEF PerChat, AnswerSoFar, OnlyChunks, Complete, Cut
<1>2. HandlerSoFar(d)'
  BY DEF PerChat, HandlerSoFar, At
<1>3. InOrder(d)' /\ Told(d)'
  BY DEF PerChat, InOrder, Told
<1>4. QED
  BY <1>1, <1>2, <1>3 DEF PerChat

\* A chat stays sound when its answer is broken off.
LEMMA TornKept ==
    ASSUME TypeOK, NEW d \in Chats, NEW g \in Runners, PerChat(d), producer'[d] = producer[d],
           handler'[d] = handler[d], mode'[d] = mode[d], client'[d] = client[d], out'[d] = out[d],
           body' = Torn(g)
    PROVE  PerChat(d)'
<1>1. CASE body'[d] = body[d]
  BY <1>1, OthersKept
<1>2. CASE body'[d] # body[d]
  <2>1. body[d].end \in {"open", "hung"} /\ body'[d] = [body[d] EXCEPT !.end = "torn"]
    BY <1>2 DEF Torn
  <2>2. body[d] \in Body
    BY DEF TypeOK
  <2>3. body'[d].sent = body[d].sent /\ body'[d].final = body[d].final
    BY <2>1, <2>2 DEF Body
  <2>4. QED
    BY <2>1, <2>3, AnswerGoesOn
<1>3. QED
  BY <1>1, <1>2

\* The steps of llama-server keep the chats sound.
LEMMA AnsweringKept ==
    ASSUME TypeOK, NEW c \in Chats, Answering(c), \A d \in Chats : PerChat(d)
    PROVE  \A d \in Chats : PerChat(d)'
<1>1. UNCHANGED <<producer, handler, mode, client, out>>
  BY DEF Answering, SendChunk, SendFinal, EndBody, Hang, producerVars, handlerVars
<1>2. \A d \in Chats \ {c} : body'[d] = body[d]
  BY DEF Answering, SendChunk, SendFinal, EndBody, Hang, TypeOK
<1>3. PerChat(c)'
  <2>1. body[c].end = "open" /\ body[c] \in Body
    BY DEF Answering, SendChunk, SendFinal, EndBody, Hang, TypeOK
  <2>2. CASE SendChunk(c) \/ SendFinal(c)
    BY <1>1, <2>1, <2>2, AnswerGoesOn DEF SendChunk, SendFinal
  <2>3. CASE EndBody(c) \/ Hang(c)
    <3>1. \E e \in {"eof", "hung"} : body' = [body EXCEPT ![c] = [body[c] EXCEPT !.end = e]]
      BY <2>3 DEF EndBody, Hang
    <3>2. \E e \in {"eof", "hung"} : body'[c] = [body[c] EXCEPT !.end = e]
      BY <3>1 DEF TypeOK
    <3>3. body'[c].sent = body[c].sent /\ body'[c].final = body[c].final
      BY <2>1, <3>2 DEF Body
    <3>4. QED
      BY <1>1, <2>1, <3>3, AnswerGoesOn
  <2>4. QED
    BY <2>2, <2>3 DEF Answering
<1>4. QED
  BY <1>1, <1>2, <1>3, OthersKept

\* So do the end of a process, its reaping and a reload.
LEMMA ProcessKept ==
    ASSUME TypeOK, (\E g \in Runners : Crash(g) \/ Reap(g)) \/ Reload,
           \A d \in Chats : PerChat(d)
    PROVE  \A d \in Chats : PerChat(d)'
<1>1. UNCHANGED <<producer, handler, mode, client, out>>
  BY DEF Crash, Reap, Reload, producerVars, handlerVars
<1>2. UNCHANGED body \/ \E g \in Runners : body' = Torn(g)
  BY DEF Crash, Exit, Reap, Reload, TypeOK
<1>3. QED
  BY <1>1, <1>2, OthersKept, TornKept

\* The producer of c moves on, and nobody else.
LEMMA ProducerMoves ==
    ASSUME NEW c \in Chats, PerChat(c), ~At(c, "idle"), producer'[c].pc # "idle",
           producer[c].pc \notin {"close", "end"},
           handler'[c] = handler[c], mode'[c] = mode[c], client'[c] = client[c], out'[c] = out[c],
           body'[c] = body[c], AnswerSoFar(c)'
    PROVE  PerChat(c)'
<1>1. HandlerSoFar(c)'
  BY DEF PerChat, HandlerSoFar, At
<1>2. InOrder(c)' /\ Told(c)'
  BY DEF PerChat, InOrder, Told
<1>3. QED
  BY <1>1, <1>2 DEF PerChat

\* Chat returns an error before it has passed on the final response.
LEMMA ErrorKept ==
    ASSUME TypeOK, NEW c \in Chats, ReturnError(c), PerChat(c),
           producer[c].pc \in {"connect", "scan", "drain", "closing", "waiting"}
    PROVE  PerChat(c)'
<1>1. /\ producer'[c].pc = "sendError" /\ body'[c] = NoBody
      /\ handler'[c] = handler[c] /\ mode'[c] = mode[c]
      /\ client'[c] = client[c] /\ out'[c] = out[c]
  BY DEF ReturnError, Release, Silent, TypeOK, handlerVars
<1>2. OnlyChunks(c, Len(out[c])) /\ Len(out[c]) \in Nat
  BY DEF PerChat, AnswerSoFar, OnlyChunks, TypeOK
<1>3. AnswerSoFar(c)'
  BY <1>1, <1>2 DEF AnswerSoFar, OnlyChunks
<1>4. HandlerSoFar(c)'
  BY <1>1 DEF PerChat, HandlerSoFar, At
<1>5. InOrder(c)'
  <2>1. Len(out[c]) > 0 => out[c][Len(out[c])] # Done
    BY <1>2, MessagesAssumption DEF OnlyChunks
  <2>2. QED
    BY <1>1, <2>1 DEF PerChat, InOrder
<1>6. Told(c)'
  BY <1>1 DEF PerChat, HandlerSoFar, Told
<1>7. QED
  BY <1>3, <1>4, <1>5, <1>6 DEF PerChat

\* A step leaves the chats other than c alone.
OnlyChanges(c) ==
    \A d \in Chats \ {c} :
        /\ producer'[d] = producer[d] /\ body'[d] = body[d] /\ handler'[d] = handler[d]
        /\ mode'[d] = mode[d] /\ client'[d] = client[d] /\ out'[d] = out[d]

\* A step of one chat leaves the others alone.
LEMMA OneChat ==
    ASSUME NEW c \in Chats, OnlyChanges(c), PerChat(c)', \A d \in Chats : PerChat(d)
    PROVE  \A d \in Chats : PerChat(d)'
BY OthersKept DEF OnlyChanges

\* An error is such a step.
LEMMA ErrorOnly ==
    ASSUME TypeOK, NEW c \in Chats, ReturnError(c)
    PROVE  OnlyChanges(c)
BY DEF ReturnError, Release, TypeOK, handlerVars, OnlyChanges

\* The producer before it has an answer.
LEMMA ConnectKept ==
    ASSUME TypeOK, NEW c \in Chats, Acquire(c) \/ Connecting(c), \A d \in Chats : PerChat(d)
    PROVE  \A d \in Chats : PerChat(d)'
<1>1. CASE Acquire(c) \/ AcquireCancelled(c)
  <2>1. PICK pc \in {"connect", "sendError"} : Goto(c, pc)
    BY <1>1 DEF Acquire, AcquireCancelled
  <2>2. At(c, "acquire") /\ UNCHANGED <<body, handler, mode, client, out>>
    BY <1>1 DEF Acquire, AcquireCancelled, handlerVars
  <2>3. OnlyChanges(c) /\ producer'[c].pc = pc /\ producer'[c].read = producer[c].read
    BY <2>1, <2>2, Goes DEF OnlyChanges, Steps
  <2>4. OnlyChunks(c, 0) /\ producer[c].read = 0
    BY <2>2 DEF PerChat, AnswerSoFar, At
  <2>5. AnswerSoFar(c)'
    BY <2>2, <2>3, <2>4 DEF AnswerSoFar, OnlyChunks
  <2>6. PerChat(c)'
    BY <2>2, <2>3, <2>5, ProducerMoves DEF At
  <2>7. QED
    BY <2>3, <2>6, OneChat
<1>2. CASE Connect(c)
  <2>1. /\ At(c, "connect") /\ Goto(c, "scan") /\ UNCHANGED <<handler, mode, client, out>>
        /\ body' = [body EXCEPT ![c] = [NoBody EXCEPT !.end = "open"]]
    BY <1>2 DEF Connect, handlerVars
  <2>2. OnlyChanges(c) /\ producer'[c].pc = "scan" /\ producer'[c].read = producer[c].read
    BY <2>1, Goes DEF OnlyChanges, Steps, TypeOK
  <2>3. OnlyChunks(c, 0) /\ producer[c].read = 0
    BY <2>1 DEF PerChat, AnswerSoFar, At
  <2>4. AnswerSoFar(c)'
    BY <2>1, <2>2, <2>3 DEF AnswerSoFar, OnlyChunks
  <2>5. HandlerSoFar(c)' /\ Told(c)'
    BY <2>1, <2>2 DEF PerChat, HandlerSoFar, Told, At
  <2>6. InOrder(c)'
    BY <2>1, <2>3 DEF InOrder, OnlyChunks
  <2>7. QED
    BY <2>2, <2>4, <2>5, <2>6, OneChat DEF PerChat
<1>3. CASE ConnectFails(c)
  BY <1>3, ErrorKept, ErrorOnly, OneChat DEF ConnectFails, At
<1>4. QED
  BY <1>1, <1>2, <1>3 DEF Connecting

\* The producer that reads: what it sends is the next chunk, or the end.
LEMMA ScanKept ==
    ASSUME TypeOK, NEW c \in Chats, Scanning(c), \A d \in Chats : PerChat(d)
    PROVE  \A d \in Chats : PerChat(d)'
<1>0. At(c, "scan") /\ OnlyChunks(c, producer[c].read) /\ producer[c].read \in Nat
  BY DEF Scanning, ScanChunk, ScanError, ScanCancelled, ScanFinal, ScanEOF, ScanTorn, At,
         PerChat, AnswerSoFar, TypeOK, Producer
<1>1. CASE ScanChunk(c)
  <2>1. UNCHANGED <<body, handler, mode, client, out>>
    BY <1>1 DEF ScanChunk, handlerVars
  <2>2. OnlyChanges(c)
    BY <1>1, <2>1, ChunkScanned DEF OnlyChanges
  <2>3. producer'[c].msg # Done
    BY <1>0, <1>1, ChunkScanned, MessagesAssumption
  <2>4. AnswerSoFar(c)'
    BY <1>0, <1>1, <2>1, <2>3, ChunkScanned DEF AnswerSoFar, OnlyChunks
  <2>5. PerChat(c)'
    BY <1>0, <1>1, <2>1, <2>4, ChunkScanned, ProducerMoves DEF At
  <2>6. QED
    BY <2>2, <2>5, OneChat
<1>2. CASE ScanError(c) \/ ScanCancelled(c) \/ (ScanTorn(c) /\ ReturnError(c))
  BY <1>0, <1>2, ErrorKept, ErrorOnly, OneChat DEF ScanError, ScanCancelled, At
<1>3. CASE ScanFinal(c) \/ (ScanTorn(c) /\ ~ReturnError(c))
  <2>1. PICK pc \in {"drain", "closing"} :
           Goto(c, pc) /\ (pc = "drain" => producer[c].read = body[c].sent /\ body[c].final)
    BY <1>3 DEF ScanFinal, ScanTorn
  <2>2. UNCHANGED <<body, handler, mode, client, out>>
    BY <1>3 DEF ScanFinal, ScanTorn, handlerVars
  <2>3. OnlyChanges(c) /\ producer'[c].pc = pc /\ producer'[c].read = producer[c].read
    BY <2>1, <2>2, Goes DEF OnlyChanges, Steps
  <2>4. AnswerSoFar(c)'
    BY <1>0, <2>1, <2>2, <2>3 DEF AnswerSoFar, OnlyChunks
  <2>5. PerChat(c)'
    BY <1>0, <2>2, <2>3, <2>4, ProducerMoves DEF At
  <2>6. QED
    BY <2>3, <2>5, OneChat
<1>4. CASE ScanEOF(c)
  <2>1. UNCHANGED <<body, handler, mode, client, out>> /\ Cut(c)
    BY <1>0, <1>4 DEF ScanEOF, handlerVars, Cut
  <2>2. producer'[c].pc = "close" /\ OnlyChanges(c)
    BY <1>4, <2>1 DEF ScanEOF, Release, Silent, TypeOK, OnlyChanges
  <2>3. AnswerSoFar(c)'
    BY <2>1, <2>2 DEF AnswerSoFar, Cut, OnlyChunks
  <2>4. PerChat(c)'
    BY <1>0, <2>1, <2>2, <2>3, ProducerMoves DEF At
  <2>5. QED
    BY <2>2, <2>4, OneChat
<1>5. QED
  BY <1>1, <1>2, <1>3, <1>4 DEF Scanning

\* The end of the producer.
LEMMA EndKept ==
    ASSUME TypeOK, NEW c \in Chats, Ending(c), \A d \in Chats : PerChat(d)
    PROVE  \A d \in Chats : PerChat(d)'
<1>1. CASE StopProcess(c) /\ ReturnError(c)
  BY <1>1, ErrorKept, ErrorOnly, OneChat DEF StopProcess, At
<1>2. CASE StopProcess(c) /\ ~ReturnError(c)
  <2>1. PICK g \in Runners : g = producer[c].runner
    BY DEF TypeOK, Producer
  <2>2. /\ At(c, "closing") /\ Goto(c, "waiting") /\ body' = Torn(g)
        /\ UNCHANGED <<handler, mode, client, out>>
    BY <1>2, <2>1 DEF StopProcess, Exit, handlerVars
  <2>3. /\ producer'[c].pc = "waiting" /\ producer'[c].read = producer[c].read
        /\ \A d \in Chats \ {c} : producer'[d] = producer[d]
    BY <2>2, Goes DEF Steps
  <2>4. \A d \in Chats \ {c} : PerChat(d)'
    BY <2>2, <2>3, TornKept
  <2>5. PerChat(c)'
    <3>1. OnlyChunks(c, producer[c].read) /\ producer[c].read \in Nat
      BY <2>2 DEF PerChat, AnswerSoFar, At, TypeOK, Producer
    <3>2. AnswerSoFar(c)'
      BY <2>2, <2>3, <3>1 DEF AnswerSoFar, OnlyChunks
    <3>3. HandlerSoFar(c)' /\ Told(c)'
      BY <2>2, <2>3 DEF PerChat, HandlerSoFar, Told, At
    <3>4. InOrder(c)'
      BY <2>2, <3>1, MessagesAssumption DEF InOrder, OnlyChunks
    <3>5. QED
      BY <3>2, <3>3, <3>4 DEF PerChat
  <2>6. QED
    BY <2>4, <2>5
<1>3. CASE Stopped(c) \/ DrainFails(c)
  BY <1>3, ErrorKept, ErrorOnly, OneChat DEF Stopped, DrainFails, At
<1>4. CASE Drain(c)
  <2>1. At(c, "drain") /\ body[c].end = "eof" /\ UNCHANGED <<body, handler, mode, client, out>>
    BY <1>4 DEF Drain, handlerVars
  <2>2. OnlyChanges(c)
    BY <1>4, <2>1, Drained DEF OnlyChanges
  <2>3. OnlyChunks(c, body[c].sent) /\ body[c].final
    BY <2>1 DEF PerChat, AnswerSoFar, At
  <2>4. AnswerSoFar(c)'
    BY <1>4, <2>1, <2>3, Drained DEF AnswerSoFar, OnlyChunks
  <2>5. PerChat(c)'
    BY <1>4, <2>1, <2>4, Drained, ProducerMoves DEF At
  <2>6. QED
    BY <2>2, <2>5, OneChat
<1>5. CASE ReturnNil(c)
  <2>1. At(c, "return") /\ UNCHANGED <<body, handler, mode, client, out>>
    BY <1>5 DEF ReturnNil, handlerVars
  <2>2. producer'[c].pc = "close" /\ OnlyChanges(c)
    BY <1>5, <2>1 DEF ReturnNil, Release, Silent, TypeOK, OnlyChanges
  <2>3. Complete(c)
    BY <2>1 DEF PerChat, AnswerSoFar, At
  <2>4. AnswerSoFar(c)'
    BY <2>1, <2>2, <2>3 DEF AnswerSoFar, Complete
  <2>5. PerChat(c)'
    BY <2>1, <2>2, <2>4, ProducerMoves DEF At
  <2>6. QED
    BY <2>2, <2>5, OneChat
<1>6. CASE CloseChannel(c)
  <2>1. At(c, "close") /\ Goto(c, "end") /\ UNCHANGED <<body, handler, mode, client, out>>
    BY <1>6 DEF CloseChannel, handlerVars
  <2>2. producer'[c].pc = "end" /\ OnlyChanges(c)
    BY <2>1, Goes DEF OnlyChanges, Steps
  <2>3. AnswerSoFar(c)'
    BY <2>1, <2>2 DEF PerChat, AnswerSoFar, Complete, Cut, OnlyChunks, At
  <2>4. HandlerSoFar(c)' /\ InOrder(c)' /\ Told(c)'
    BY <2>1, <2>2 DEF PerChat, HandlerSoFar, InOrder, Told, At
  <2>5. QED
    BY <2>2, <2>3, <2>4, OneChat DEF PerChat
<1>7. QED
  BY <1>1, <1>2, <1>3, <1>4, <1>5, <1>6 DEF Ending

\* What Append does to the answer of one chat.
LEMMA OutGrows ==
    ASSUME TypeOK, NEW c \in Chats, NEW m \in Messages, out' = [out EXCEPT ![c] = Append(@, m)]
    PROVE  /\ Len(out'[c]) = Len(out[c]) + 1 /\ Len(out[c]) \in Nat
           /\ out'[c] # <<>>
           /\ out'[c][Len(out[c]) + 1] = m
           /\ \A i \in 1..Len(out[c]) : out'[c][i] = out[c][i]
           /\ \A d \in Chats \ {c} : out'[d] = out[d]
<1>1. out[c] \in Seq(Messages) /\ out'[c] = Append(out[c], m)
  BY DEF TypeOK
<1>2. /\ Len(out'[c]) = Len(out[c]) + 1 /\ Len(out[c]) \in Nat
      /\ out'[c][Len(out[c]) + 1] = m
      /\ \A i \in 1..Len(out[c]) : out'[c][i] = out[c][i]
  BY <1>1
<1>3. out'[c] # <<>>
  BY <1>2
<1>4. \A d \in Chats \ {c} : out'[d] = out[d]
  BY DEF TypeOK
<1>5. QED
  BY <1>2, <1>3, <1>4

\* The handler: what it writes comes in the order in which it was read.
LEMMA HandlingKept ==
    ASSUME TypeOK, NEW c \in Chats, Handling(c), \A d \in Chats : PerChat(d)
    PROVE  \A d \in Chats : PerChat(d)'
<1>1. CASE CheckClient(c)
  <2>1. UNCHANGED <<producer, body, mode, client, out>> /\ handler[c] = "check"
    BY <1>1 DEF CheckClient, producerVars
  <2>2. /\ OnlyChanges(c)
        /\ handler'[c] = IF client[c] = "gone" THEN "returned" ELSE "receive"
    BY <1>1, <2>1 DEF CheckClient, OnlyChanges, TypeOK
  <2>3. AnswerSoFar(c)' /\ InOrder(c)'
    BY <2>1, <2>2 DEF PerChat, AnswerSoFar, InOrder, OnlyChunks, Complete, Cut
  <2>4. HandlerSoFar(c)' /\ Told(c)'
    BY <2>1, <2>2 DEF PerChat, HandlerSoFar, Told, At
  <2>5. QED
    BY <2>2, <2>3, <2>4, OneChat DEF PerChat
<1>2. CASE ChannelClosed(c)
  <2>1. UNCHANGED <<producer, body, mode, client, out>> /\ At(c, "end") /\ handler[c] = "receive"
    BY <1>2 DEF ChannelClosed, producerVars
  <2>2. OnlyChanges(c) /\ handler'[c] = "returned"
    BY <1>2, <2>1 DEF ChannelClosed, OnlyChanges, TypeOK
  <2>3. AnswerSoFar(c)' /\ InOrder(c)' /\ HandlerSoFar(c)'
    BY <2>1, <2>2 DEF PerChat, AnswerSoFar, InOrder, HandlerSoFar, At
  <2>4. Told(c)'
    <3>1. Complete(c) \/ Cut(c)
      BY <2>1 DEF PerChat, AnswerSoFar, At
    <3>2. CASE Complete(c)
      <4>1. Len(out[c]) > 0
        BY <3>2 DEF Complete, TypeOK, Body
      <4>2. out[c] # <<>>
        BY <4>1
      <4>3. QED
        BY <2>1, <3>2, <4>2 DEF Complete, Told
    <3>3. CASE Cut(c)
      BY <2>1, <3>3 DEF Cut, OnlyChunks, Told
    <3>4. QED
      BY <3>1, <3>2, <3>3
  <2>5. QED
    BY <2>2, <2>3, <2>4, OneChat DEF PerChat
<1>3. CASE DeliverError(c)
  <2>1. /\ At(c, "sendError") /\ handler[c] = "receive" /\ UNCHANGED <<body, mode, client>>
        /\ out' = [out EXCEPT ![c] = Append(@, Error)] /\ Goto(c, "close")
    BY <1>3 DEF DeliverError
  <2>2. Error \in Messages
    BY DEF Messages
  <2>3. OnlyChanges(c) /\ producer'[c].pc = "close" /\ handler'[c] = "returned"
    BY <1>3, <2>1, <2>2, Goes, OutGrows DEF DeliverError, OnlyChanges, Steps, TypeOK
  <2>4. AnswerSoFar(c)' /\ HandlerSoFar(c)'
    BY <2>1, <2>3 DEF AnswerSoFar, HandlerSoFar, At
  <2>5. OnlyChunks(c, Len(out[c]))
    BY <2>1 DEF PerChat, AnswerSoFar, At
  <2>6. /\ Len(out'[c]) = Len(out[c]) + 1 /\ Len(out[c]) \in Nat
        /\ out'[c] # <<>> /\ out'[c][Len(out[c]) + 1] = Error
        /\ \A i \in 1..Len(out[c]) : out'[c][i] = out[c][i]
    BY <2>1, <2>2, OutGrows
  <2>7. InOrder(c)'
    BY <2>5, <2>6, MessagesAssumption DEF InOrder, OnlyChunks
  <2>8. Told(c)'
    BY <2>6 DEF Told
  <2>9. QED
    BY <2>3, <2>4, <2>7, <2>8, OneChat DEF PerChat
<1>4. CASE Deliver(c)
  <2>1. /\ At(c, "send") /\ handler[c] = "receive" /\ UNCHANGED <<body, mode, client>>
        /\ out' = [out EXCEPT ![c] = Append(@, producer[c].msg)]
        /\ Goto(c, IF producer[c].msg = Done THEN "return" ELSE "scan")
    BY <1>4 DEF Deliver
  <2>2. producer[c].msg \in Messages
    BY DEF TypeOK, Producer
  <2>3. /\ handler'[c] \in {"check", "receive", "returned"}
        /\ handler'[c] = "check" => mode[c] = "stream"
        /\ handler'[c] = "returned" => mode[c] = "stream" /\ client[c] = "gone"
        /\ \A d \in Chats \ {c} : handler'[d] = handler[d]
    BY <1>4 DEF Deliver, TypeOK
  <2>4. /\ OnlyChanges(c) /\ producer'[c].read = producer[c].read
        /\ producer'[c].pc = IF producer[c].msg = Done THEN "return" ELSE "scan"
    BY <2>1, <2>2, <2>3, Goes, OutGrows DEF OnlyChanges, Steps
  <2>5. HandlerSoFar(c)'
    BY <2>1, <2>3, <2>4 DEF HandlerSoFar, At
  <2>6. Told(c)'
    BY <2>1, <2>3 DEF Told
  <2>a. /\ Len(out'[c]) = Len(out[c]) + 1 /\ Len(out[c]) \in Nat
        /\ out'[c][Len(out[c]) + 1] = producer[c].msg
        /\ \A i \in 1..Len(out[c]) : out'[c][i] = out[c][i]
    BY <2>1, <2>2, OutGrows
  <2>7. CASE producer[c].msg = Done
    <3>1. /\ Len(out[c]) = body[c].sent /\ \A i \in 1..Len(out[c]) : out[c][i] = i
          /\ body[c].final /\ body[c].end = "eof"
      BY <2>1, <2>7 DEF PerChat, AnswerSoFar, OnlyChunks, At
    <3>2. AnswerSoFar(c)'
      BY <2>1, <2>4, <2>7, <2>a, <3>1 DEF AnswerSoFar, Complete
    <3>3. InOrder(c)'
      BY <2>1, <2>7, <2>a, <3>1 DEF InOrder
    <3>4. QED
      BY <2>4, <2>5, <2>6, <3>2, <3>3, OneChat DEF PerChat
  <2>8. CASE producer[c].msg # Done
    <3>1. /\ producer[c].msg = producer[c].read /\ producer[c].read \in Nat
          /\ Len(out[c]) + 1 = producer[c].read /\ \A i \in 1..Len(out[c]) : out[c][i] = i
      BY <2>1, <2>8 DEF PerChat, AnswerSoFar, OnlyChunks, At, TypeOK, Producer
    <3>2. /\ Len(out'[c]) = producer[c].read
          /\ \A i \in 1..Len(out'[c]) : out'[c][i] = i
      BY <2>a, <3>1
    <3>3. AnswerSoFar(c)'
      BY <2>4, <2>8, <3>2 DEF AnswerSoFar, OnlyChunks
    <3>4. InOrder(c)'
      BY <3>1, <3>2, MessagesAssumption DEF InOrder
    <3>5. QED
      BY <2>4, <2>5, <2>6, <3>3, <3>4, OneChat DEF PerChat
  <2>9. QED
    BY <2>7, <2>8
<1>5. QED
  BY <1>1, <1>2, <1>3, <1>4 DEF Handling

\* The client leaves.
LEMMA LeaveKept ==
    ASSUME TypeOK, NEW c \in Chats, Leave(c), \A d \in Chats : PerChat(d)
    PROVE  \A d \in Chats : PerChat(d)'
<1>1. UNCHANGED <<producer, body, handler, mode, out>> /\ handler[c] # "returned"
  BY DEF Leave, producerVars
<1>2. OnlyChanges(c)
  BY <1>1 DEF Leave, OnlyChanges, TypeOK
<1>3. PerChat(c)'
  BY <1>1 DEF PerChat, AnswerSoFar, HandlerSoFar, InOrder, Told, OnlyChunks, Complete, Cut, At
<1>4. QED
  BY <1>2, <1>3, OneChat

\* A chat starts.
LEMMA StartKept ==
    ASSUME TypeOK, NEW c \in Chats, NEW m \in {"stream", "collect"}, StartChat(c, m),
           \A d \in Chats : PerChat(d)
    PROVE  \A d \in Chats : PerChat(d)'
<1>1. UNCHANGED <<body, out>> /\ handler[c] = "idle"
  BY DEF StartChat
<1>2. /\ OnlyChanges(c) /\ mode'[c] = m
      /\ handler'[c] = IF m = "stream" THEN "check" ELSE "receive"
  BY <1>1, Started DEF StartChat, OnlyChanges, TypeOK
<1>3. OnlyChunks(c, 0)
  BY <1>1 DEF PerChat, AnswerSoFar, HandlerSoFar, At
<1>4. AnswerSoFar(c)'
  BY <1>1, <1>3, Started DEF AnswerSoFar, OnlyChunks
<1>5. HandlerSoFar(c)'
  BY <1>2, Started DEF HandlerSoFar, At
<1>6. InOrder(c)' /\ Told(c)'
  BY <1>1, <1>2 DEF PerChat, InOrder, Told
<1>7. QED
  BY <1>2, <1>4, <1>5, <1>6, OneChat DEF PerChat

-----------------------------------------------------------------------------
(***************************************************************************)
(* The theorems                                                            *)
(***************************************************************************)

\* No chat has started at first.
LEMMA ChatInit == ASSUME Init PROVE TypeOK /\ ChatInv
<1>1. /\ NoBody \in Body /\ 0 \in 0..NumParallel /\ 1 \in Runners
  BY NoBodyType, SlotsAssumption, BoundsAssumption DEF Runners
<1>2. Silent \in Producer
  <2>1. "idle" \in Steps /\ Error \in Messages /\ 0 \in 0..MaxChunks
    BY BoundsAssumption DEF Steps, Messages
  <2>2. QED
    BY <1>1, <2>1 DEF Silent, Producer
<1>3. <<>> \in Seq(Messages)
  OBVIOUS
<1>4. TypeOK
  BY <1>1, <1>2, <1>3 DEF Init, TypeOK
<1>5. \A c \in Chats : PerChat(c)
  <2> SUFFICES ASSUME NEW c \in Chats PROVE PerChat(c)
    OBVIOUS
  <2>1. /\ producer[c].pc = "idle" /\ producer[c].read = 0 /\ out[c] = <<>>
        /\ handler[c] = "idle"
    BY DEF Init, Silent
  <2>2. QED
    BY <2>1 DEF PerChat, AnswerSoFar, HandlerSoFar, InOrder, Told, OnlyChunks, At
<1>6. SlotsCounted
  <2>1. \A g \in Runners : Holders(g) = {} /\ sem[g] = 0
    BY DEF Init, Silent, Holders, HoldsSlot
  <2>2. QED
    BY <2>1, FS_EmptySet DEF SlotsCounted, Holders
<1>7. QED
  BY <1>4, <1>5, <1>6, ChatInvPerChat

\* ChatInv is inductive, with the types.
LEMMA ChatNext == ASSUME TypeOK, ChatInv, [Next]_vars PROVE TypeOK' /\ ChatInv'
<1>0. SlotsCounted /\ \A c \in Chats : PerChat(c)
  BY ChatInvPerChat
<1>1. ASSUME NEW c \in Chats, NEW m \in {"stream", "collect"}, StartChat(c, m)
      PROVE  TypeOK' /\ ChatInv'
  <2>1. At(c, "idle")
    BY <1>0, <1>1 DEF StartChat, PerChat, HandlerSoFar
  <2>2. QED
    BY <1>0, <1>1, <2>1, StartTypes, StartKept, ChatInvPerChatPrime
<1>2. ASSUME NEW c \in Chats, Leave(c) PROVE TypeOK' /\ ChatInv'
  BY <1>0, <1>2, LeaveTypes, LeaveKept, ChatInvPerChatPrime
<1>3. ASSUME NEW c \in Chats, Acquire(c) \/ Connecting(c) PROVE TypeOK' /\ ChatInv'
  BY <1>0, <1>3, ConnectTypes, ConnectKept, ChatInvPerChatPrime
<1>4. ASSUME NEW c \in Chats, Scanning(c) PROVE TypeOK' /\ ChatInv'
  BY <1>0, <1>4, ScanTypes, ScanKept, ChatInvPerChatPrime
<1>5. ASSUME NEW c \in Chats, Ending(c) PROVE TypeOK' /\ ChatInv'
  BY <1>0, <1>5, EndTypes, EndKept, ChatInvPerChatPrime
<1>6. ASSUME NEW c \in Chats, Handling(c) PROVE TypeOK' /\ ChatInv'
  BY <1>0, <1>6, HandlingTypes, HandlingKept, ChatInvPerChatPrime
<1>7. ASSUME NEW c \in Chats, Answering(c) PROVE TypeOK' /\ ChatInv'
  BY <1>0, <1>7, AnsweringTypes, AnsweringKept, ChatInvPerChatPrime
<1>8. CASE (\E g \in Runners : Crash(g) \/ Reap(g)) \/ Reload
  BY <1>0, <1>8, ProcessTypes, ProcessKept, ChatInvPerChatPrime
<1>9. CASE UNCHANGED vars
  <2>1. TypeOK'
    BY <1>9 DEF TypeOK, vars
  <2>2. SlotsCounted'
    BY <1>0, <1>9, SlotsKept DEF vars, HoldsSlot
  <2>3. \A d \in Chats : PerChat(d)'
    BY <1>0, <1>9, OthersKept DEF vars
  <2>4. QED
    BY <2>1, <2>2, <2>3, ChatInvPerChatPrime
<1>10. QED
  BY <1>1, <1>2, <1>3, <1>4, <1>5, <1>6, <1>7, <1>8, <1>9 DEF Next

\* The types, and with them the semaphore of every runner stays within its
\* slots: Chat never releases what it has not acquired.
THEOREM ChatTypeCorrect == Spec => []TypeOK
<1>1. QED
  BY ChatInit, ChatNext, PTL DEF Spec

\* At each step of the producer it is known what its client has been sent,
\* for every interleaving of producer, handler, client and llama-server.
THEOREM ChatInvCorrect == Spec => []ChatInv
<1>1. QED
  BY ChatInit, ChatNext, PTL DEF Spec

\* However Chat is left, by an error, a cancelled context, a broken answer or
\* its end, the slot it took of its runner is given back, and only once.
THEOREM SlotsAreCounted == Spec => []SlotsCounted
<1>1. ChatInv => SlotsCounted
  BY DEF ChatInv
<1>2. QED
  BY <1>1, ChatInvCorrect, PTL

\* Only a client that closed a streamed chat leaves a producer waiting on the
\* channel, whatever the number of chats, slots and runners.
THEOREM OnlyLeaversStrand == Spec => []StrandedByLeaver
<1>1. ChatInv => StrandedByLeaver
  BY DEF ChatInv, HandlerSoFar, StrandedByLeaver, Stranded, At
<1>2. QED
  BY <1>1, ChatInvCorrect, PTL

\* A client sees the chunks in order, without a gap, then one end, and Done
\* only after a whole answer.
THEOREM AnswersInOrder == Spec => []AnswerInOrder
<1>1. ChatInv => AnswerInOrder
  BY DEF ChatInv
<1>2. QED
  BY <1>1, ChatInvCorrect, PTL

\* A client that stays is told how its answer ended.
THEOREM EndsAreTold == Spec => []EndIsTold
<1>1. ChatInv => EndIsTold
  BY DEF ChatInv
<1>2. QED
  BY <1>1, ChatInvCorrect, PTL
=============================================================================
