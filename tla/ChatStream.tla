----------------------------- MODULE ChatStream -----------------------------
(***************************************************************************)
(* A chat, once it has a runner: the goroutine of handleNativeChat that    *)
(* runs llamaServerRunner.Chat (the producer), the unbuffered channel it   *)
(* sends on, the handler that receives from it in writeChatResponse or     *)
(* streamResponse, the client, and the llama-server process with the       *)
(* goroutine that reaps it.                                                *)
(*                                                                         *)
(* A runner has a semaphore of NumParallel slots.  The scheduler gives a   *)
(* chat the runner of the day, and closes that runner when the contexts of *)
(* all its chats are done: their handlers have returned or their clients   *)
(* have left.  It is modelled by module Scheduler.                         *)
(***************************************************************************)
EXTENDS Naturals, Sequences, FiniteSets

CONSTANTS
    Chats,        \* the chat requests
    NumParallel,  \* numParallel: the slots of a runner
    Done,         \* the message with Done set, the last of an answer
    Error,        \* the message gin.H{"error": ...}
    MaxChunks,    \* bound: the chunks of one answer
    MaxRunners    \* bound: the runners loaded one after the other

ASSUME ChatsAssumption == IsFiniteSet(Chats)
ASSUME SlotsAssumption == NumParallel \in Nat \ {0}
ASSUME MessagesAssumption == Done # Error /\ {Done, Error} \cap Nat = {}
ASSUME BoundsAssumption == MaxChunks \in Nat /\ MaxRunners \in Nat \ {0}

Runners == 1..MaxRunners
Chunks == 1..MaxChunks
Messages == Chunks \cup {Done, Error}

VARIABLES
    producer,  \* producer[c]: its step, its runner, what it read and what it sends
    body,      \* body[c]: what llama-server has sent of the answer, and how it ends
    handler,   \* handler[c]: where the HTTP handler is
    mode,      \* mode[c]: the client wants a stream, or the answer as a whole
    client,    \* client[c]: the client waits or has closed its connection
    out,       \* out[c]: the messages the handler took from the channel
    sem,       \* sem[g]: the slots taken of runner g
    proc,      \* proc[g]: the llama-server process of runner g
    gen        \* the runner of the day

vars == <<producer, body, handler, mode, client, out, sem, proc, gen>>

Steps == {"idle", "acquire", "connect", "scan", "drain", "send", "closing",
          "waiting", "return", "sendError", "close", "end"}
Producer == [pc: Steps, runner: Runners, read: 0..MaxChunks, msg: Messages]
Body == [sent: 0..MaxChunks, final: BOOLEAN, end: {"none", "open", "hung", "eof", "torn"}]

Silent == [pc |-> "idle", runner |-> 1, read |-> 0, msg |-> Error]
NoBody == [sent |-> 0, final |-> FALSE, end |-> "none"]

\* c.Request.Context() ends with the connection, and with the handler.
CtxDone(c) == client[c] = "gone" \/ handler[c] = "returned"

\* The scheduler counts a reference until the request's context is done, which
\* may be before the producer and the handler have seen it.
Leases(g) == {c \in Chats : producer[c].runner = g /\ handler[c] # "idle" /\ ~CtxDone(c)}

At(c, pc) == producer[c].pc = pc
Goto(c, pc) == producer' = [producer EXCEPT ![c].pc = pc]

producerVars == <<producer, sem>>
handlerVars == <<handler, mode, client, out>>
processVars == <<proc, gen>>

-----------------------------------------------------------------------------
(***************************************************************************)
(* The runner's process                                                    *)
(***************************************************************************)

\* The connections of a process that is gone break off.
Torn(g) == [c \in Chats |->
              IF producer[c].runner = g /\ body[c].end \in {"open", "hung"}
              THEN [body[c] EXCEPT !.end = "torn"] ELSE body[c]]

Exit(g) ==
    /\ proc' = [proc EXCEPT ![g] = "exited"]
    /\ body' = Torn(g)

\* llama-server crashes.
Crash(g) ==
    /\ proc[g] = "running"
    /\ Exit(g)
    /\ UNCHANGED <<producerVars, handlerVars, gen>>

\* The goroutine of startProcess: cmd.Wait sets ProcessState, then done is closed.
Reap(g) ==
    /\ proc[g] = "exited"
    /\ proc' = [proc EXCEPT ![g] = "done"]
    /\ UNCHANGED <<producerVars, body, handlerVars, gen>>

\* The scheduler closes an idle runner, and loads another for the next chat.
Reload ==
    /\ gen < MaxRunners
    /\ Leases(gen) = {}
    /\ gen' = gen + 1
    /\ IF proc[gen] = "running"
       THEN /\ proc' = [proc EXCEPT ![gen] = "exited", ![gen + 1] = "running"]
            /\ body' = Torn(gen)
       ELSE /\ proc' = [proc EXCEPT ![gen + 1] = "running"]
            /\ UNCHANGED body
    /\ UNCHANGED <<producerVars, handlerVars>>

\* llama-server sends a chunk, ...
SendChunk(c) ==
    /\ body[c].end = "open" /\ ~body[c].final /\ body[c].sent < MaxChunks
    /\ body' = [body EXCEPT ![c].sent = @ + 1]
    /\ UNCHANGED <<producerVars, handlerVars, processVars>>

\* ... the event with the finish reason, ...
SendFinal(c) ==
    /\ body[c].end = "open" /\ ~body[c].final
    /\ body' = [body EXCEPT ![c].final = TRUE]
    /\ UNCHANGED <<producerVars, handlerVars, processVars>>

\* ... ends the answer, with or without that event, ...
EndBody(c) ==
    /\ body[c].end = "open"
    /\ body' = [body EXCEPT ![c].end = "eof"]
    /\ UNCHANGED <<producerVars, handlerVars, processVars>>

\* ... or sends nothing more and keeps the connection.
Hang(c) ==
    /\ body[c].end = "open"
    /\ body' = [body EXCEPT ![c].end = "hung"]
    /\ UNCHANGED <<producerVars, handlerVars, processVars>>

-----------------------------------------------------------------------------
(***************************************************************************)
(* The producer: llamaServerRunner.Chat                                    *)
(***************************************************************************)

\* Chat returns: its deferred calls give the slot back before the caller sees
\* the result.
Release(c, pc) ==
    /\ producer' = [producer EXCEPT ![c] = [Silent EXCEPT !.pc = pc, !.runner = producer[c].runner]]
    /\ sem' = [sem EXCEPT ![producer[c].runner] = @ - 1]

\* It returns an error, and closes the body of the answer if it has one.
ReturnError(c) ==
    /\ Release(c, "sendError")
    /\ body' = [body EXCEPT ![c] = NoBody]
    /\ UNCHANGED <<handlerVars, processVars>>

\* s.sem.Acquire
Acquire(c) ==
    LET g == producer[c].runner IN
    /\ At(c, "acquire") /\ ~CtxDone(c) /\ sem[g] < NumParallel
    /\ sem' = [sem EXCEPT ![g] = @ + 1]
    /\ Goto(c, "connect")
    /\ UNCHANGED <<body, handlerVars, processVars>>

\* Mutant: the wait for a slot does not end with the request.
AcquireForEver(c) == FALSE /\ UNCHANGED vars

\* Mutant: the deferred Release is set up before Acquire has succeeded.
AcquireCancelledReleases(c) ==
    /\ At(c, "acquire") /\ CtxDone(c)
    /\ ReturnError(c)

AcquireCancelled(c) ==
    /\ At(c, "acquire") /\ CtxDone(c)
    /\ Goto(c, "sendError")
    /\ UNCHANGED <<sem, body, handlerVars, processVars>>

\* The status is asked for and the request is posted.
Connect(c) ==
    /\ At(c, "connect") /\ ~CtxDone(c)
    /\ proc[producer[c].runner] = "running"
    /\ body' = [body EXCEPT ![c] = [NoBody EXCEPT !.end = "open"]]
    /\ Goto(c, "scan")
    /\ UNCHANGED <<sem, handlerVars, processVars>>

\* Mutant: an early return without the deferred Release.
ConnectFailsAndKeepsSlot(c) ==
    /\ At(c, "connect")
    /\ Goto(c, "sendError")
    /\ UNCHANGED <<sem, body, handlerVars, processVars>>

\* The server is not ready or has no slot, the request cannot be sent, or is
\* answered with an error status.
ConnectFails(c) ==
    /\ At(c, "connect")
    /\ ReturnError(c)

\* The scanner has a chunk to pass on: fn(resp).
ScanChunk(c) ==
    /\ At(c, "scan") /\ ~CtxDone(c) /\ producer[c].read < body[c].sent
    /\ producer' = [producer EXCEPT ![c].pc = "send", ![c].read = @ + 1, ![c].msg = producer[c].read + 1]
    /\ UNCHANGED <<sem, body, handlerVars, processVars>>

\* A line that cannot be parsed, is too long, or reports an error.
ScanError(c) ==
    /\ At(c, "scan")
    /\ producer[c].read < body[c].sent \/ body[c].final
    /\ ReturnError(c)

\* ctx.Done at the next line, or the read itself is cancelled.
ScanCancelled(c) ==
    /\ At(c, "scan") /\ CtxDone(c)
    /\ ReturnError(c)

\* Mutant: the final response is passed on before the rest has been read.
ScanFinalAndSend(c) ==
    /\ At(c, "scan") /\ ~CtxDone(c) /\ producer[c].read = body[c].sent /\ body[c].final
    /\ producer' = [producer EXCEPT ![c].pc = "send", ![c].msg = Done]
    /\ UNCHANGED <<sem, body, handlerVars, processVars>>

\* The finish reason: the final response is kept until the rest has been read.
ScanFinal(c) ==
    /\ At(c, "scan") /\ ~CtxDone(c) /\ producer[c].read = body[c].sent /\ body[c].final
    /\ Goto(c, "drain")
    /\ UNCHANGED <<sem, body, handlerVars, processVars>>

\* The answer ends without a finish reason: Chat returns nil.
ScanEOF(c) ==
    /\ At(c, "scan") /\ producer[c].read = body[c].sent
    /\ ~body[c].final /\ body[c].end = "eof"
    /\ Release(c, "close")
    /\ UNCHANGED <<body, handlerVars, processVars>>

\* Mutant: an answer that breaks off is taken for one that ends.
ScanTornAsEOF(c) ==
    /\ At(c, "scan") /\ producer[c].read = body[c].sent
    /\ ~body[c].final /\ body[c].end = "torn"
    /\ Release(c, "close")
    /\ UNCHANGED <<body, handlerVars, processVars>>

\* The answer breaks off.  At an "unexpected EOF" Chat closes the runner; any
\* other error of the connection it only returns.
ScanTorn(c) ==
    /\ At(c, "scan") /\ producer[c].read = body[c].sent
    /\ ~body[c].final /\ body[c].end = "torn"
    /\ \/ Goto(c, "closing") /\ UNCHANGED <<sem, body, handlerVars, processVars>>
       \/ ReturnError(c)

\* stopProcess: nothing to do if ProcessState is set, else kill the process,
\* which may fail, ...
StopProcess(c) ==
    LET g == producer[c].runner IN
    /\ At(c, "closing")
    /\ \/ ReturnError(c)
       \/ /\ proc[g] # "done"
          /\ Goto(c, "waiting") /\ Exit(g) /\ UNCHANGED <<sem, handlerVars, gen>>

\* ... and wait for it to be reaped.
Stopped(c) ==
    /\ At(c, "waiting") /\ proc[producer[c].runner] = "done"
    /\ ReturnError(c)

\* The rest of the answer has been read and the body closed: fn(finalResp).
Drain(c) ==
    /\ At(c, "drain") /\ body[c].end = "eof"
    /\ producer' = [producer EXCEPT ![c].pc = "send", ![c].msg = Done]
    /\ UNCHANGED <<sem, body, handlerVars, processVars>>

DrainFails(c) ==
    /\ At(c, "drain") /\ (body[c].end = "torn" \/ CtxDone(c))
    /\ ReturnError(c)

\* Chat returns nil after the final response.
ReturnNil(c) ==
    /\ At(c, "return")
    /\ Release(c, "close")
    /\ UNCHANGED <<body, handlerVars, processVars>>

\* defer close(ch)
CloseChannel(c) ==
    /\ At(c, "close")
    /\ Goto(c, "end")
    /\ UNCHANGED <<sem, body, handlerVars, processVars>>

-----------------------------------------------------------------------------
(***************************************************************************)
(* The handler and its client                                              *)
(***************************************************************************)

\* ChatHandler has got the runner of the day, which answered its ping.  (One
\* whose first message is not the system's is refused here and starts nothing.)
StartChat(c, m) ==
    /\ handler[c] = "idle" /\ proc[gen] = "running"
    /\ producer' = [producer EXCEPT ![c] = [Silent EXCEPT !.pc = "acquire", !.runner = gen]]
    /\ mode' = [mode EXCEPT ![c] = m]
    /\ client' = [client EXCEPT ![c] = "here"]
    /\ handler' = [handler EXCEPT ![c] = IF m = "stream" THEN "check" ELSE "receive"]
    /\ UNCHANGED <<body, out, sem, processVars>>

\* The client closes its connection.
Leave(c) ==
    /\ client[c] = "here" /\ handler[c] # "returned"
    /\ client' = [client EXCEPT ![c] = "gone"]
    /\ UNCHANGED <<producerVars, body, handler, mode, out, processVars>>

\* Mutant: a handler that collects the answer looks for its client as well.
CheckAlways(c) ==
    /\ handler[c] \in {"check", "receive"}
    /\ handler' = [handler EXCEPT ![c] = IF client[c] = "gone" THEN "returned" ELSE "receive"]
    /\ UNCHANGED <<producerVars, body, mode, client, out, processVars>>

\* c.Stream looks whether the client is gone before each message.
CheckClient(c) ==
    /\ handler[c] = "check"
    /\ handler' = [handler EXCEPT ![c] = IF client[c] = "gone" THEN "returned" ELSE "receive"]
    /\ UNCHANGED <<producerVars, body, mode, client, out, processVars>>

\* A response goes through the channel; the write to a client that left may fail.
Deliver(c) ==
    /\ At(c, "send") /\ handler[c] = "receive"
    /\ out' = [out EXCEPT ![c] = Append(@, producer[c].msg)]
    /\ Goto(c, IF producer[c].msg = Done THEN "return" ELSE "scan")
    /\ \/ handler' = [handler EXCEPT ![c] = IF mode[c] = "stream" THEN "check" ELSE @]
       \/ /\ mode[c] = "stream" /\ client[c] = "gone"
          /\ handler' = [handler EXCEPT ![c] = "returned"]
    /\ UNCHANGED <<sem, body, mode, client, processVars>>

\* An error goes through the channel: the handler writes it and returns.
DeliverError(c) ==
    /\ At(c, "sendError") /\ handler[c] = "receive"
    /\ out' = [out EXCEPT ![c] = Append(@, Error)]
    /\ handler' = [handler EXCEPT ![c] = "returned"]
    /\ Goto(c, "close")
    /\ UNCHANGED <<sem, body, mode, client, processVars>>

\* The channel is closed.
ChannelClosed(c) ==
    /\ At(c, "end") /\ handler[c] = "receive"
    /\ handler' = [handler EXCEPT ![c] = "returned"]
    /\ UNCHANGED <<producerVars, body, mode, client, out, processVars>>

-----------------------------------------------------------------------------
Init ==
    /\ producer = [c \in Chats |-> Silent]
    /\ body = [c \in Chats |-> NoBody]
    /\ handler = [c \in Chats |-> "idle"]
    /\ mode = [c \in Chats |-> "stream"]
    /\ client = [c \in Chats |-> "none"]
    /\ out = [c \in Chats |-> <<>>]
    /\ sem = [g \in Runners |-> 0]
    /\ proc = [g \in Runners |-> IF g = 1 THEN "running" ELSE "none"]
    /\ gen = 1

Connecting(c) == AcquireCancelled(c) \/ Connect(c) \/ ConnectFails(c)

Scanning(c) ==
    \/ ScanChunk(c) \/ ScanError(c) \/ ScanCancelled(c)
    \/ ScanFinal(c) \/ ScanEOF(c) \/ ScanTorn(c)

Ending(c) ==
    \/ StopProcess(c) \/ Stopped(c) \/ Drain(c) \/ DrainFails(c)
    \/ ReturnNil(c) \/ CloseChannel(c)

Handling(c) == CheckClient(c) \/ Deliver(c) \/ DeliverError(c) \/ ChannelClosed(c)

Answering(c) == SendChunk(c) \/ SendFinal(c) \/ EndBody(c) \/ Hang(c)

Next ==
    \/ \E c \in Chats, m \in {"stream", "collect"} : StartChat(c, m)
    \/ \E c \in Chats : \/ Leave(c) \/ Acquire(c) \/ Connecting(c) \/ Scanning(c)
                        \/ Ending(c) \/ Handling(c) \/ Answering(c)
    \/ \E g \in Runners : Crash(g) \/ Reap(g)
    \/ Reload

Spec == Init /\ [][Next]_vars

\* Go runs every goroutine that can run, semaphore.Weighted serves its waiters
\* in the order they came, and llama-server goes on, or hangs, or crashes.
Fairness ==
    /\ \A c \in Chats : /\ SF_vars(Acquire(c))
                        /\ WF_vars(Connecting(c))
                        /\ WF_vars(Scanning(c))
                        /\ WF_vars(Ending(c))
                        /\ WF_vars(Handling(c))
                        /\ WF_vars(Answering(c))
    /\ \A g \in Runners : WF_vars(Reap(g))

FairSpec == Spec /\ Fairness

-----------------------------------------------------------------------------
(***************************************************************************)
(* Properties                                                              *)
(***************************************************************************)

\* The steps at which Chat holds a slot.
HoldsSlot(c) == producer[c].pc \in {"connect", "scan", "drain", "send", "closing", "waiting", "return"}

\* The producer waits for a receiver that has gone.
Stranded(c) == At(c, "send") /\ handler[c] = "returned"

\* The types; sem[g] stays within the runner's slots: nothing is given back
\* that was not taken (semaphore.Release would panic).
TypeOK ==
    /\ producer \in [Chats -> Producer]
    /\ body \in [Chats -> Body]
    /\ handler \in [Chats -> {"idle", "check", "receive", "returned"}]
    /\ mode \in [Chats -> {"stream", "collect"}]
    /\ client \in [Chats -> {"none", "here", "gone"}]
    /\ out \in [Chats -> Seq(Messages)]
    /\ sem \in [Runners -> 0..NumParallel]
    /\ proc \in [Runners -> {"none", "running", "exited", "done"}]
    /\ gen \in Runners

\* The semaphore of a runner counts the chats inside Chat: no way out of the
\* function keeps a slot, whatever failed on it.
SlotsCounted ==
    \A g \in Runners :
        sem[g] = Cardinality({c \in Chats : producer[c].runner = g /\ HoldsSlot(c)})

\* A slot is lost with its producer only when the client of a streamed chat
\* left: no chat whose client stays, and none that is answered as a whole,
\* leaves its producer behind on the channel.
StrandedByLeaver ==
    \A c \in Chats : Stranded(c) => mode[c] = "stream" /\ client[c] = "gone"

\* What a client may see: the chunks in order and none missing, then at most
\* one end, and Done only when llama-server has ended the answer by itself
\* and every chunk of it has been passed on.
AnswerInOrder ==
    \A c \in Chats :
        LET n == Len(out[c]) IN
        /\ \A i \in 1..n : out[c][i] = i \/ (i = n /\ out[c][i] \in {Done, Error})
        /\ n > 0 /\ out[c][n] = Done =>
             n = body[c].sent + 1 /\ body[c].final /\ body[c].end = "eof"

\* A client that stays is told how its answer ended, whatever happened to
\* llama-server, unless llama-server itself ended it without a finish reason.
EndIsTold ==
    \A c \in Chats :
        handler[c] = "returned" /\ client[c] = "here" =>
            \/ out[c] # <<>> /\ out[c][Len(out[c])] \in {Done, Error}
            \/ body[c].end = "eof" /\ ~body[c].final /\ Len(out[c]) = body[c].sent

\* What c has been sent is the first n chunks; it is the whole answer and its
\* end; it is all that llama-server sent before it stopped without a reason.
OnlyChunks(c, n) == Len(out[c]) = n /\ \A i \in 1..n : out[c][i] = i
Complete(c) ==
    /\ Len(out[c]) = body[c].sent + 1 /\ out[c][Len(out[c])] = Done
    /\ body[c].final /\ body[c].end = "eof"
Cut(c) == body[c].end = "eof" /\ ~body[c].final /\ OnlyChunks(c, body[c].sent)

\* How far the answer has come at each step of the producer.
AnswerSoFar(c) ==
    LET p == producer[c] IN
    /\ p.pc \in {"idle", "acquire", "connect"} => OnlyChunks(c, 0) /\ p.read = 0
    /\ p.pc \in {"scan", "drain", "closing", "waiting"} => OnlyChunks(c, p.read)
    /\ p.pc = "drain" => p.read = body[c].sent /\ body[c].final
    /\ p.pc = "send" /\ p.msg = Done =>
          /\ OnlyChunks(c, body[c].sent)
          /\ body[c].final /\ body[c].end = "eof"
    /\ p.pc = "send" /\ p.msg # Done => p.read > 0 /\ p.msg = p.read /\ OnlyChunks(c, p.read - 1)
    /\ p.pc = "return" => Complete(c)
    /\ p.pc = "sendError" => OnlyChunks(c, Len(out[c]))
    /\ p.pc \in {"close", "end"} /\ handler[c] # "returned" => Complete(c) \/ Cut(c)

\* How the handler stands to its client and to the producer.
HandlerSoFar(c) ==
    /\ handler[c] = "idle" <=> At(c, "idle")
    /\ handler[c] = "check" => mode[c] = "stream"
    /\ handler[c] = "returned" =>
          \/ mode[c] = "stream" /\ client[c] = "gone"
          \/ producer[c].pc \in {"close", "end"}

\* The invariant from which the properties above follow: at each step of the
\* producer it is known what its client has been sent.
ChatInv ==
    /\ \A c \in Chats : AnswerSoFar(c) /\ HandlerSoFar(c)
    /\ AnswerInOrder
    /\ EndIsTold
    /\ SlotsCounted

\* When the client has gone the handler returns, even if llama-server hangs
\* or all slots are lost, so that the scheduler gets its reference back.
LeaverReturns == \A c \in Chats : client[c] = "gone" ~> handler[c] = "returned"

\* A chat comes to its end, unless llama-server hangs or a client that left
\* has cost the runner a slot.
ChatAnswered ==
    \A c \in Chats :
        handler[c] \in {"check", "receive"} ~>
            \/ handler[c] = "returned"
            \/ \E d \in Chats : Stranded(d) \/ body[d].end = "hung"
=============================================================================
