--------------------------- MODULE RunnerService ---------------------------
(***************************************************************************)
(* What the scheduler of server/sched.go promises the HTTP handlers,       *)
(* without the goroutines, locks, channels and timers it does it with:     *)
(* each request is answered at most once, with an error or with a          *)
(* llama-server process that was started for the model it asks for, and    *)
(* processes are started within the limits of the machine and never again  *)
(* once they are gone.  A process is named by the request it is started    *)
(* for.                                                                    *)
(***************************************************************************)
CONSTANTS
    Requests,      \* the requests, and the processes started for them
    RoomBeside(_)  \* whether a process may be started beside those that run

VARIABLES
    wanted,     \* wanted[q]: the model that q asks for, and if it runs on GPUs
    answer,     \* answer[q]: "waiting", "error", or the process q was given
    process     \* process[r]: "absent", "running" or "gone"

vars == <<wanted, answer, process>>

Running == {r \in Requests : process[r] = "running"}

Init ==
    /\ answer = [q \in Requests |-> "waiting"]
    /\ process = [r \in Requests |-> "absent"]

\* A process is started while the request waits, when there is room for it,
\* and on GPUs only when no other one runs.
Start(r) ==
    /\ process[r] = "absent" /\ answer[r] = "waiting"
    /\ RoomBeside(Running)
    /\ wanted[r].gpus => Running = {}
    /\ process' = [process EXCEPT ![r] = "running"]
    /\ UNCHANGED <<wanted, answer>>

\* Processes end: closed by the scheduler, or on their own.
Stop(ended) ==
    /\ ended \subseteq Running
    /\ process' = [r \in Requests |-> IF r \in ended THEN "gone" ELSE process[r]]
    /\ UNCHANGED <<wanted, answer>>

\* A request is given a process that was started for its model. (It may have
\* ended meanwhile: the chat that is sent to it then fails.)
Grant(q, r) ==
    /\ answer[q] = "waiting"
    /\ process[r] # "absent"
    /\ wanted[r].model = wanted[q].model
    /\ answer' = [answer EXCEPT ![q] = r]
    /\ UNCHANGED <<wanted, process>>

\* A request gets an error, and its process, if it has one, is ended or will
\* never be started.
Decline(q) ==
    /\ answer[q] = "waiting"
    /\ answer' = [answer EXCEPT ![q] = "error"]
    /\ \/ process' = [process EXCEPT ![q] = "gone"]
       \/ process[q] # "absent" /\ UNCHANGED process
    /\ UNCHANGED wanted

\* A request is given a process of another one, so that its own will never be
\* started.
Share(q, r) ==
    /\ answer[q] = "waiting" /\ process[q] = "absent"
    /\ process[r] # "absent"
    /\ wanted[r].model = wanted[q].model
    /\ answer' = [answer EXCEPT ![q] = r]
    /\ process' = [process EXCEPT ![q] = "gone"]
    /\ UNCHANGED wanted

Next ==
    \/ \E r \in Requests : Start(r) \/ Decline(r)
    \/ \E ended \in SUBSET Requests : Stop(ended)
    \/ \E q, r \in Requests : Grant(q, r) \/ Share(q, r)

Spec == Init /\ [][Next]_vars
=============================================================================
