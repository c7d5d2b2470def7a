---------------------------- MODULE MCScheduler ----------------------------
(***************************************************************************)
(* Instances of Scheduler for TLC: what the clients ask for.               *)
(***************************************************************************)
EXTENDS SchedulerService, TLC

AskOf(m, k, o, g, b) == [model |-> m, keepAlive |-> k, opts |-> o, gpus |-> g, batch |-> b]

\* Two models, on GPUs and on the CPU, every keep-alive but forever, an
\* explicit option and a request with num_batch 0.
MixedAsks ==
    {AskOf(1, Zero, 0, TRUE, TRUE), AskOf(2, Finite, 0, TRUE, FALSE),
     AskOf(2, NoDuration, 1, FALSE, TRUE)}

\* A GPU model, unloaded at once when idle, that has to be alone, and two CPU
\* models that fit beside each other: more models than maxRunners.
CrowdedAsks ==
    {AskOf(1, Zero, 0, TRUE, TRUE), AskOf(2, NoDuration, 0, FALSE, TRUE),
     AskOf(3, Finite, 0, FALSE, TRUE)}

\* Two models on GPUs, one kept for a while and one not at all.
SwapAsks == {AskOf(1, Finite, 0, TRUE, TRUE), AskOf(2, Zero, 0, TRUE, TRUE)}

\* One model that is to be unloaded at once when idle.
ZeroAsks == {AskOf(1, Zero, 0, TRUE, TRUE)}

\* Requests are interchangeable: only their asks tell them apart.
RequestSymmetry == Permutations(Requests)
=============================================================================
