---------------------------- MODULE MCOrchestrator ----------------------------
(* Orchestrator for TLC: the dispatch workers are interchangeable.          *)
EXTENDS Orchestrator, TLC

\* Used by the runs that check no liveness property.
WorkerSymmetry == Permutations(Worker)
=============================================================================
