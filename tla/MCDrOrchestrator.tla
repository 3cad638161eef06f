-------------------------- MODULE MCDrOrchestrator --------------------------
(* Instances of DrOrchestrator for TLC. *)
EXTENDS DrOrchestrator, TLC

CONSTANTS e1, e2

TwoExecutions == {e1, e2}

ExecutionSymmetry == Permutations(TwoExecutions)
=============================================================================
