-------------------------- MODULE MCServiceRecovery --------------------------
(* Instances of ServiceRecoveryHandler for TLC. *)
EXTENDS ServiceRecoveryHandler, TLC

CONSTANTS e1, e2

TwoExecutions == {e1, e2}

ExecutionSymmetry == Permutations(TwoExecutions)
=============================================================================
