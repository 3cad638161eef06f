-------------------------- MODULE MCReplicaFailover --------------------------
(* Instances of ReplicaFailoverHandler for TLC. *)
EXTENDS ReplicaFailoverHandler, TLC

CONSTANTS e1, e2

TwoExecutions == {e1, e2}

ExecutionSymmetry == Permutations(TwoExecutions)
=============================================================================
