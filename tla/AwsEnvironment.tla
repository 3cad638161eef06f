--------------------------- MODULE AwsEnvironment ---------------------------
(***************************************************************************)
(* What AWS does to every part of the failover: API calls fail, and        *)
(* resources change for reasons of their own.  Both are bounded for TLC.   *)
(*                                                                         *)
(* An execution invokes each Lambda at most once: no Task state of         *)
(* src/stepfunctions/dr-failover-orchestrator.asl.json has a Retry.  So a  *)
(* Lambda's invocations are named by their executions in every module.     *)
(***************************************************************************)
EXTENDS Naturals, FiniteSets

CONSTANTS
    Executions,         \* the executions of the failover state machine
    MaxFaults,          \* bound: calls that fail
    MaxDisturbances     \* bound: changes nobody asked for

ASSUME EnvironmentAssumption ==
    /\ IsFiniteSet(Executions)
    /\ MaxFaults \in Nat
    /\ MaxDisturbances \in Nat

VARIABLES
    faults,
    disturbances

envVars == <<faults, disturbances>>

EnvTypeOK ==
    /\ faults \in Nat
    /\ disturbances \in Nat

EnvInit ==
    /\ faults = 0
    /\ disturbances = 0

Fault ==
    /\ faults < MaxFaults
    /\ faults' = faults + 1
    /\ UNCHANGED disturbances

Disturbance ==
    /\ disturbances < MaxDisturbances
    /\ disturbances' = disturbances + 1
    /\ UNCHANGED faults

\* Nothing more will go wrong.
Undisturbed ==
    /\ faults = MaxFaults
    /\ disturbances = MaxDisturbances
=============================================================================
