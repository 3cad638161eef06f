--------------------------- MODULE DrOrchestrator ---------------------------
(***************************************************************************)
(* The failover state machine,                                             *)
(* src/stepfunctions/dr-failover-orchestrator.asl.json, composed with the  *)
(* four Lambdas it calls and with the RDS instance, the ECS service and    *)
(* the public site they act on.                                            *)
(*                                                                         *)
(* Operators start executions, and nothing keeps two of them from running  *)
(* at once.  A Task state is entered together with the invocation of its   *)
(* Lambda; it is left, through the Choice state after it, when the Lambda  *)
(* has returned.  A Lambda that fails fails the execution: no Task has a   *)
(* Retry or a Catch.                                                       *)
(***************************************************************************)
EXTENDS ReplicaFailoverHandler, ValidateDbWritable, ServiceRecoveryHandler,
        ValidateApplication

\* The DR service is deployed with no task (dr/ecs/ecs.tfvars), and each
\* execution can be told from the others.
ASSUME ScaledToZero == TerraformDesired = 0

VARIABLE
    state       \* the state each execution is in

\* The variables of the parts, without those of AWS's failures.
replicaPart  == <<db, rfh>>
databasePart == <<vdw, secret, schema>>
servicePart  == <<ecs, applies, srh>>
sitePart     == <<vah, primary>>

vars == <<state, replicaPart, databasePart, servicePart, sitePart, envVars>>

Tasks == {"ReplicaFailoverHandler", "ValidateDBWritable",
          "ServiceRecoveryHandler", "ValidateApplication"}

FailStates == {"FailReplicaFailover", "FailDBNotWritable",
               "FailServiceRecovery", "FailApplicationValidation",
               "TaskFailed"}        \* an uncaught failure of a Task

Terminal == FailStates \cup {"FailoverCompleted"}

States == {"NotStarted", "WaitForDBReadiness"} \cup Tasks \cup Terminal

TypeOK ==
    /\ state \in [Executions -> States]
    /\ ReplicaTypeOK
    /\ ValidateDbTypeOK
    /\ RecoveryTypeOK
    /\ ValidateAppTypeOK

Init ==
    /\ state = [e \in Executions |-> "NotStarted"]
    /\ EnvInit
    /\ DbInit
    /\ ReplicaHandlerInit
    /\ DbValidatorInit
    /\ EcsInit
    /\ RecoveryHandlerInit
    /\ ValidateAppInit

-----------------------------------------------------------------------------

Goto(e, next) == state' = [state EXCEPT ![e] = next]

StartExecution(e) ==
    /\ state[e] = "NotStarted"
    /\ Goto(e, "ReplicaFailoverHandler")
    /\ InvokeReplicaHandler(e)
    /\ UNCHANGED <<databasePart, servicePart, sitePart>>

\* (mutant of DBAvailable) another field of the report is tested.
DBAvailableIfReady(e) ==
    /\ state[e] = "ReplicaFailoverHandler"
    /\ rfh[e].pc = "returned"
    /\ Goto(e, IF rfh[e].report.replica_ready THEN "WaitForDBReadiness"
                                              ELSE "FailReplicaFailover")
    /\ UNCHANGED <<replicaPart, databasePart, servicePart, sitePart, envVars>>

\* DBAvailable?
DBAvailable(e) ==
    /\ state[e] = "ReplicaFailoverHandler"
    /\ rfh[e].pc = "returned"
    /\ Goto(e, IF rfh[e].report.db_available THEN "WaitForDBReadiness"
                                             ELSE "FailReplicaFailover")
    /\ UNCHANGED <<replicaPart, databasePart, servicePart, sitePart, envVars>>

\* The 30 seconds of the Wait state have passed.
WaitOver(e) ==
    /\ state[e] = "WaitForDBReadiness"
    /\ Goto(e, "ValidateDBWritable")
    /\ InvokeDbValidator(e)
    /\ UNCHANGED <<rfh, servicePart, sitePart>>

\* DBWritable? leads to the next Task ...
DBWritable(e) ==
    /\ state[e] = "ValidateDBWritable"
    /\ vdw[e].pc = "returned"
    /\ vdw[e].writable
    /\ Goto(e, "ServiceRecoveryHandler")
    /\ InvokeRecoveryHandler(e)
    /\ UNCHANGED <<replicaPart, databasePart, sitePart>>

\* (mutant of DBNotWritable) the Default of DBWritable? goes on.
DBNotWritableGoesOn(e) ==
    /\ state[e] = "ValidateDBWritable"
    /\ vdw[e].pc = "returned"
    /\ ~vdw[e].writable
    /\ Goto(e, "ServiceRecoveryHandler")
    /\ InvokeRecoveryHandler(e)
    /\ UNCHANGED <<replicaPart, databasePart, sitePart>>

\* ... or to its Default.
DBNotWritable(e) ==
    /\ state[e] = "ValidateDBWritable"
    /\ vdw[e].pc = "returned"
    /\ ~vdw[e].writable
    /\ Goto(e, "FailDBNotWritable")
    /\ UNCHANGED <<replicaPart, databasePart, servicePart, sitePart, envVars>>

\* ECSHealthy?
ECSHealthy(e) ==
    /\ state[e] = "ServiceRecoveryHandler"
    /\ srh[e].pc = "returned"
    /\ srh[e].healthy
    /\ Goto(e, "ValidateApplication")
    /\ InvokeAppValidator(e)
    /\ UNCHANGED <<replicaPart, databasePart, srh>>

\* (mutant of ECSNotHealthy) the Default names a state that does not exist.
ECSNotHealthyDangling(e) ==
    /\ state[e] = "ServiceRecoveryHandler"
    /\ srh[e].pc = "returned"
    /\ ~srh[e].healthy
    /\ Goto(e, "FailServiceRecover")
    /\ UNCHANGED <<replicaPart, databasePart, servicePart, sitePart, envVars>>

ECSNotHealthy(e) ==
    /\ state[e] = "ServiceRecoveryHandler"
    /\ srh[e].pc = "returned"
    /\ ~srh[e].healthy
    /\ Goto(e, "FailServiceRecovery")
    /\ UNCHANGED <<replicaPart, databasePart, servicePart, sitePart, envVars>>

\* ApplicationHealthy?
ApplicationHealthy(e) ==
    /\ state[e] = "ValidateApplication"
    /\ vah[e].pc = "returned"
    /\ Goto(e, IF vah[e].healthy THEN "FailoverCompleted"
                                 ELSE "FailApplicationValidation")
    /\ UNCHANGED <<replicaPart, databasePart, servicePart, sitePart, envVars>>

\* What the invocation that a Task waits for is doing.
TaskPc(e) ==
    CASE state[e] = "ReplicaFailoverHandler" -> rfh[e].pc
      [] state[e] = "ValidateDBWritable"     -> vdw[e].pc
      [] state[e] = "ServiceRecoveryHandler" -> srh[e].pc
      [] state[e] = "ValidateApplication"    -> vah[e].pc
      [] OTHER -> "idle"

TaskFails(e) ==
    /\ TaskPc(e) = "failed"
    /\ Goto(e, "TaskFailed")
    /\ UNCHANGED <<replicaPart, databasePart, servicePart, sitePart, envVars>>

\* A step of the state machine itself, once the execution is started.
Transition(e) ==
    \/ DBAvailable(e)
    \/ WaitOver(e)
    \/ DBWritable(e)
    \/ DBNotWritable(e)
    \/ ECSHealthy(e)
    \/ ECSNotHealthy(e)
    \/ ApplicationHealthy(e)
    \/ TaskFails(e)

\* A step of the Lambda an execution is waiting for.
LambdaStep(e) ==
    \/ ReplicaHandlerStep(e)
         /\ UNCHANGED <<state, databasePart, servicePart, sitePart>>
    \/ ValidateDbStep(e)
         /\ UNCHANGED <<state, rfh, servicePart, sitePart>>
    \/ RecoveryHandlerStep(e)
         /\ UNCHANGED <<state, replicaPart, databasePart, sitePart>>
    \/ ValidateAppStep(e)
         /\ UNCHANGED <<state, replicaPart, databasePart, srh>>

\* AWS, the network and other operators.
EnvironmentStep ==
    \/ RdsNext
         /\ UNCHANGED <<state, rfh, databasePart, servicePart, sitePart>>
    \/ EcsNext
         /\ UNCHANGED <<state, replicaPart, databasePart, srh, sitePart>>
    \/ PrimaryChanges
         /\ UNCHANGED <<state, replicaPart, databasePart, srh, vah>>

Next ==
    \/ \E e \in Executions :
         StartExecution(e) \/ Transition(e) \/ LambdaStep(e)
    \/ EnvironmentStep

Spec == Init /\ [][Next]_vars

\* Step Functions and Lambda carry on an execution that was started.
Progress == \A e \in Executions : WF_vars(Transition(e) \/ LambdaStep(e))

FairSpec == Spec /\ Progress

-----------------------------------------------------------------------------

(***************************************************************************)
(* The DR service is never asked to run a task, and no task of it exists,  *)
(* unless the database is detached from its source, holds a row an         *)
(* execution has written, and the secret the tasks are given at their      *)
(* start is good.  No execution, however it fails or overlaps with another *)
(* one, starts WordPress on a read-only or unreachable database.           *)
(***************************************************************************)
NoTaskOnUnusableDatabase ==
    ecs.desired + ecs.running + ecs.pending + ecs.healthy > 0
      => /\ ~db.source
         /\ schema.rows > 0
         /\ secret = "current"

(***************************************************************************)
(* The order of the state machine is the order of the protocol: whatever   *)
(* the interleaving, the database is detached only because a failover was  *)
(* begun, each execution goes on only when its evidence is a fact, and     *)
(* only an execution that has written a row scales the service.            *)
(***************************************************************************)
StageOf(s) ==
    CASE s = "NotStarted"                                           -> "none"
      [] s = "ReplicaFailoverHandler"                          -> "promoting"
      [] s \in {"WaitForDBReadiness", "ValidateDBWritable"}     -> "promoted"
      [] s \in {"ServiceRecoveryHandler", "ValidateApplication"} -> "writable"
      [] s = "FailoverCompleted"                                    -> "done"
      [] s \in FailStates                                         -> "failed"

Protocol == INSTANCE FailoverProtocol WITH
    stage    <- [e \in Executions |-> StageOf(state[e])],
    promoted <- ~db.source,
    written  <- schema.rows > 0,
    scaled   <- ecs.desired > 0

ImplementsProtocol == Protocol!ProtocolSpec

(***************************************************************************)
(* Every execution that is started ends, in a Succeed, a Fail or an        *)
(* uncaught failure: none of the polling Lambdas, the failures that leave  *)
(* them without an answer, or other executions can keep it waiting.        *)
(***************************************************************************)
ExecutionsEnd ==
    \A e \in Executions : state[e] # "NotStarted" ~> state[e] \in Terminal

(***************************************************************************)
(* Recovery by starting again.  Where an execution was cut off after the   *)
(* scaling, by a timeout or a failed call, another execution finds the     *)
(* promotion refused (app.py:63), the table there (CREATE TABLE IF NOT     *)
(* EXISTS, app.py:66) and the service at its count, and completes.         *)
(***************************************************************************)
Recovered ==
    /\ Undisturbed
    /\ applies = MaxApplies
    /\ Settled(db) /\ ~db.source
    /\ secret = "current"
    /\ ecs.desired = DesiredCount
    /\ ServiceHealthy(ecs)
    /\ ecs.healthy > 0

RerunCompletes ==
    \A e \in Executions :
        (rfh[e].pc = "describe" /\ Recovered) ~> state[e] = "FailoverCompleted"

(***************************************************************************)
(* "Validate that the DR application endpoint responds successfully"       *)
(* (validate-application/app.py:8): an execution completes on an answer of *)
(* the DR site.                                                            *)
(***************************************************************************)
CompletedOnDrAnswer ==
    \A e \in Executions :
        state[e] = "FailoverCompleted" => vah[e].origin = "dr"
=============================================================================
