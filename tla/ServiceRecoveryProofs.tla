------------------------ MODULE ServiceRecoveryProofs ------------------------
(***************************************************************************)
(* Theorems about ServiceRecoveryHandler and the ECS service, for any      *)
(* number of executions and any desired count and timing constants.        *)
(***************************************************************************)
EXTENDS ServiceRecoveryHandler, TLAPS

(***************************************************************************)
(* A service that has lost a task is still a service.                      *)
(***************************************************************************)
LEMMA WithRunningType ==
    ASSUME EcsTypeOK, ecs.running > 0
    PROVE  WithRunning(ecs.running - 1) \in Service
<1>1. ecs.running - 1 \in Nat
  BY DEF EcsTypeOK, Service
<1>2. Smaller(ecs.healthy, ecs.running - 1) \in Nat
  BY <1>1 DEF EcsTypeOK, Service, Smaller
<1>3. QED
  BY <1>1, <1>2 DEF EcsTypeOK, Service, WithRunning

(***************************************************************************)
(* ECS, the ALB and Terraform keep the service's counts natural numbers.   *)
(***************************************************************************)
LEMMA EcsStepType ==
    ASSUME EnvTypeOK, EcsTypeOK, EcsNext
    PROVE  EnvTypeOK' /\ EcsTypeOK'
<1> USE EnvironmentAssumption, EcsAssumption
    DEF EnvTypeOK, EcsTypeOK, Service
<1>1. CASE TaskPlaced
  BY <1>1 DEF TaskPlaced, envVars
<1>2. CASE TaskStarts
  <2>1. ecs.pending - 1 \in Nat /\ ecs.running + 1 \in Nat
    BY <1>2 DEF TaskStarts
  <2>2. QED
    BY <1>2, <2>1 DEF TaskStarts, envVars
<1>3. CASE TaskStopped
  <2>1. CASE ecs.pending > 0
    <3>1. ecs' = [ecs EXCEPT !.pending = @ - 1]
      BY <1>3, <2>1 DEF TaskStopped
    <3>2. QED
      BY <1>3, <2>1, <3>1 DEF TaskStopped, envVars
  <2>2. CASE ~(ecs.pending > 0)
    <3>1. ecs' = WithRunning(ecs.running - 1) /\ ecs.running > 0
      BY <1>3, <2>2, EcsAssumption DEF TaskStopped
    <3>2. QED
      BY <1>3, <3>1, WithRunningType DEF TaskStopped, envVars
  <2>3. QED
    BY <2>1, <2>2
<1>4. CASE TaskDies
  BY <1>4, WithRunningType DEF TaskDies, Disturbance
<1>5. CASE TargetHealthy
  BY <1>5 DEF TargetHealthy, envVars
<1>6. CASE RolloutCompletes
  BY <1>6 DEF RolloutCompletes, envVars
<1>7. CASE TerraformApply
  <2>1. PICK rollout \in BOOLEAN :
          ecs' = [ecs EXCEPT !.desired = TerraformDesired, !.rollout = rollout]
    BY <1>7 DEF TerraformApply
  <2>2. applies' \in Nat /\ UNCHANGED envVars
    BY <1>7 DEF TerraformApply
  <2>3. QED
    BY <2>1, <2>2 DEF envVars
<1>8. QED
  BY <1>1, <1>2, <1>3, <1>4, <1>5, <1>6, <1>7 DEF EcsNext

(***************************************************************************)
(* A step of a handler (app.py:30-89) keeps the types.                     *)
(***************************************************************************)
LEMMA RecoveryStepType ==
    ASSUME RecoveryTypeOK,
           NEW e \in Executions,
           InvokeRecoveryHandler(e) \/ RecoveryHandlerStep(e)
    PROVE  RecoveryTypeOK'
<1> USE EnvironmentAssumption, RecoveryAssumption
    DEF RecoveryTypeOK, EnvTypeOK, EcsTypeOK, Service, Recovery, ecsVars,
        envVars
<1>1. CASE InvokeRecoveryHandler(e)
  BY <1>1 DEF InvokeRecoveryHandler
<1>2. CASE UpdateService(e)
  BY <1>2 DEF UpdateService
<1>3. CASE UpdateErrored(e)
  <2>1. EnvTypeOK' /\ UNCHANGED applies
    BY <1>3 DEF UpdateErrored, Fault
  <2>2. ecs' \in Service
    BY <1>3 DEF UpdateErrored
  <2>3. srh' \in [Executions -> Recovery]
    BY <1>3 DEF UpdateErrored, Answer
  <2>4. QED
    BY <2>1, <2>2, <2>3
<1>4. CASE ServicePollConfirms(e)
  BY <1>4 DEF ServicePollConfirms, Answer
<1>5. CASE ServicePollWaits(e)
  BY <1>5 DEF ServicePollWaits
<1>6. CASE RecoveryTimesOut(e)
  BY <1>6 DEF RecoveryTimesOut, Answer
<1>7. CASE DescribeServiceRaises(e)
  BY <1>7 DEF DescribeServiceRaises, Fault
<1>8. CASE RecoveryHandlerKilled(e)
  <2>1. EnvTypeOK' /\ UNCHANGED applies
    BY <1>8 DEF RecoveryHandlerKilled, Fault
  <2>2. ecs' \in Service
    BY <1>8 DEF RecoveryHandlerKilled
  <2>3. srh' \in [Executions -> Recovery]
    BY <1>8 DEF RecoveryHandlerKilled
  <2>4. QED
    BY <2>1, <2>2, <2>3
<1>9. QED
  BY <1>1, <1>2, <1>3, <1>4, <1>5, <1>6, <1>7, <1>8 DEF RecoveryHandlerStep

(***************************************************************************)
(* A step of a handler is one of an invocation that is at work, and leaves *)
(* the other invocations alone.                                            *)
(***************************************************************************)
LEMMA RecoveryStepLocal ==
    ASSUME RecoveryTypeOK,
           NEW e \in Executions
    PROVE  /\ RecoveryHandlerStep(e) => srh[e].pc \in {"update", "polling"}
           /\ InvokeRecoveryHandler(e) \/ RecoveryHandlerStep(e)
                => \A f \in Executions \ {e} : srh'[f] = srh[f]
<1>1. RecoveryHandlerStep(e) => srh[e].pc \in {"update", "polling"}
  BY DEF RecoveryHandlerStep, UpdateService, UpdateErrored,
         ServicePollConfirms, ServicePollWaits, RecoveryTimesOut,
         DescribeServiceRaises, RecoveryHandlerKilled
<1>2. InvokeRecoveryHandler(e) \/ RecoveryHandlerStep(e)
        => \E x : srh' = [srh EXCEPT ![e] = x]
  BY DEF InvokeRecoveryHandler, RecoveryHandlerStep, UpdateService,
         UpdateErrored, ServicePollConfirms, ServicePollWaits,
         RecoveryTimesOut, DescribeServiceRaises, RecoveryHandlerKilled,
         Answer
<1>3. ASSUME NEW x, srh' = [srh EXCEPT ![e] = x]
      PROVE  \A f \in Executions \ {e} : srh'[f] = srh[f]
  BY <1>3 DEF RecoveryTypeOK
<1>4. QED
  BY <1>1, <1>2, <1>3

(***************************************************************************)
(* Type correctness of the handler and the service it acts on.             *)
(***************************************************************************)
THEOREM RecoveryTypeCorrect == RecoverySpec => []RecoveryTypeOK
<1>1. RecoveryInit => RecoveryTypeOK
  BY EcsAssumption
     DEF RecoveryInit, EnvInit, EcsInit, RecoveryHandlerInit, RecoveryTypeOK,
         EnvTypeOK, EcsTypeOK, Service, Recovery
<1>2. RecoveryTypeOK /\ [RecoveryNext]_recoveryVars => RecoveryTypeOK'
  <2> SUFFICES ASSUME RecoveryTypeOK, [RecoveryNext]_recoveryVars
               PROVE  RecoveryTypeOK'
    OBVIOUS
  <2>1. ASSUME NEW e \in Executions,
               InvokeRecoveryHandler(e) \/ RecoveryHandlerStep(e)
        PROVE  RecoveryTypeOK'
    BY <2>1, RecoveryStepType
  <2>2. CASE EcsNext /\ UNCHANGED srh
    BY <2>2, EcsStepType DEF RecoveryTypeOK
  <2>3. CASE UNCHANGED recoveryVars
    BY <2>3 DEF recoveryVars, ecsVars, envVars, RecoveryTypeOK, EnvTypeOK,
                EcsTypeOK
  <2>4. QED
    BY <2>1, <2>2, <2>3 DEF RecoveryNext
<1>3. QED
  BY <1>1, <1>2, PTL DEF RecoverySpec

-----------------------------------------------------------------------------

(***************************************************************************)
(* Why an answer ecs_healthy stays true while nothing is disturbed: from   *)
(* update_service on, nobody but Terraform changes the desired count, and  *)
(* ECS only stops a task of a service that has more than it is asked for.  *)
(***************************************************************************)
Calm == disturbances = 0 /\ applies = 0

CapacityInv ==
    Calm => \A e \in Executions :
              /\ srh[e].pc = "polling" => ecs.desired = DesiredCount
              /\ srh[e].healthy => /\ ecs.desired = DesiredCount
                                   /\ ecs.running >= DesiredCount

(***************************************************************************)
(* ECS keeps CapacityInv: it does not change the desired count, and does   *)
(* not go below it.                                                        *)
(***************************************************************************)
LEMMA EcsKeepsCapacity ==
    ASSUME RecoveryTypeOK, CapacityInv, EcsNext, UNCHANGED srh, Calm'
    PROVE  /\ Calm
           /\ ecs'.desired = ecs.desired
           /\ ecs.running >= ecs.desired => ecs'.running >= ecs.desired
<1> USE DEF RecoveryTypeOK, EnvTypeOK, EcsTypeOK, Service, Calm
<1>1. CASE TaskPlaced
  BY <1>1 DEF TaskPlaced, envVars
<1>2. CASE TaskStarts
  BY <1>2 DEF TaskStarts, envVars
<1>3. CASE TaskStopped
  <2>1. Calm
    BY <1>3 DEF TaskStopped, envVars
  <2>2. CASE ecs.pending > 0
    BY <1>3, <2>1, <2>2 DEF TaskStopped
  <2>3. CASE ~(ecs.pending > 0)
    <3>1. ecs' = WithRunning(ecs.running - 1) /\ ecs.running > ecs.desired
      BY <1>3, <2>3 DEF TaskStopped
    <3>2. ecs'.desired = ecs.desired /\ ecs'.running = ecs.running - 1
      BY <3>1 DEF WithRunning
    <3>3. QED
      BY <2>1, <3>1, <3>2
  <2>4. QED
    BY <2>2, <2>3
<1>4. CASE TaskDies
  BY <1>4 DEF TaskDies, Disturbance
<1>5. CASE TargetHealthy
  BY <1>5 DEF TargetHealthy, envVars
<1>6. CASE RolloutCompletes
  BY <1>6 DEF RolloutCompletes, envVars
<1>7. CASE TerraformApply
  BY <1>7 DEF TerraformApply
<1>8. QED
  BY <1>1, <1>2, <1>3, <1>4, <1>5, <1>6, <1>7 DEF EcsNext

(***************************************************************************)
(* A handler keeps CapacityInv: only update_service (app.py:31-35) changes *)
(* the service, and only a poll that has seen the capacity (app.py:66)     *)
(* answers that it is there.                                               *)
(***************************************************************************)
LEMMA HandlerKeepsCapacity ==
    ASSUME RecoveryTypeOK, CapacityInv,
           NEW e \in Executions,
           InvokeRecoveryHandler(e) \/ RecoveryHandlerStep(e)
    PROVE  CapacityInv'
<1> SUFFICES ASSUME Calm', NEW f \in Executions
             PROVE  /\ srh'[f].pc = "polling" => ecs'.desired = DesiredCount
                    /\ srh'[f].healthy => /\ ecs'.desired = DesiredCount
                                          /\ ecs'.running >= DesiredCount
  BY DEF CapacityInv
<1> USE RecoveryAssumption
    DEF RecoveryTypeOK, EnvTypeOK, EcsTypeOK, Service, Recovery, CapacityInv,
        Calm, ecsVars, envVars
<1>1. CASE InvokeRecoveryHandler(e)
  BY <1>1 DEF InvokeRecoveryHandler
<1>2. CASE UpdateService(e)
  BY <1>2 DEF UpdateService
<1>3. CASE UpdateErrored(e)
  BY <1>3 DEF UpdateErrored, Answer, Fault
<1>4. CASE ServicePollConfirms(e)
  BY <1>4 DEF ServicePollConfirms, ServiceHealthy, Answer
<1>5. CASE ServicePollWaits(e)
  BY <1>5 DEF ServicePollWaits
<1>6. CASE RecoveryTimesOut(e)
  BY <1>6 DEF RecoveryTimesOut, Answer
<1>7. CASE DescribeServiceRaises(e)
  BY <1>7 DEF DescribeServiceRaises, Fault
<1>8. CASE RecoveryHandlerKilled(e)
  BY <1>8 DEF RecoveryHandlerKilled, Fault
<1>9. QED
  BY <1>1, <1>2, <1>3, <1>4, <1>5, <1>6, <1>7, <1>8 DEF RecoveryHandlerStep

(***************************************************************************)
(* An answer ecs_healthy = true keeps standing for capacity as long as no  *)
(* task dies and nobody applies Terraform.                                 *)
(***************************************************************************)
THEOREM CapacityCorrect == RecoverySpec => []HealthyMeansCapacity
<1>1. RecoveryInit => CapacityInv
  BY DEF RecoveryInit, RecoveryHandlerInit, CapacityInv
<1>2. RecoveryTypeOK /\ CapacityInv /\ [RecoveryNext]_recoveryVars
        => CapacityInv'
  <2> SUFFICES ASSUME RecoveryTypeOK, CapacityInv, [RecoveryNext]_recoveryVars
               PROVE  CapacityInv'
    OBVIOUS
  <2>1. ASSUME NEW e \in Executions,
               InvokeRecoveryHandler(e) \/ RecoveryHandlerStep(e)
        PROVE  CapacityInv'
    BY <2>1, HandlerKeepsCapacity
  <2>2. CASE EcsNext /\ UNCHANGED srh
    BY <2>2, EcsKeepsCapacity DEF CapacityInv
  <2>3. CASE UNCHANGED recoveryVars
    BY <2>3 DEF recoveryVars, ecsVars, envVars, CapacityInv, Calm
  <2>4. QED
    BY <2>1, <2>2, <2>3 DEF RecoveryNext
<1>3. CapacityInv => HealthyMeansCapacity
  BY DEF CapacityInv, HealthyMeansCapacity, Calm
<1>4. QED
  BY <1>1, <1>2, <1>3, RecoveryTypeCorrect, PTL DEF RecoverySpec
=============================================================================
