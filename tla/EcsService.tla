----------------------------- MODULE EcsService -----------------------------
(***************************************************************************)
(* The DR ECS service and its ALB target group, as the failover Lambdas    *)
(* meet them: src/lambdas/service-recovery-handler/app.py sets the desired *)
(* count and reads the counts, ECS starts and stops tasks towards it, the  *)
(* ALB adds a task's address once its health checks have passed, and       *)
(* `terraform apply' of dr/ecs sets the desired count of ecs.tfvars again. *)
(***************************************************************************)
EXTENDS AwsEnvironment

CONSTANTS
    TerraformDesired,   \* ecs_task_desired_count of dr/ecs/ecs.tfvars: 0
    MaxApplies          \* bound: terraform applies of dr/ecs

ASSUME EcsAssumption ==
    /\ TerraformDesired \in Nat
    /\ MaxApplies \in Nat

VARIABLES
    ecs,
    applies

ecsVars == <<ecs, applies, envVars>>

Service ==
    [desired : Nat,         \* desiredCount
     running : Nat,         \* runningCount
     pending : Nat,         \* pendingCount
     rollout : BOOLEAN,     \* every rolloutState is None or COMPLETED
     healthy : Nat]         \* targets of the DR target group that are healthy

EcsTypeOK ==
    /\ ecs \in Service
    /\ applies \in Nat

\* The service as dr/ecs creates it; its first deployment may be in progress.
EcsInit ==
    /\ \E rollout \in BOOLEAN :
         ecs = [desired |-> TerraformDesired, running |-> 0, pending |-> 0,
                rollout |-> rollout, healthy |-> 0]
    /\ applies = 0

-----------------------------------------------------------------------------

Smaller(a, b) == IF a < b THEN a ELSE b

\* Targets of tasks that are gone are no longer healthy.
WithRunning(n) ==
    [ecs EXCEPT !.running = n, !.healthy = Smaller(ecs.healthy, n)]

TaskPlaced ==
    /\ ecs.running + ecs.pending < ecs.desired
    /\ ecs' = [ecs EXCEPT !.pending = @ + 1]
    /\ UNCHANGED <<applies, envVars>>

TaskStarts ==
    /\ ecs.pending > 0
    /\ ecs' = [ecs EXCEPT !.pending = @ - 1, !.running = @ + 1]
    /\ UNCHANGED <<applies, envVars>>

TaskStopped ==
    /\ ecs.running + ecs.pending > ecs.desired
    /\ ecs' = IF ecs.pending > 0 THEN [ecs EXCEPT !.pending = @ - 1]
                                 ELSE WithRunning(ecs.running - 1)
    /\ UNCHANGED <<applies, envVars>>

TaskDies ==
    /\ ecs.running > 0
    /\ Disturbance
    /\ ecs' = WithRunning(ecs.running - 1)
    /\ UNCHANGED applies

\* The ALB's health checks of a running task pass.
TargetHealthy ==
    /\ ecs.healthy < ecs.running
    /\ ecs' = [ecs EXCEPT !.healthy = @ + 1]
    /\ UNCHANGED <<applies, envVars>>

RolloutCompletes ==
    /\ ~ecs.rollout
    /\ ecs.running = ecs.desired
    /\ ecs.pending = 0
    /\ ecs' = [ecs EXCEPT !.rollout = TRUE]
    /\ UNCHANGED <<applies, envVars>>

\* Nothing in modules/ecs ignores a changed desired_count; the apply may also
\* roll out a new task definition.
TerraformApply ==
    /\ applies < MaxApplies
    /\ applies' = applies + 1
    /\ \E rollout \in {ecs.rollout, FALSE} :
         ecs' = [ecs EXCEPT !.desired = TerraformDesired, !.rollout = rollout]
    /\ UNCHANGED envVars

EcsNext ==
    \/ TaskPlaced
    \/ TaskStarts
    \/ TaskStopped
    \/ TaskDies
    \/ TargetHealthy
    \/ RolloutCompletes
    \/ TerraformApply

\* ECS and the ALB work towards the desired count.
EcsFairness ==
    /\ WF_ecsVars(TaskPlaced)
    /\ WF_ecsVars(TaskStarts)
    /\ WF_ecsVars(TaskStopped)
    /\ WF_ecsVars(TargetHealthy)
    /\ WF_ecsVars(RolloutCompletes)
=============================================================================
