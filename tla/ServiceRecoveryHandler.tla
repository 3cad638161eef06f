----------------------- MODULE ServiceRecoveryHandler -----------------------
(***************************************************************************)
(* src/lambdas/service-recovery-handler/app.py: sets the desired count of  *)
(* the DR service and polls until the service runs that many tasks.        *)
(***************************************************************************)
EXTENDS EcsService

CONSTANTS
    DesiredCount,           \* DR_DESIRED_COUNT
    EcsPollInterval,        \* POLL_INTERVAL_SECONDS
    EcsMaxWait,             \* MAX_WAIT_SECONDS
    EcsLambdaTimeout        \* locals.tf: checks["service-recovery-handler"]

ASSUME RecoveryAssumption ==
    /\ DesiredCount \in Nat \ {0}
    /\ EcsPollInterval \in Nat \ {0}
    /\ EcsMaxWait \in Nat \ {0}
    /\ EcsLambdaTimeout \in Nat \ {0}

VARIABLE
    srh         \* what each invocation is doing, and what it returned

recoveryVars == <<ecsVars, srh>>

\* "update": about to call update_service; "polling": in the loop.
Recovery ==
    [pc      : {"idle", "update", "polling", "returned", "failed"},
     waited  : Nat,
     scaled  : BOOLEAN,     \* ecs_scaled
     healthy : BOOLEAN]     \* ecs_healthy

RecoveryTypeOK ==
    /\ EnvTypeOK
    /\ EcsTypeOK
    /\ srh \in [Executions -> Recovery]

RecoveryHandlerInit ==
    srh = [e \in Executions |->
             [pc |-> "idle", waited |-> 0, scaled |-> FALSE, healthy |-> FALSE]]

RecoveryInit ==
    /\ EnvInit
    /\ EcsInit
    /\ RecoveryHandlerInit

-----------------------------------------------------------------------------

Answer(e, scaled, healthy) ==
    srh' = [srh EXCEPT ![e] = [@ EXCEPT !.pc = "returned", !.scaled = scaled,
                                        !.healthy = healthy]]

\* (mutant of ServiceHealthy) any running task will do.
ServiceHealthyOneTask(s) ==
    /\ s.running > 0
    /\ s.pending = 0
    /\ s.rollout

\* running_count >= desired_count and pending_count == 0 and rollout_ok
ServiceHealthy(s) ==
    /\ s.running >= DesiredCount
    /\ s.pending = 0
    /\ s.rollout

InvokeRecoveryHandler(e) ==
    /\ srh[e].pc = "idle"
    /\ srh' = [srh EXCEPT ![e].pc = "update"]
    /\ UNCHANGED ecsVars

\* (mutant of UpdateService) one task too few.
UpdateServiceOneShort(e) ==
    /\ srh[e].pc = "update"
    /\ ecs' = [ecs EXCEPT !.desired = DesiredCount - 1]
    /\ srh' = [srh EXCEPT ![e] = [@ EXCEPT !.pc = "polling", !.waited = 0]]
    /\ UNCHANGED <<applies, envVars>>

UpdateService(e) ==
    /\ srh[e].pc = "update"
    /\ ecs' = [ecs EXCEPT !.desired = DesiredCount]
    /\ srh' = [srh EXCEPT ![e] = [@ EXCEPT !.pc = "polling", !.waited = 0]]
    /\ UNCHANGED <<applies, envVars>>

\* update_service raised; the request may have been carried out all the same.
UpdateErrored(e) ==
    /\ srh[e].pc = "update"
    /\ Fault
    /\ \/ UNCHANGED ecs
       \/ ecs' = [ecs EXCEPT !.desired = DesiredCount]
    /\ Answer(e, FALSE, FALSE)
    /\ UNCHANGED applies

RecoveryInTime(e) == srh[e].waited < EcsLambdaTimeout

ServicePollConfirms(e) ==
    /\ srh[e].pc = "polling"
    /\ RecoveryInTime(e)
    /\ srh[e].waited < EcsMaxWait
    /\ ServiceHealthy(ecs)
    /\ Answer(e, TRUE, TRUE)
    /\ UNCHANGED ecsVars

\* (mutant of ServicePollWaits) the wait is counted down.
ServicePollCountsDown(e) ==
    /\ srh[e].pc = "polling"
    /\ RecoveryInTime(e)
    /\ srh[e].waited < EcsMaxWait
    /\ ~ServiceHealthy(ecs)
    /\ srh' = [srh EXCEPT ![e].waited = @ - EcsPollInterval]
    /\ UNCHANGED ecsVars

ServicePollWaits(e) ==
    /\ srh[e].pc = "polling"
    /\ RecoveryInTime(e)
    /\ srh[e].waited < EcsMaxWait
    /\ ~ServiceHealthy(ecs)
    /\ srh' = [srh EXCEPT ![e].waited = @ + EcsPollInterval]
    /\ UNCHANGED ecsVars

\* The counts of the last look, after the loop, are only reported.
RecoveryTimesOut(e) ==
    /\ srh[e].pc = "polling"
    /\ RecoveryInTime(e)
    /\ srh[e].waited >= EcsMaxWait
    /\ Answer(e, TRUE, FALSE)
    /\ UNCHANGED ecsVars

\* describe_service raises, for a failed call, a failure in the answer or a
\* service that is not there.
DescribeServiceRaises(e) ==
    /\ srh[e].pc = "polling"
    /\ Fault
    /\ srh' = [srh EXCEPT ![e].pc = "failed"]
    /\ UNCHANGED <<ecs, applies>>

\* Lambda kills the invocation at its timeout, before the loop is over or
\* because a call hangs; update_service may have been carried out by then.
RecoveryHandlerKilled(e) ==
    /\ srh[e].pc \in {"update", "polling"}
    /\ \/ srh[e].pc = "polling" /\ ~RecoveryInTime(e) /\ UNCHANGED envVars
       \/ Fault
    /\ \/ srh[e].pc = "update" /\ ecs' = [ecs EXCEPT !.desired = DesiredCount]
       \/ UNCHANGED ecs
    /\ srh' = [srh EXCEPT ![e].pc = "failed"]
    /\ UNCHANGED applies

RecoveryHandlerStep(e) ==
    \/ UpdateService(e)
    \/ UpdateErrored(e)
    \/ ServicePollConfirms(e)
    \/ ServicePollWaits(e)
    \/ RecoveryTimesOut(e)
    \/ DescribeServiceRaises(e)
    \/ RecoveryHandlerKilled(e)

RecoveryNext ==
    \/ \E e \in Executions : InvokeRecoveryHandler(e) \/ RecoveryHandlerStep(e)
    \/ EcsNext /\ UNCHANGED srh

RecoverySpec == RecoveryInit /\ [][RecoveryNext]_recoveryVars

\* Lambda runs an invocation to its end; ECS and the ALB do their work.
RecoveryFairSpec ==
    /\ RecoverySpec
    /\ EcsFairness
    /\ \A e \in Executions : WF_recoveryVars(RecoveryHandlerStep(e))

-----------------------------------------------------------------------------

(***************************************************************************)
(* An answer ecs_healthy = true (app.py:66-75) stands for capacity: as     *)
(* long as no task dies and nobody applies Terraform, the service keeps    *)
(* running DesiredCount tasks, whatever other invocations are doing.       *)
(***************************************************************************)
HealthyMeansCapacity ==
    \A e \in Executions :
        (srh[e].healthy /\ disturbances = 0 /\ applies = 0)
          => ecs.running >= DesiredCount

(***************************************************************************)
(* The scaling outlives the handler: when update_service (app.py:31-35) is *)
(* about to be called and nothing else goes wrong, DesiredCount targets    *)
(* become healthy even if the handler stops waiting before they do.        *)
(***************************************************************************)
ScalingTakesEffect ==
    \A e \in Executions :
        (srh[e].pc = "update" /\ Undisturbed /\ applies = MaxApplies)
          ~> (ecs.healthy >= DesiredCount)
=============================================================================
