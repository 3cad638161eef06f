--------------------------- MODULE DeploymentPlan ---------------------------
(***************************************************************************)
(* The Terraform stacks, what each reads of the remote state of others,    *)
(* and the steps of deploy.sh and destroy.sh in their order.  These are    *)
(* the values of the constants of module Deployment.                       *)
(***************************************************************************)
EXTENDS Sequences

\* Each stack's terraform_remote_state data sources.
PrimaryRdsInputs == {"global/iam", "primary/network"}
PrimaryS3Inputs == {"primary/network"}
PrimaryAlbInputs == {"primary/network"}
ReadReplicaInputs == {"dr/network", "primary/rds"}
DrS3Inputs == {"primary/s3", "global/iam", "dr/network"}
DrAlbInputs == {"dr/network"}
CdnDnsInputs ==
    {"global/oac", "primary/s3", "dr/s3", "primary/alb", "dr/alb"}
PrimaryEcsInputs ==
    {"primary/network", "primary/rds", "primary/alb", "global/iam",
     "global/cdn_dns"}
DrEcsInputs ==
    {"dr/network", "dr/alb", "global/iam", "dr/read_replica_rds",
     "global/cdn_dns"}
OrchestrationInputs == {"dr/read_replica_rds", "dr/network", "global/iam"}
AlarmInputs == {"primary/alb"}

\* Keyed as STACK_VARS is; the environments/bootstrap stack is applied by hand.
StackVars ==
    {"global/iam", "global/oac", "primary/network", "primary/rds",
     "dr/network", "primary/s3", "primary/alb", "dr/read_replica_rds",
     "dr/s3", "dr/alb", "global/cdn_dns", "primary/ecs", "dr/ecs",
     "primary/failover_alarms", "operations/dr_orchestration"}

RemoteState ==
    [s \in StackVars |->
        CASE s = "primary/rds"                 -> PrimaryRdsInputs
          [] s = "primary/s3"                  -> PrimaryS3Inputs
          [] s = "primary/alb"                 -> PrimaryAlbInputs
          [] s = "dr/read_replica_rds"         -> ReadReplicaInputs
          [] s = "dr/s3"                       -> DrS3Inputs
          [] s = "dr/alb"                      -> DrAlbInputs
          [] s = "global/cdn_dns"              -> CdnDnsInputs
          [] s = "primary/ecs"                 -> PrimaryEcsInputs
          [] s = "dr/ecs"                      -> DrEcsInputs
          [] s = "operations/dr_orchestration" -> OrchestrationInputs
          [] s = "primary/failover_alarms"     -> AlarmInputs
          [] OTHER                             -> {}]

-----------------------------------------------------------------------------

StepOf(op, on) == [op |-> op, on |-> on]
DeployStack(s) == StepOf("apply", s)
\* deploy_stack once cloudfront_distribution_arn and ecs_task_role_arn are in
\* the stack's STACK_VARS.
DeployWithPolicy(s) == StepOf("policy", s)
DestroyStack(s) == StepOf("destroy", s)

\* deploy.sh, part by part.
Foundations ==
    <<DeployStack("global/iam"), DeployStack("global/oac"),
      DeployStack("primary/network"),
      DeployStack("primary/rds"), DeployStack("primary/rds"),
      StepOf("setup", "primary/rds")>>

Sites ==
    <<DeployStack("dr/network"), DeployStack("primary/s3"),
      DeployStack("primary/alb"), DeployStack("dr/read_replica_rds"),
      DeployStack("dr/s3"), DeployStack("dr/alb"),
      DeployStack("global/cdn_dns")>>

Images == <<StepOf("push", "primary"), StepOf("push", "dr")>>

Services == <<DeployStack("primary/ecs"), DeployStack("dr/ecs")>>

BucketPolicies ==
    <<DeployWithPolicy("primary/s3"), DeployWithPolicy("dr/s3")>>

Operations ==
    <<DeployStack("operations/dr_orchestration"),
      DeployStack("primary/failover_alarms")>>

DeploySequence ==
    Foundations \o Sites \o Images \o Services \o BucketPolicies \o Operations

\* destroy.sh, part by part.
ServiceTeardown ==
    <<DestroyStack("primary/failover_alarms"),
      DestroyStack("operations/dr_orchestration"),
      DestroyStack("dr/ecs"), DestroyStack("primary/ecs")>>

RepositoryCleanup == <<StepOf("clean", "primary"), StepOf("clean", "dr")>>

\* init_stack "primary/s3" (line 134) changes nothing.
SiteTeardown ==
    <<DestroyStack("global/cdn_dns"), DestroyStack("dr/alb"),
      DestroyStack("dr/s3"), DestroyStack("dr/read_replica_rds"),
      DestroyStack("primary/alb"), DestroyStack("primary/s3")>>

FoundationTeardown ==
    <<DestroyStack("dr/network"), DestroyStack("primary/rds"),
      DestroyStack("primary/network"),
      DestroyStack("global/oac"), DestroyStack("global/iam")>>

DestroySequence ==
    ServiceTeardown \o RepositoryCleanup \o SiteTeardown \o FoundationTeardown
=============================================================================
