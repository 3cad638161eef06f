----------------------------- MODULE Deployment -----------------------------
(***************************************************************************)
(* deploy.sh and destroy.sh.  Both run under `set -e': a step that fails   *)
(* ends the job, and what was done stays done.  A job may be followed by   *)
(* any other: a deployment is repeated, a half deployed platform is        *)
(* destroyed, a half destroyed one deployed again.  Jobs do not overlap.   *)
(*                                                                         *)
(* `terraform apply' and, on a stack that is not empty, `terraform         *)
(* destroy' first evaluate the stack's data sources; a remote state that   *)
(* lacks an output the stack reads is an error.  The constants take their  *)
(* values from module DeploymentPlan.                                      *)
(***************************************************************************)
EXTENDS DbCredentials, Sequences

CONSTANTS
    Stacks,         \* the stacks of stacks_config.sh
    InputsOf,       \* [Stacks -> SUBSET Stacks]: whose outputs a stack reads
    MediaStacks,    \* the stacks with a media bucket
    Regions,        \* where the image is pushed to
    DeploySteps,    \* the steps of deploy.sh
    DestroySteps,   \* the steps of destroy.sh
    HelperInPlace,  \* deploy.sh finds the image script at the path it names
    MaxJobs         \* bound: runs of the two scripts

PrimaryRds == "primary/rds"
ReplicaRds == "dr/read_replica_rds"

Steps ==
    [op : {"apply", "policy", "destroy"}, on : Stacks]
        \cup [op : {"setup"}, on : {PrimaryRds}]
        \cup [op : {"push", "clean"}, on : Regions]

ASSUME DeploymentAssumption ==
    /\ InputsOf \in [Stacks -> SUBSET Stacks]
    /\ {PrimaryRds, ReplicaRds} \subseteq Stacks
    /\ PrimaryRds \in InputsOf[ReplicaRds]
    /\ MediaStacks \subseteq Stacks \ {PrimaryRds, ReplicaRds}
    /\ DeploySteps \in Seq(Steps)
    /\ DestroySteps \in Seq(Steps)
    /\ HelperInPlace \in BOOLEAN
    /\ MaxJobs \in Nat

VARIABLES
    built,          \* stacks with resources in AWS and in their state
    outputs,        \* stacks whose outputs are in the remote state
    policies,       \* media stacks whose bucket policy is in force
    images,         \* regions whose ECR repository holds the image
    job,            \* the script that runs, or ran last
    jobs            \* jobs started so far

platformVars == <<built, outputs, policies, images>>
vars == <<platformVars, job, jobs, credentialVars>>

Job ==
    [script : {"deploy", "destroy"},
     at     : Nat \ {0},                        \* the step it is at
     state  : {"none", "running", "failed", "done"},
     called : BOOLEAN,      \* aws lambda invoke waits for its answer
     struck : BOOLEAN]      \* something failed that is not the scripts' doing

DeploymentTypeOK ==
    /\ CredentialsTypeOK
    /\ built \subseteq Stacks
    /\ outputs \subseteq built
    /\ policies \subseteq MediaStacks \cap built
    /\ images \subseteq Regions
    /\ job \in Job
    /\ jobs \in Nat

DeploymentInit ==
    /\ CredentialsInit
    /\ built = {} /\ outputs = {} /\ policies = {} /\ images = {}
    /\ job = [script |-> "deploy", at |-> 1, state |-> "none",
              called |-> FALSE, struck |-> FALSE]
    /\ jobs = 0

-----------------------------------------------------------------------------

\* (mutant of Script) destroy.sh takes the stacks in the order of creation.
ScriptInOrderOfCreation(name) ==
    IF name = "deploy" THEN DeploySteps
    ELSE [i \in DOMAIN DestroySteps |->
            DestroySteps[Len(DestroySteps) + 1 - i]]

Script(name) == IF name = "deploy" THEN DeploySteps ELSE DestroySteps

\* The job is at a step of this kind on s.
At(op, s) ==
    /\ job.state = "running"
    /\ job.at \in DOMAIN Script(job.script)
    /\ Script(job.script)[job.at].op = op
    /\ Script(job.script)[job.at].on = s

StepDone ==
    job' = [job EXCEPT !.at = @ + 1, !.called = FALSE]

Failed == job' = [job EXCEPT !.state = "failed", !.called = FALSE]

\* (mutant of Struck) The scripts without `set -e'.
StruckGoesOn ==
    /\ Fault
    /\ job' = [job EXCEPT !.at = @ + 1, !.called = FALSE, !.struck = TRUE]

Struck ==
    /\ Fault
    /\ job' = [job EXCEPT !.state = "failed", !.called = FALSE,
                          !.struck = TRUE]

StartJob(name) ==
    /\ job.state # "running"
    /\ jobs < MaxJobs
    /\ jobs' = jobs + 1
    /\ job' = [script |-> name, at |-> 1, state |-> "running",
               called |-> FALSE, struck |-> FALSE]
    /\ UNCHANGED <<platformVars, credentialVars>>

JobDone ==
    /\ job.state = "running"
    /\ job.at \notin DOMAIN Script(job.script)
    /\ job' = [job EXCEPT !.state = "done"]
    /\ UNCHANGED <<platformVars, jobs, credentialVars>>

-----------------------------------------------------------------------------

\* The data sources of s can be read.
Plannable(s) ==
    /\ InputsOf[s] \subseteq outputs
    /\ s = ReplicaRds => SecretReadable

\* Without cloudfront_distribution_arn and ecs_task_role_arn the policy has no
\* statement, and then the bucket has no policy.
PolicyAfter(op, s) ==
    IF s \notin MediaStacks THEN policies
    ELSE IF op = "policy" THEN policies \cup {s} ELSE policies \ {s}

ApplyStack(op, s) ==
    /\ At(op, s)
    /\ Plannable(s)
    /\ built' = built \cup {s}
    /\ outputs' = outputs \cup {s}
    /\ policies' = PolicyAfter(op, s)
    /\ IF s = ReplicaRds THEN CopySecret ELSE UNCHANGED drSecret
    /\ StepDone
    /\ UNCHANGED <<images, jobs, password, secret, setup, generated, faults>>

\* An apply that stops on the way, after any part of its work.
ApplyFails(op, s) ==
    /\ At(op, s)
    /\ Plannable(s)
    /\ built' = built \cup {s}
    /\ outputs' \in {outputs, outputs \cup {s}}
    /\ policies' \in {policies, PolicyAfter(op, s)}
    /\ \/ UNCHANGED drSecret
       \/ s = ReplicaRds /\ CopySecret
    /\ Struck
    /\ UNCHANGED <<images, jobs, password, secret, setup, generated>>

-----------------------------------------------------------------------------

InvokeSetup ==
    /\ At("setup", PrimaryRds)
    /\ ~job.called
    /\ SetupInvoked
    /\ job' = [job EXCEPT !.called = TRUE]
    /\ UNCHANGED <<platformVars, jobs>>

SetupWorks ==
    /\ SetUserPassword \/ PutSecretValue
    /\ UNCHANGED <<platformVars, job, jobs>>

\* The invocation fails; aws lambda invoke succeeds all the same, and no one
\* reads the FunctionError in its answer.
SetupRaises ==
    /\ SetupFails
    /\ job' = [job EXCEPT !.struck = @ \/ job.called]
    /\ UNCHANGED <<platformVars, jobs>>

\* (mutant of SetupReturns) Invoked as an event: no one waits.
SetupReturnsAtOnce ==
    /\ At("setup", PrimaryRds)
    /\ job.called
    /\ StepDone
    /\ UNCHANGED <<platformVars, jobs, credentialVars>>

SetupReturns ==
    /\ At("setup", PrimaryRds)
    /\ job.called
    /\ setup.pc = "idle"
    /\ StepDone
    /\ UNCHANGED <<platformVars, jobs, credentialVars>>

-----------------------------------------------------------------------------

\* A command the shell does not find ends the job, too.
PushImage(r) ==
    /\ At("push", r)
    /\ IF HelperInPlace THEN images' = images \cup {r} /\ StepDone
                        ELSE images' = images /\ Failed
    /\ UNCHANGED <<built, outputs, policies, jobs, credentialVars>>

\* delete-repository is followed by `|| true'.
CleanRepository(r) ==
    /\ At("clean", r)
    /\ \/ images' = images \ {r} /\ UNCHANGED faults
       \/ images' = images /\ Fault
    /\ StepDone
    /\ UNCHANGED <<built, outputs, policies, jobs, storedVars, setup, generated>>

-----------------------------------------------------------------------------

\* A stack with an empty state has nothing to refresh and nothing to destroy.
DestroyNothing(s) ==
    /\ At("destroy", s)
    /\ s \notin built
    /\ StepDone
    /\ UNCHANGED <<platformVars, jobs, credentialVars>>

\* (mutant of Drop) The remote state keeps the outputs.
DropResources(s) ==
    /\ built' = built \ {s}
    /\ policies' = policies \ {s}
    /\ UNCHANGED outputs

Drop(s) ==
    /\ built' = built \ {s}
    /\ outputs' = outputs \ {s}
    /\ policies' = policies \ {s}

DestroyBuilt(s) ==
    /\ At("destroy", s)
    /\ s \in built
    /\ Plannable(s)
    /\ Drop(s)
    /\ IF s = PrimaryRds THEN DropPrimary ELSE UNCHANGED <<password, secret, setup>>
    /\ drSecret' = IF s = ReplicaRds THEN None ELSE drSecret
    /\ StepDone
    /\ UNCHANGED <<images, jobs, generated, faults>>

\* A destroy that stops on the way.
DestroyFails(s) ==
    /\ At("destroy", s)
    /\ s \in built
    /\ Plannable(s)
    /\ outputs' \in {outputs, outputs \ {s}}
    /\ policies' \in {policies, policies \ {s}}
    /\ IF s = PrimaryRds
       THEN DropPrimaryPartly ELSE UNCHANGED <<password, secret, setup>>
    /\ IF s = ReplicaRds
       THEN drSecret' \in {drSecret, None} ELSE UNCHANGED drSecret
    /\ Struck
    /\ UNCHANGED <<built, images, jobs, generated>>

\* A data source of a stack that is to be applied, or is there to be
\* destroyed, cannot be read: the plan is an error, and `set -e' ends the job.
PlanRefused(op, s) ==
    /\ At(op, s)
    /\ op = "destroy" => s \in built
    /\ ~Plannable(s)
    /\ Failed
    /\ UNCHANGED <<platformVars, jobs, credentialVars>>

\* The runner is lost, the role session ends, or a call of the CLI fails.
JobKilled ==
    /\ job.state = "running"
    /\ Struck
    /\ UNCHANGED <<platformVars, jobs, storedVars, setup, generated>>

-----------------------------------------------------------------------------

DeploymentNext ==
    \/ \E name \in {"deploy", "destroy"} : StartJob(name)
    \/ JobDone
    \/ \E op \in {"apply", "policy"}, s \in Stacks :
         ApplyStack(op, s) \/ ApplyFails(op, s)
    \/ InvokeSetup \/ SetupWorks \/ SetupRaises \/ SetupReturns
    \/ \E r \in Regions : PushImage(r) \/ CleanRepository(r)
    \/ \E s \in Stacks :
         DestroyNothing(s) \/ DestroyBuilt(s) \/ DestroyFails(s)
    \/ \E op \in {"apply", "policy", "destroy"}, s \in Stacks :
         PlanRefused(op, s)
    \/ JobKilled

DeploymentSpec == DeploymentInit /\ [][DeploymentNext]_vars

-----------------------------------------------------------------------------

(***************************************************************************)
(* The order of the steps: a stack is applied after the stacks it reads,   *)
(* the setup Lambda runs between the primary database and the replica, and *)
(* a stack is destroyed before the stacks it reads (deploy.sh:46-122,      *)
(* destroy.sh:73-143).                                                     *)
(***************************************************************************)
Done(steps, n, ops, s) == \E j \in 1..n : steps[j].op \in ops /\ steps[j].on = s

DeployOrdered ==
    \A i \in DOMAIN DeploySteps :
        /\ DeploySteps[i].op \in {"apply", "policy", "setup", "push"}
        /\ DeploySteps[i].op \in {"apply", "policy"} =>
             \A t \in InputsOf[DeploySteps[i].on] :
                Done(DeploySteps, i - 1, {"apply", "policy"}, t)
        /\ DeploySteps[i].op = "setup" =>
             Done(DeploySteps, i - 1, {"apply", "policy"}, PrimaryRds)
        /\ DeploySteps[i].on = ReplicaRds =>
             Done(DeploySteps, i - 1, {"setup"}, PrimaryRds)

DestroyOrdered ==
    \A i \in DOMAIN DestroySteps :
        /\ DestroySteps[i].op \in {"destroy", "clean"}
        /\ DestroySteps[i].op = "destroy" =>
             \A t \in Stacks :
                DestroySteps[i].on \in InputsOf[t] =>
                    Done(DestroySteps, i - 1, {"destroy"}, t)

DestroyComplete ==
    \A s \in Stacks : Done(DestroySteps, Len(DestroySteps), {"destroy"}, s)

PlanOrdered == DeployOrdered /\ DestroyOrdered /\ DestroyComplete

\* The last of the first n steps that sets the policy of s is followed by no
\* plain apply, which would take it off again.
WithPolicy(n, s) ==
    \E j \in 1..n :
        /\ DeploySteps[j].op = "policy" /\ DeploySteps[j].on = s
        /\ \A k \in ((j + 1)..n) \cap DOMAIN DeploySteps :
             DeploySteps[k].on = s => DeploySteps[k].op # "apply"

(***************************************************************************)
(* deploy.sh leaves nothing out: it applies every stack, leaves every      *)
(* media stack with its policy, pushes the image to every region, and      *)
(* changes no password once the replica has its copy (deploy.sh:46-122).   *)
(***************************************************************************)
DeployComplete ==
    LET n == Len(DeploySteps) IN
    /\ \A s \in Stacks : Done(DeploySteps, n, {"apply", "policy"}, s)
    /\ \A s \in MediaStacks : WithPolicy(n, s)
    /\ \A r \in Regions : Done(DeploySteps, n, {"push"}, r)
    /\ \A i \in DOMAIN DeploySteps :
         DeploySteps[i].op = "setup" =>
            ~Done(DeploySteps, i - 1, {"apply", "policy"}, ReplicaRds)

(***************************************************************************)
(* A script stops early only when something outside it fails: whatever     *)
(* earlier jobs have left half done, the order of the stacks               *)
(* (deploy.sh:46-122, destroy.sh:73-143) has every remote state ready      *)
(* before it is read.  (README.md:985 for destroy.sh.)                     *)
(***************************************************************************)
OnlyFaultsStopJobs == job.state = "failed" => job.struck

(***************************************************************************)
(* No stack is left in AWS without the stacks whose resources it uses,     *)
(* neither by a teardown nor by one that stopped on the way                *)
(* (destroy.sh:73-143).                                                    *)
(***************************************************************************)
InputsOutlive == \A s \in built : InputsOf[s] \subseteq built

(***************************************************************************)
(* `Deployment complete!' (deploy.sh:126) is true: every stack is there,   *)
(* both buckets have the policy the first pass takes off again, and the    *)
(* DR secret is a copy of the primary's, although a failure of the setup   *)
(* Lambda goes unnoticed.                                                  *)
(***************************************************************************)
CompleteDeployment ==
    job.state = "done" /\ job.script = "deploy" =>
        /\ outputs = Stacks
        /\ policies = MediaStacks
        /\ images = Regions
        /\ drSecret = secret /\ secret # None

(***************************************************************************)
(* After a deployment in which nothing failed both secrets hold the        *)
(* password of the database user, whatever failed in earlier jobs between  *)
(* ALTER USER and put_secret_value (primary-db-setup/app.py:64-95).        *)
(***************************************************************************)
SecretsOpenDatabase ==
    job.state = "done" /\ job.script = "deploy" /\ ~job.struck =>
        password = secret /\ password = drSecret

(***************************************************************************)
(* `All resources have been successfully destroyed!' (destroy.sh:146) is   *)
(* true of the stacks and of the credentials in them.                      *)
(***************************************************************************)
CompleteTeardown ==
    job.state = "done" /\ job.script = "destroy" =>
        built = {} /\ password = None /\ secret = None /\ drSecret = None
=============================================================================
