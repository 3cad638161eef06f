-------------------------- MODULE DeploymentProofs --------------------------
(***************************************************************************)
(* Theorems about deploy.sh and destroy.sh for any stacks, any remote      *)
(* state they read, any scripts whose steps are in order (PlanOrdered) and *)
(* any number of jobs and faults.                                          *)
(***************************************************************************)
EXTENDS Deployment, TLAPS

Running(name) == job.state = "running" /\ job.script = name

(***************************************************************************)
(* What is built finds all it reads in the remote state.                   *)
(***************************************************************************)
BuiltOnOutputs == \A s \in built : InputsOf[s] \subseteq outputs

(***************************************************************************)
(* What a running script has passed is done.                               *)
(***************************************************************************)
DeployProgress ==
    Running("deploy") =>
        \A s \in Stacks :
            Done(DeploySteps, job.at - 1, {"apply", "policy"}, s) => s \in outputs

DestroyProgress ==
    Running("destroy") =>
        \A s \in Stacks :
            Done(DestroySteps, job.at - 1, {"destroy"}, s) => s \notin built

(***************************************************************************)
(* The credentials live and die with the stacks that hold them.            *)
(***************************************************************************)
CredentialsInv ==
    /\ setup.pc = "store" => setup.password # None
    /\ PrimaryRds \notin built =>
         setup.pc = "idle" /\ password = None /\ secret = None
    /\ ReplicaRds \notin built => drSecret = None
    /\ ReplicaRds \in built => secret # None

(***************************************************************************)
(* A deployment in which nothing failed is past the setup step only with a *)
(* version of the secret.                                                  *)
(***************************************************************************)
SetupInv ==
    /\ job.called => At("setup", PrimaryRds)
    /\ job.called /\ ~job.struck => setup.pc # "idle" \/ secret # None
    /\ /\ Running("deploy")
       /\ ~job.struck
       /\ Done(DeploySteps, job.at - 1, {"setup"}, PrimaryRds)
       => secret # None

-----------------------------------------------------------------------------

(***************************************************************************)
(* The step a job is at is one of the steps of its script.                 *)
(***************************************************************************)
LEMMA StepType ==
    ASSUME DeploymentTypeOK, NEW op, NEW s, At(op, s)
    PROVE  /\ Script(job.script) \in Seq(Steps)
           /\ job.at \in 1..Len(Script(job.script))
           /\ Script(job.script)[job.at] \in Steps
<1>1. Script(job.script) \in Seq(Steps)
  BY DeploymentAssumption DEF Script
<1>2. job.at \in 1..Len(Script(job.script))
  BY <1>1 DEF At
<1>3. QED
  BY <1>1, <1>2

(***************************************************************************)
(* The changes of a job's record keep its type.                            *)
(***************************************************************************)
LEMMA JobType ==
    ASSUME job \in Job
    PROVE  /\ StepDone => job' \in Job
           /\ Failed => job' \in Job
           /\ Struck => job' \in Job
<1>1. job.at + 1 \in Nat \ {0}
  BY DEF Job
<1>2. StepDone => job' \in Job
  BY <1>1 DEF Job, StepDone
<1>3. QED
  BY <1>2 DEF Job, Failed, Struck

(***************************************************************************)
(* Every step keeps the types.                                             *)
(***************************************************************************)
LEMMA DeploymentStepType ==
    ASSUME DeploymentTypeOK, [DeploymentNext]_vars
    PROVE  DeploymentTypeOK'
<1> USE DEF DeploymentTypeOK, CredentialsTypeOK
<1>1. ASSUME NEW name \in {"deploy", "destroy"}, StartJob(name)
      PROVE  DeploymentTypeOK'
  <2>1. job' \in Job
    BY <1>1 DEF StartJob, Job
  <2>2. QED
    BY <1>1, <2>1 DEF StartJob, platformVars, credentialVars, storedVars
<1>2. CASE JobDone
  <2>1. job' \in Job
    BY <1>2 DEF JobDone, Job
  <2>2. QED
    BY <1>2, <2>1 DEF JobDone, platformVars, credentialVars, storedVars
<1>3. ASSUME NEW op \in {"apply", "policy"}, NEW s \in Stacks,
             ApplyStack(op, s)
      PROVE  DeploymentTypeOK'
  <2>1. policies' \subseteq MediaStacks \cap built'
    BY <1>3 DEF ApplyStack, PolicyAfter
  <2>2. drSecret' \in Nat
    BY <1>3 DEF ApplyStack, CopySecret
  <2>3. job' \in Job
    BY <1>3, JobType DEF ApplyStack
  <2>4. QED
    BY <1>3, <2>1, <2>2, <2>3 DEF ApplyStack
<1>4. ASSUME NEW op \in {"apply", "policy"}, NEW s \in Stacks,
             ApplyFails(op, s)
      PROVE  DeploymentTypeOK'
  <2>1. policies' \subseteq MediaStacks \cap built'
    BY <1>4 DEF ApplyFails, PolicyAfter
  <2>2. drSecret' \in Nat
    BY <1>4 DEF ApplyFails, CopySecret
  <2>3. job' \in Job
    BY <1>4, JobType DEF ApplyFails
  <2>4. faults' \in Nat
    BY <1>4 DEF ApplyFails, Struck, Fault
  <2>5. QED
    BY <1>4, <2>1, <2>2, <2>3, <2>4 DEF ApplyFails
<1>5. CASE InvokeSetup
  <2>1. job' \in Job
    BY <1>5 DEF InvokeSetup, Job
  <2>2. setup' \in Setup
    BY <1>5 DEF InvokeSetup, SetupInvoked, Setup, None
  <2>3. QED
    BY <1>5, <2>1, <2>2
       DEF InvokeSetup, SetupInvoked, platformVars, storedVars
<1>6. CASE SetupWorks
  <2>1. CASE SetUserPassword
    <3>1. setup' \in Setup
      BY <2>1 DEF SetUserPassword, Setup
    <3>2. QED
      BY <1>6, <2>1, <3>1 DEF SetupWorks, SetUserPassword, platformVars
  <2>2. CASE PutSecretValue
    <3>1. setup' \in Setup /\ secret' \in Nat
      BY <2>2 DEF PutSecretValue, Setup
    <3>2. QED
      BY <1>6, <2>2, <3>1 DEF SetupWorks, PutSecretValue, platformVars
  <2>3. QED
    BY <1>6, <2>1, <2>2 DEF SetupWorks
<1>7. CASE SetupRaises
  <2>1. job' \in Job
    BY <1>7 DEF SetupRaises, Job
  <2>2. setup' \in Setup
    BY <1>7 DEF SetupRaises, SetupFails, Setup
  <2>3. QED
    BY <1>7, <2>1, <2>2
       DEF SetupRaises, SetupFails, Fault, platformVars, storedVars
<1>8. CASE SetupReturns
  <2>1. job' \in Job
    BY <1>8, JobType DEF SetupReturns
  <2>2. QED
    BY <1>8, <2>1 DEF SetupReturns, platformVars, credentialVars, storedVars
<1>9. ASSUME NEW r \in Regions, PushImage(r)
      PROVE  DeploymentTypeOK'
  <2>1. job' \in Job
    BY <1>9, JobType DEF PushImage
  <2>2. QED
    BY <1>9, <2>1 DEF PushImage, credentialVars, storedVars
<1>10. ASSUME NEW r \in Regions, CleanRepository(r)
       PROVE  DeploymentTypeOK'
  <2>1. job' \in Job
    BY <1>10, JobType DEF CleanRepository
  <2>2. images' \subseteq Regions /\ faults' \in Nat
    BY <1>10 DEF CleanRepository, Fault
  <2>3. QED
    BY <1>10, <2>1, <2>2 DEF CleanRepository, storedVars
<1>11. ASSUME NEW s \in Stacks, DestroyNothing(s)
       PROVE  DeploymentTypeOK'
  <2>1. job' \in Job
    BY <1>11, JobType DEF DestroyNothing
  <2>2. QED
    BY <1>11, <2>1 DEF DestroyNothing, platformVars, credentialVars, storedVars
<1>12. ASSUME NEW s \in Stacks, DestroyBuilt(s)
       PROVE  DeploymentTypeOK'
  <2>1. /\ password' \in Nat /\ secret' \in Nat /\ drSecret' \in Nat
        /\ setup' \in Setup
    BY <1>12 DEF DestroyBuilt, DropPrimary, Setup, None
  <2>2. job' \in Job
    BY <1>12, JobType DEF DestroyBuilt
  <2>3. QED
    BY <1>12, <2>1, <2>2 DEF DestroyBuilt, Drop
<1>13. ASSUME NEW s \in Stacks, DestroyFails(s)
       PROVE  DeploymentTypeOK'
  <2>1. /\ password' \in Nat /\ secret' \in Nat /\ drSecret' \in Nat
        /\ setup' \in Setup
    BY <1>13 DEF DestroyFails, DropPrimaryPartly, Setup, None
  <2>2. job' \in Job
    BY <1>13, JobType DEF DestroyFails
  <2>3. faults' \in Nat
    BY <1>13 DEF DestroyFails, Struck, Fault
  <2>4. QED
    BY <1>13, <2>1, <2>2, <2>3 DEF DestroyFails
<1>14. ASSUME NEW op \in {"apply", "policy", "destroy"}, NEW s \in Stacks,
              PlanRefused(op, s)
       PROVE  DeploymentTypeOK'
  <2>1. job' \in Job
    BY <1>14, JobType DEF PlanRefused
  <2>2. QED
    BY <1>14, <2>1 DEF PlanRefused, platformVars, credentialVars, storedVars
<1>15. CASE JobKilled
  <2>1. job' \in Job
    BY <1>15, JobType DEF JobKilled
  <2>2. faults' \in Nat
    BY <1>15 DEF JobKilled, Struck, Fault
  <2>3. QED
    BY <1>15, <2>1, <2>2 DEF JobKilled, platformVars, storedVars
<1>16. CASE UNCHANGED vars
  BY <1>16 DEF vars, platformVars, credentialVars, storedVars
<1>17. QED
  BY <1>1, <1>2, <1>3, <1>4, <1>5, <1>6, <1>7, <1>8, <1>9, <1>10, <1>11,
     <1>12, <1>13, <1>14, <1>15, <1>16 DEF DeploymentNext

(***************************************************************************)
(* Type correctness of the two scripts and of what they act on.            *)
(***************************************************************************)
THEOREM DeploymentTypeCorrect == DeploymentSpec => []DeploymentTypeOK
<1>1. DeploymentInit => DeploymentTypeOK
  BY DEF DeploymentInit, DeploymentTypeOK, CredentialsInit,
         CredentialsTypeOK, Setup, Job, None
<1>2. DeploymentTypeOK /\ [DeploymentNext]_vars => DeploymentTypeOK'
  BY DeploymentStepType
<1>3. QED
  BY <1>1, <1>2, PTL DEF DeploymentSpec

-----------------------------------------------------------------------------

(***************************************************************************)
(* Steps that have been passed.                                            *)
(***************************************************************************)
LEMMA DoneNext ==
    ASSUME NEW steps, NEW n \in Nat \ {0}, NEW ops, NEW s
    PROVE  Done(steps, (n + 1) - 1, ops, s)
             => \/ Done(steps, n - 1, ops, s)
                \/ steps[n].op \in ops /\ steps[n].on = s
<1>1. \A j \in 1..((n + 1) - 1) : j \in 1..(n - 1) \/ j = n
  OBVIOUS
<1>2. QED
  BY <1>1 DEF Done

(***************************************************************************)
(* Before its first step a script has done nothing.                        *)
(***************************************************************************)
LEMMA DoneNothing ==
    ASSUME NEW steps, NEW ops, NEW s
    PROVE  ~Done(steps, 1 - 1, ops, s)
BY DEF Done

(***************************************************************************)
(* What the ends of a step do to the job.                                  *)
(***************************************************************************)
LEMMA JobFields ==
    ASSUME DeploymentTypeOK
    PROVE  /\ StepDone => /\ job'.at = job.at + 1
                          /\ job'.script = job.script
                          /\ job'.state = job.state
                          /\ job'.struck = job.struck
                          /\ job'.called = FALSE
           /\ Failed \/ Struck => /\ job'.script = job.script
                                  /\ job'.state = "failed"
                                  /\ job'.called = FALSE
           /\ Failed => job'.struck = job.struck
           /\ Struck => job'.struck = TRUE
BY DEF DeploymentTypeOK, Job, StepDone, Failed, Struck

(***************************************************************************)
(* What the order of the scripts says of the step a job is at.             *)
(***************************************************************************)
LEMMA AtApply ==
    ASSUME DeploymentTypeOK, PlanOrdered,
           NEW op \in {"apply", "policy"}, NEW s \in Stacks, At(op, s)
    PROVE  /\ Running("deploy")
           /\ DeploySteps[job.at].op = op /\ DeploySteps[job.at].on = s
           /\ \A t \in InputsOf[s] :
                Done(DeploySteps, job.at - 1, {"apply", "policy"}, t)
           /\ s = ReplicaRds => Done(DeploySteps, job.at - 1, {"setup"}, PrimaryRds)
<1>1. job.script \in {"deploy", "destroy"}
  BY DEF DeploymentTypeOK, Job
<1>2. job.script # "destroy"
  BY DEF PlanOrdered, DestroyOrdered, At, Script
<1>3. QED
  BY <1>1, <1>2 DEF PlanOrdered, DeployOrdered, At, Script, Running

(***************************************************************************)
(* At the step that sets the database up, deploy.sh runs and has applied   *)
(* the primary's RDS stack (deploy.sh 38-54).                              *)
(***************************************************************************)
LEMMA AtSetup ==
    ASSUME DeploymentTypeOK, PlanOrdered, At("setup", PrimaryRds)
    PROVE  /\ Running("deploy")
           /\ DeploySteps[job.at].op = "setup"
           /\ Done(DeploySteps, job.at - 1, {"apply", "policy"}, PrimaryRds)
<1>1. job.script \in {"deploy", "destroy"}
  BY DEF DeploymentTypeOK, Job
<1>2. job.script # "destroy"
  BY DEF PlanOrdered, DestroyOrdered, At, Script
<1>3. QED
  BY <1>1, <1>2 DEF PlanOrdered, DeployOrdered, At, Script, Running

(***************************************************************************)
(* Images are pushed by deploy.sh alone.                                   *)
(***************************************************************************)
LEMMA AtPush ==
    ASSUME DeploymentTypeOK, PlanOrdered, NEW r \in Regions, At("push", r)
    PROVE  Running("deploy") /\ DeploySteps[job.at].op = "push"
<1>1. job.script \in {"deploy", "destroy"}
  BY DEF DeploymentTypeOK, Job
<1>2. job.script # "destroy"
  BY DEF PlanOrdered, DestroyOrdered, At, Script
<1>3. QED
  BY <1>1, <1>2 DEF At, Script, Running

(***************************************************************************)
(* A stack is destroyed by destroy.sh alone, and after every stack that    *)
(* reads its outputs.                                                      *)
(***************************************************************************)
LEMMA AtDestroy ==
    ASSUME DeploymentTypeOK, PlanOrdered, NEW s \in Stacks, At("destroy", s)
    PROVE  /\ Running("destroy")
           /\ DestroySteps[job.at].op = "destroy" /\ DestroySteps[job.at].on = s
           /\ \A t \in Stacks :
                s \in InputsOf[t] =>
                    Done(DestroySteps, job.at - 1, {"destroy"}, t)
<1>1. job.script \in {"deploy", "destroy"}
  BY DEF DeploymentTypeOK, Job
<1>2. job.script # "deploy"
  BY DEF PlanOrdered, DeployOrdered, At, Script
<1>3. QED
  BY <1>1, <1>2 DEF PlanOrdered, DestroyOrdered, At, Script, Running

(***************************************************************************)
(* Repositories are emptied by destroy.sh alone.                           *)
(***************************************************************************)
LEMMA AtClean ==
    ASSUME DeploymentTypeOK, PlanOrdered, NEW r \in Regions, At("clean", r)
    PROVE  Running("destroy") /\ DestroySteps[job.at].op = "clean"
<1>1. job.script \in {"deploy", "destroy"}
  BY DEF DeploymentTypeOK, Job
<1>2. job.script # "deploy"
  BY DEF PlanOrdered, DeployOrdered, At, Script
<1>3. QED
  BY <1>1, <1>2 DEF At, Script, Running

-----------------------------------------------------------------------------

(***************************************************************************)
(* Every step keeps what is built on what it reads, and a script's         *)
(* progress.                                                               *)
(***************************************************************************)
OrderInv == BuiltOnOutputs /\ DeployProgress /\ DestroyProgress

(***************************************************************************)
(* OrderInv does not look at more than the stacks built, their outputs,    *)
(* and the place of the job.                                               *)
(***************************************************************************)
LEMMA OrderFrame ==
    ASSUME DeploymentTypeOK, OrderInv,
           built' = built, outputs \subseteq outputs',
           \/ job'.state # "running"
           \/ /\ job'.state = job.state
              /\ job'.script = job.script
              /\ job'.at = job.at
    PROVE  OrderInv'
<1>1. BuiltOnOutputs'
  BY DEF OrderInv, BuiltOnOutputs
<1>2. DeployProgress'
  BY DEF OrderInv, DeployProgress, Running, Done
<1>3. DestroyProgress'
  BY DEF OrderInv, DestroyProgress, Running, Done
<1>4. QED
  BY <1>1, <1>2, <1>3 DEF OrderInv

\* A step that is neither an apply nor a destroy.
LEMMA OrderPassed ==
    ASSUME DeploymentTypeOK, OrderInv, StepDone,
           built' = built, outputs' = outputs,
           \/ Running("deploy")
                /\ DeploySteps[job.at].op \notin {"apply", "policy"}
           \/ Running("destroy") /\ DestroySteps[job.at].op # "destroy"
    PROVE  OrderInv'
<1>0. job.at \in Nat \ {0}
  BY DEF DeploymentTypeOK, Job
<1>1. BuiltOnOutputs'
  BY DEF OrderInv, BuiltOnOutputs
<1>2. DeployProgress'
  <2>1. SUFFICES ASSUME Running("deploy"), NEW s \in Stacks,
                        Done(DeploySteps, (job.at + 1) - 1, {"apply", "policy"}, s)
                 PROVE  s \in outputs
    BY JobFields DEF DeployProgress, Running, Done
  <2>2. DeploySteps[job.at].op \notin {"apply", "policy"}
    BY <2>1 DEF Running
  <2>3. Done(DeploySteps, job.at - 1, {"apply", "policy"}, s)
    BY <1>0, <2>1, <2>2, DoneNext
  <2>4. QED
    BY <2>1, <2>3 DEF OrderInv, DeployProgress
<1>3. DestroyProgress'
  <2>1. SUFFICES ASSUME Running("destroy"), NEW s \in Stacks,
                        Done(DestroySteps, (job.at + 1) - 1, {"destroy"}, s)
                 PROVE  s \notin built
    BY JobFields DEF DestroyProgress, Running, Done
  <2>2. DestroySteps[job.at].op \notin {"destroy"}
    BY <2>1 DEF Running
  <2>3. Done(DestroySteps, job.at - 1, {"destroy"}, s)
    BY <1>0, <2>1, <2>2, DoneNext
  <2>4. QED
    BY <2>1, <2>3 DEF OrderInv, DestroyProgress
<1>4. QED
  BY <1>1, <1>2, <1>3 DEF OrderInv

(***************************************************************************)
(* An applied stack is built on outputs that are there.                    *)
(***************************************************************************)
LEMMA OrderApplied ==
    ASSUME DeploymentTypeOK, PlanOrdered, OrderInv,
           NEW op \in {"apply", "policy"}, NEW s \in Stacks, ApplyStack(op, s)
    PROVE  OrderInv'
<1>0. job.at \in Nat \ {0}
  BY DEF DeploymentTypeOK, Job
<1>1. BuiltOnOutputs'
  BY DEF OrderInv, BuiltOnOutputs, ApplyStack, Plannable
<1>2. At(op, s) /\ StepDone
  BY DEF ApplyStack
<1>3. Running("deploy") /\ DeploySteps[job.at].on = s
  BY <1>2, AtApply
<1>4. DeployProgress'
  <2>1. SUFFICES ASSUME NEW t \in Stacks,
                        Done(DeploySteps, (job.at + 1) - 1, {"apply", "policy"}, t)
                 PROVE  t \in outputs'
    BY <1>2, JobFields DEF DeployProgress, Running, Done
  <2>2. Done(DeploySteps, job.at - 1, {"apply", "policy"}, t) \/ t = s
    BY <1>0, <1>3, <2>1, DoneNext
  <2>3. QED
    BY <1>3, <2>2 DEF OrderInv, DeployProgress, ApplyStack
<1>5. DestroyProgress'
  BY <1>2, <1>3, JobFields DEF DestroyProgress, Running
<1>6. QED
  BY <1>1, <1>4, <1>5 DEF OrderInv

\* When a stack is destroyed nothing that reads it is built any more.
LEMMA ReadersGone ==
    ASSUME DeploymentTypeOK, PlanOrdered, DestroyProgress,
           NEW s \in Stacks, At("destroy", s),
           NEW t \in Stacks, s \in InputsOf[t]
    PROVE  t \notin built
BY AtDestroy DEF DestroyProgress

(***************************************************************************)
(* A destroyed stack leaves none that was built on it.                     *)
(***************************************************************************)
LEMMA OrderDestroyed ==
    ASSUME DeploymentTypeOK, PlanOrdered, OrderInv,
           NEW s \in Stacks, DestroyNothing(s) \/ DestroyBuilt(s)
    PROVE  OrderInv'
<1>0. job.at \in Nat \ {0}
  BY DEF DeploymentTypeOK, Job
<1>1. /\ At("destroy", s) /\ StepDone
      /\ built' = built \ {s}
      /\ outputs' = outputs \ {s} \/ outputs' = outputs
  BY DEF DestroyNothing, DestroyBuilt, Drop, platformVars
<1>2. BuiltOnOutputs'
  <2>1. SUFFICES ASSUME NEW t \in built \ {s}
                 PROVE  InputsOf[t] \subseteq outputs'
    BY <1>1 DEF BuiltOnOutputs
  <2>2. t \in Stacks /\ InputsOf[t] \subseteq outputs
    BY DEF OrderInv, BuiltOnOutputs, DeploymentTypeOK
  <2>3. s \notin InputsOf[t]
    BY <1>1, <2>2, ReadersGone DEF OrderInv
  <2>4. QED
    BY <1>1, <2>2, <2>3
<1>3. Running("destroy") /\ DestroySteps[job.at].on = s
  BY <1>1, AtDestroy
<1>4. DestroyProgress'
  <2>1. SUFFICES ASSUME NEW t \in Stacks,
                        Done(DestroySteps, (job.at + 1) - 1, {"destroy"}, t)
                 PROVE  t \notin built'
    BY <1>1, JobFields DEF DestroyProgress, Running, Done
  <2>2. Done(DestroySteps, job.at - 1, {"destroy"}, t) \/ t = s
    BY <1>0, <1>3, <2>1, DoneNext
  <2>3. QED
    BY <1>1, <1>3, <2>2 DEF OrderInv, DestroyProgress
<1>5. DeployProgress'
  BY <1>1, <1>3, JobFields DEF DeployProgress, Running
<1>6. QED
  BY <1>2, <1>4, <1>5 DEF OrderInv

(***************************************************************************)
(* A step that fails stops the job and keeps the order.                    *)
(***************************************************************************)
LEMMA OrderStopped ==
    ASSUME DeploymentTypeOK, PlanOrdered, OrderInv, NEW s \in Stacks,
           \/ DestroyFails(s)
           \/ \E op \in {"apply", "policy"} : ApplyFails(op, s)
    PROVE  OrderInv'
<1>1. job'.state = "failed"
  BY JobFields DEF DestroyFails, ApplyFails
<1>2. BuiltOnOutputs'
  <2>1. CASE DestroyFails(s)
    <3>1. SUFFICES ASSUME NEW t \in built
                   PROVE  InputsOf[t] \subseteq outputs'
      BY <2>1 DEF BuiltOnOutputs, DestroyFails
    <3>2. t \in Stacks /\ InputsOf[t] \subseteq outputs
      BY DEF OrderInv, BuiltOnOutputs, DeploymentTypeOK
    <3>3. s \notin InputsOf[t]
      BY <2>1, <3>2, ReadersGone DEF OrderInv, DestroyFails
    <3>4. QED
      BY <2>1, <3>2, <3>3 DEF DestroyFails
  <2>2. ASSUME NEW op \in {"apply", "policy"}, ApplyFails(op, s)
        PROVE  BuiltOnOutputs'
    BY <2>2 DEF OrderInv, BuiltOnOutputs, ApplyFails, Plannable
  <2>3. QED
    BY <2>1, <2>2
<1>3. DeployProgress' /\ DestroyProgress'
  BY <1>1 DEF DeployProgress, DestroyProgress, Running
<1>4. QED
  BY <1>2, <1>3 DEF OrderInv

(***************************************************************************)
(* Every step keeps the stacks built on outputs that are there.            *)
(***************************************************************************)
LEMMA OrderStep ==
    ASSUME DeploymentTypeOK, PlanOrdered, OrderInv, [DeploymentNext]_vars
    PROVE  OrderInv'
<1>1. ASSUME NEW name \in {"deploy", "destroy"}, StartJob(name)
      PROVE  OrderInv'
  <2>1. built' = built /\ outputs' = outputs /\ job'.at = 1
    BY <1>1 DEF StartJob, platformVars
  <2>2. BuiltOnOutputs'
    BY <2>1 DEF OrderInv, BuiltOnOutputs
  <2>3. DeployProgress' /\ DestroyProgress'
    BY <2>1, DoneNothing DEF DeployProgress, DestroyProgress, Done
  <2>4. QED
    BY <2>2, <2>3 DEF OrderInv
<1>2. CASE JobDone
  <2>1. job'.state = "done"
    BY <1>2 DEF JobDone, DeploymentTypeOK, Job
  <2>2. QED
    BY <1>2, <2>1, OrderFrame DEF JobDone, platformVars
<1>3. ASSUME NEW op \in {"apply", "policy"}, NEW s \in Stacks,
             ApplyStack(op, s) \/ ApplyFails(op, s)
      PROVE  OrderInv'
  BY <1>3, OrderApplied, OrderStopped
<1>4. CASE InvokeSetup \/ SetupWorks \/ SetupRaises
  <2>1. /\ job'.state = job.state /\ job'.script = job.script
        /\ job'.at = job.at
    BY <1>4 DEF InvokeSetup, SetupWorks, SetupRaises, DeploymentTypeOK, Job
  <2>2. built' = built /\ outputs' = outputs
    BY <1>4 DEF InvokeSetup, SetupWorks, SetupRaises, platformVars
  <2>3. QED
    BY <2>1, <2>2, OrderFrame
<1>5. CASE SetupReturns
  <2>1. StepDone /\ built' = built /\ outputs' = outputs
    BY <1>5 DEF SetupReturns, platformVars
  <2>2. Running("deploy") /\ DeploySteps[job.at].op = "setup"
    BY <1>5, AtSetup DEF SetupReturns
  <2>3. QED
    BY <2>1, <2>2, OrderPassed
<1>6. ASSUME NEW r \in Regions, PushImage(r)
      PROVE  OrderInv'
  <2>1. built' = built /\ outputs' = outputs
    BY <1>6 DEF PushImage
  <2>2. CASE HelperInPlace
    <3>1. Running("deploy") /\ DeploySteps[job.at].op = "push"
      BY <1>6, AtPush DEF PushImage
    <3>2. StepDone
      BY <1>6, <2>2 DEF PushImage
    <3>3. QED
      BY <2>1, <3>1, <3>2, OrderPassed
  <2>3. CASE ~HelperInPlace
    <3>1. job'.state = "failed"
      BY <1>6, <2>3, JobFields DEF PushImage
    <3>2. QED
      BY <2>1, <3>1, OrderFrame
  <2>4. QED
    BY <2>2, <2>3
<1>7. ASSUME NEW r \in Regions, CleanRepository(r)
      PROVE  OrderInv'
  <2>1. StepDone /\ built' = built /\ outputs' = outputs
    BY <1>7 DEF CleanRepository
  <2>2. Running("destroy") /\ DestroySteps[job.at].op = "clean"
    BY <1>7, AtClean DEF CleanRepository
  <2>3. QED
    BY <2>1, <2>2, OrderPassed
<1>8. ASSUME NEW s \in Stacks,
             DestroyNothing(s) \/ DestroyBuilt(s) \/ DestroyFails(s)
      PROVE  OrderInv'
  BY <1>8, OrderDestroyed, OrderStopped
<1>9. ASSUME NEW op \in {"apply", "policy", "destroy"}, NEW s \in Stacks,
             PlanRefused(op, s)
      PROVE  OrderInv'
  <2>1. job'.state = "failed" /\ built' = built /\ outputs' = outputs
    BY <1>9, JobFields DEF PlanRefused, platformVars
  <2>2. QED
    BY <2>1, OrderFrame
<1>10. CASE JobKilled
  <2>1. job'.state = "failed" /\ built' = built /\ outputs' = outputs
    BY <1>10, JobFields DEF JobKilled, platformVars
  <2>2. QED
    BY <2>1, OrderFrame
<1>11. CASE UNCHANGED vars
  BY <1>11, OrderFrame DEF vars, platformVars
<1>12. QED
  BY <1>1, <1>2, <1>3, <1>4, <1>5, <1>6, <1>7, <1>8, <1>9, <1>10, <1>11
     DEF DeploymentNext

(***************************************************************************)
(* No stack outlives what it is built on, whatever the stacks, if the two  *)
(* scripts go through them in order.                                       *)
(***************************************************************************)
THEOREM InputsCorrect ==
    ASSUME PlanOrdered
    PROVE  DeploymentSpec => []InputsOutlive
<1>1. DeploymentInit => OrderInv
  BY DEF DeploymentInit, OrderInv, BuiltOnOutputs, DeployProgress,
         DestroyProgress, Running
<1>2. DeploymentTypeOK /\ OrderInv /\ [DeploymentNext]_vars => OrderInv'
  BY OrderStep
<1>3. DeploymentTypeOK /\ OrderInv => InputsOutlive
  BY DEF DeploymentTypeOK, OrderInv, BuiltOnOutputs, InputsOutlive
<1>4. QED
  BY <1>1, <1>2, <1>3, DeploymentTypeCorrect, PTL DEF DeploymentSpec

-----------------------------------------------------------------------------

(***************************************************************************)
(* Every step keeps the credentials with their stacks.                     *)
(***************************************************************************)
LEMMA CredentialsFrame ==
    ASSUME CredentialsInv,
           built' = built, UNCHANGED storedVars,
           setup' = setup
    PROVE  CredentialsInv'
BY DEF CredentialsInv, storedVars

(***************************************************************************)
(* Terraform's stacks leave the password, the secret and the setup in      *)
(* step.                                                                   *)
(***************************************************************************)
LEMMA CredentialsApplied ==
    ASSUME DeploymentTypeOK, CredentialsInv,
           NEW op \in {"apply", "policy"}, NEW s \in Stacks,
           ApplyStack(op, s) \/ ApplyFails(op, s)
    PROVE  CredentialsInv'
<1>1. /\ built' = built \cup {s}
      /\ password' = password /\ secret' = secret /\ setup' = setup
      /\ drSecret' = drSecret \/ s = ReplicaRds
      /\ s = ReplicaRds => secret # None
  BY DEF ApplyStack, ApplyFails, Plannable, SecretReadable
<1>2. QED
  BY <1>1 DEF CredentialsInv

(***************************************************************************)
(* The setup Lambda runs while the primary's RDS stack is in place, and    *)
(* has made the password it goes on to store.                              *)
(***************************************************************************)
LEMMA CredentialsSetup ==
    ASSUME DeploymentTypeOK, PlanOrdered, OrderInv, CredentialsInv,
           InvokeSetup \/ SetupWorks \/ SetupRaises \/ SetupReturns
    PROVE  CredentialsInv'
<1>0. setup \in Setup /\ generated \in Nat /\ outputs \subseteq built
  BY DEF DeploymentTypeOK, CredentialsTypeOK
<1>1. CASE InvokeSetup
  <2>1. PrimaryRds \in built
    BY <1>0, <1>1, AtSetup, DeploymentAssumption
       DEF InvokeSetup, OrderInv, DeployProgress
  <2>2. setup'.pc = "user"
    BY <1>1 DEF InvokeSetup, SetupInvoked
  <2>3. built' = built /\ UNCHANGED storedVars
    BY <1>1 DEF InvokeSetup, SetupInvoked, platformVars
  <2>4. QED
    BY <2>1, <2>2, <2>3 DEF CredentialsInv, storedVars
<1>2. CASE SetupWorks
  <2>1. PrimaryRds \in built /\ built' = built
    BY <1>2 DEF SetupWorks, SetUserPassword, PutSecretValue,
                CredentialsInv, platformVars
  <2>2. CASE SetUserPassword
    <3>1. setup'.password = generated + 1 /\ secret' = secret /\ drSecret' = drSecret
      BY <2>2 DEF SetUserPassword
    <3>2. generated + 1 # None
      BY <1>0 DEF None
    <3>3. QED
      BY <2>1, <3>1, <3>2 DEF CredentialsInv
  <2>3. CASE PutSecretValue
    <3>1. /\ setup'.pc = "idle" /\ secret' = setup.password
          /\ secret' # None /\ drSecret' = drSecret
      BY <1>0, <2>3 DEF PutSecretValue, CredentialsInv, Setup
    <3>2. QED
      BY <2>1, <3>1 DEF CredentialsInv
  <2>4. QED
    BY <1>2, <2>2, <2>3 DEF SetupWorks
<1>3. CASE SetupRaises
  <2>1. setup'.pc = "idle" /\ UNCHANGED storedVars /\ built' = built
    BY <1>0, <1>3 DEF SetupRaises, SetupFails, Setup, platformVars
  <2>2. QED
    BY <2>1 DEF CredentialsInv, storedVars
<1>4. CASE SetupReturns
  BY <1>4, CredentialsFrame DEF SetupReturns, platformVars, credentialVars
<1>5. QED
  BY <1>1, <1>2, <1>3, <1>4

(***************************************************************************)
(* What is destroyed of the credentials is destroyed as a whole.           *)
(***************************************************************************)
LEMMA CredentialsDestroyed ==
    ASSUME DeploymentTypeOK, PlanOrdered, OrderInv, CredentialsInv,
           NEW s \in Stacks, DestroyBuilt(s) \/ DestroyFails(s)
    PROVE  CredentialsInv'
<1>0. setup \in Setup
  BY DEF DeploymentTypeOK, CredentialsTypeOK
<1>1. CASE s = PrimaryRds
  <2>1. ReplicaRds \in Stacks /\ PrimaryRds \in InputsOf[ReplicaRds]
    BY DeploymentAssumption
  <2>2. ReplicaRds \notin built /\ PrimaryRds # ReplicaRds
    BY <1>1, <2>1, ReadersGone
       DEF OrderInv, DestroyBuilt, DestroyFails, PrimaryRds, ReplicaRds
  <2>3. setup'.pc = "idle" /\ drSecret' = drSecret
    BY <1>0, <1>1, <2>2
       DEF DestroyBuilt, DestroyFails, DropPrimary, DropPrimaryPartly, Setup
  <2>4. CASE DestroyBuilt(s)
    BY <1>1, <2>2, <2>3, <2>4
       DEF DestroyBuilt, Drop, DropPrimary, CredentialsInv
  <2>5. CASE DestroyFails(s)
    BY <1>1, <2>2, <2>3, <2>5 DEF DestroyFails, CredentialsInv
  <2>6. QED
    BY <2>4, <2>5
<1>2. CASE s # PrimaryRds
  <2>1. password' = password /\ secret' = secret /\ setup' = setup
    BY <1>2 DEF DestroyBuilt, DestroyFails
  <2>2. /\ s # ReplicaRds => drSecret' = drSecret
        /\ ReplicaRds \notin built => drSecret' = None
        /\ ReplicaRds \notin built' => drSecret' = None
        /\ built' \subseteq built
        /\ PrimaryRds \in built => PrimaryRds \in built'
    BY <1>2 DEF DestroyBuilt, DestroyFails, Drop, CredentialsInv
  <2>3. QED
    BY <2>1, <2>2 DEF CredentialsInv
<1>3. QED
  BY <1>1, <1>2

(***************************************************************************)
(* Every step of the scripts keeps what is known of the credentials.       *)
(***************************************************************************)
LEMMA CredentialsStep ==
    ASSUME DeploymentTypeOK, PlanOrdered, OrderInv, CredentialsInv,
           [DeploymentNext]_vars
    PROVE  CredentialsInv'
<1>1. ASSUME NEW op \in {"apply", "policy"}, NEW s \in Stacks,
             ApplyStack(op, s) \/ ApplyFails(op, s)
      PROVE  CredentialsInv'
  BY <1>1, CredentialsApplied
<1>2. CASE InvokeSetup \/ SetupWorks \/ SetupRaises \/ SetupReturns
  BY <1>2, CredentialsSetup
<1>3. ASSUME NEW s \in Stacks, DestroyBuilt(s) \/ DestroyFails(s)
      PROVE  CredentialsInv'
  BY <1>3, CredentialsDestroyed
<1>4. ASSUME built' = built, UNCHANGED <<storedVars, setup>>
      PROVE  CredentialsInv'
  BY <1>4, CredentialsFrame
<1>5. ASSUME NEW s \in Stacks, DestroyNothing(s)
      PROVE  CredentialsInv'
  BY <1>4, <1>5 DEF DestroyNothing, platformVars, credentialVars
<1>6. ASSUME NEW op, NEW s \in Stacks, PlanRefused(op, s)
      PROVE  CredentialsInv'
  BY <1>4, <1>6 DEF PlanRefused, platformVars, credentialVars
<1>7. ASSUME NEW r \in Regions, PushImage(r) \/ CleanRepository(r)
      PROVE  CredentialsInv'
  BY <1>4, <1>7 DEF PushImage, CleanRepository, credentialVars
<1>8. ASSUME NEW name, StartJob(name)
      PROVE  CredentialsInv'
  BY <1>4, <1>8 DEF StartJob, platformVars, credentialVars
<1>9. CASE JobDone \/ JobKilled \/ UNCHANGED vars
  BY <1>4, <1>9 DEF JobDone, JobKilled, vars, platformVars, credentialVars
<1>10. QED
  BY <1>1, <1>2, <1>3, <1>5, <1>6, <1>7, <1>8, <1>9 DEF DeploymentNext

-----------------------------------------------------------------------------

(***************************************************************************)
(* Every step keeps what a deployment knows of the setup Lambda.   *)
(***************************************************************************)
LEMMA SetupStopped ==
    ASSUME job'.state # "running", job'.called = FALSE
    PROVE  SetupInv'
BY DEF SetupInv, Running

\* A step of a deployment that is not the setup.
LEMMA SetupPassed ==
    ASSUME DeploymentTypeOK, SetupInv, StepDone, secret' = secret,
           Running("deploy"), DeploySteps[job.at].op # "setup"
    PROVE  SetupInv'
<1>1. job.at \in Nat \ {0} /\ job'.called = FALSE
  BY JobFields DEF DeploymentTypeOK, Job
<1>2. ASSUME ~job.struck,
             Done(DeploySteps, (job.at + 1) - 1, {"setup"}, PrimaryRds)
      PROVE  secret # None
  <2>1. DeploySteps[job.at].op \notin {"setup"}
    OBVIOUS
  <2>2. Done(DeploySteps, job.at - 1, {"setup"}, PrimaryRds)
    BY <1>1, <1>2, <2>1, DoneNext
  <2>3. QED
    BY <1>2, <2>2 DEF SetupInv
<1>3. QED
  BY <1>1, <1>2, JobFields DEF SetupInv, Running, Done

\* Any step of a teardown.
LEMMA SetupTornDown ==
    ASSUME DeploymentTypeOK, StepDone, Running("destroy")
    PROVE  SetupInv'
<1>1. job'.called = FALSE /\ job'.script = "destroy"
  BY JobFields DEF Running
<1>2. QED
  BY <1>1 DEF SetupInv, Running

(***************************************************************************)
(* The steps of the Lambda keep a called job at its step, with a Lambda at *)
(* work or a secret that has a version.                                    *)
(***************************************************************************)
LEMMA SetupLambda ==
    ASSUME DeploymentTypeOK, PlanOrdered, CredentialsInv, SetupInv,
           InvokeSetup \/ SetupWorks \/ SetupRaises \/ SetupReturns
    PROVE  SetupInv'
<1>0. job \in Job /\ setup \in Setup
  BY DEF DeploymentTypeOK, CredentialsTypeOK
<1>1. CASE InvokeSetup
  <2>1. /\ job' = [job EXCEPT !.called = TRUE]
        /\ setup'.pc = "user" /\ secret' = secret
    BY <1>1 DEF InvokeSetup, SetupInvoked, storedVars
  <2>2. At("setup", PrimaryRds)'
    BY <1>0, <1>1, <2>1 DEF InvokeSetup, At, Job
  <2>3. QED
    BY <1>0, <2>1, <2>2 DEF SetupInv, Running, Done, Job
<1>2. CASE SetupWorks
  <2>1. job' = job
    BY <1>2 DEF SetupWorks
  <2>2. At("setup", PrimaryRds)' <=> At("setup", PrimaryRds)
    BY <2>1 DEF At
  <2>3. CASE SetUserPassword
    <3>1. setup'.pc = "store" /\ secret' = secret
      BY <2>3 DEF SetUserPassword
    <3>2. QED
      BY <2>1, <2>2, <3>1 DEF SetupInv, Running, Done
  <2>4. CASE PutSecretValue
    <3>1. secret' # None
      BY <2>4 DEF PutSecretValue, CredentialsInv
    <3>2. QED
      BY <2>1, <2>2, <3>1 DEF SetupInv
  <2>5. QED
    BY <1>2, <2>3, <2>4 DEF SetupWorks
<1>3. CASE SetupRaises
  <2>1. /\ job' = [job EXCEPT !.struck = job.struck \/ job.called]
        /\ secret' = secret
    BY <1>3 DEF SetupRaises, SetupFails, storedVars
  <2>2. /\ job'.called = job.called /\ job'.at = job.at
        /\ job'.state = job.state /\ job'.script = job.script
        /\ job'.struck = (job.struck \/ job.called)
    BY <1>0, <2>1 DEF Job
  <2>3. At("setup", PrimaryRds)' <=> At("setup", PrimaryRds)
    BY <2>2 DEF At
  <2>4. QED
    BY <2>1, <2>2, <2>3 DEF SetupInv, Running, Done
<1>4. CASE SetupReturns
  <2>1. /\ StepDone /\ secret' = secret /\ job.called
        /\ setup.pc = "idle"
    BY <1>4 DEF SetupReturns, credentialVars, storedVars
  <2>2. ~job.struck => secret # None
    BY <2>1 DEF SetupInv
  <2>3. job'.called = FALSE /\ job'.struck = job.struck
    BY <2>1, JobFields
  <2>4. QED
    BY <2>1, <2>2, <2>3 DEF SetupInv
<1>5. QED
  BY <1>1, <1>2, <1>3, <1>4

(***************************************************************************)
(* Every step keeps what a job that is past the setup may rely on.         *)
(***************************************************************************)
LEMMA SetupStep ==
    ASSUME DeploymentTypeOK, PlanOrdered, CredentialsInv, SetupInv,
           [DeploymentNext]_vars
    PROVE  SetupInv'
<1>1. ASSUME NEW name, StartJob(name)
      PROVE  SetupInv'
  <2>1. job'.called = FALSE /\ job'.at = 1
    BY <1>1 DEF StartJob
  <2>2. QED
    BY <2>1, DoneNothing DEF SetupInv, Done
<1>2. CASE JobDone
  <2>1. ~At("setup", PrimaryRds)
    BY <1>2 DEF JobDone, At
  <2>2. job.called = FALSE
    BY <2>1 DEF SetupInv, DeploymentTypeOK, Job
  <2>3. job'.state = "done" /\ job'.called = FALSE
    BY <1>2, <2>2 DEF JobDone, DeploymentTypeOK, Job
  <2>4. QED
    BY <2>3, SetupStopped
<1>3. ASSUME NEW op \in {"apply", "policy"}, NEW s \in Stacks,
             ApplyStack(op, s)
      PROVE  SetupInv'
  <2>1. StepDone /\ secret' = secret
    BY <1>3 DEF ApplyStack
  <2>2. Running("deploy") /\ DeploySteps[job.at].op # "setup"
    BY <1>3, AtApply DEF ApplyStack
  <2>3. QED
    BY <2>1, <2>2, SetupPassed
<1>4. CASE InvokeSetup \/ SetupWorks \/ SetupRaises \/ SetupReturns
  BY <1>4, SetupLambda
<1>5. ASSUME NEW r \in Regions, PushImage(r)
      PROVE  SetupInv'
  <2>1. Running("deploy") /\ DeploySteps[job.at].op = "push"
    BY <1>5, AtPush DEF PushImage
  <2>2. secret' = secret
    BY <1>5 DEF PushImage, credentialVars, storedVars
  <2>3. StepDone \/ Failed
    BY <1>5 DEF PushImage
  <2>4. QED
    BY <2>1, <2>2, <2>3, SetupPassed, SetupStopped, JobFields
<1>6. ASSUME NEW r \in Regions, CleanRepository(r)
      PROVE  SetupInv'
  BY <1>6, AtClean, SetupTornDown DEF CleanRepository
<1>7. ASSUME NEW s \in Stacks, DestroyNothing(s) \/ DestroyBuilt(s)
      PROVE  SetupInv'
  BY <1>7, AtDestroy, SetupTornDown DEF DestroyNothing, DestroyBuilt
<1>8. CASE Failed \/ Struck
  BY <1>8, JobFields, SetupStopped
<1>9. CASE UNCHANGED vars
  BY <1>9 DEF vars, credentialVars, storedVars, SetupInv, At, Running, Done
<1>10. QED
  BY <1>1, <1>2, <1>3, <1>4, <1>5, <1>6, <1>7, <1>8, <1>9
     DEF DeploymentNext, ApplyFails, DestroyFails, PlanRefused, JobKilled

-----------------------------------------------------------------------------

(***************************************************************************)
(* A plan is only refused in a deployment whose setup Lambda failed.       *)
(***************************************************************************)
LEMMA RefusedMeansStruck ==
    ASSUME DeploymentTypeOK, PlanOrdered, OrderInv, CredentialsInv, SetupInv,
           NEW op \in {"apply", "policy", "destroy"}, NEW s \in Stacks,
           PlanRefused(op, s)
    PROVE  job.struck
<1>1. CASE op = "destroy"
  <2>1. s \in built /\ ~Plannable(s)
    BY <1>1 DEF PlanRefused
  <2>2. QED
    BY <2>1 DEF OrderInv, BuiltOnOutputs, CredentialsInv, Plannable,
                SecretReadable
<1>2. CASE op \in {"apply", "policy"}
  <2>1. At(op, s) /\ ~Plannable(s)
    BY DEF PlanRefused
  <2>2. Running("deploy")
    BY <1>2, <2>1, AtApply
  <2>3. InputsOf[s] \subseteq outputs
    <3>1. InputsOf[s] \subseteq Stacks
      BY DeploymentAssumption
    <3>2. QED
      BY <1>2, <2>1, <2>2, <3>1, AtApply DEF OrderInv, DeployProgress
  <2>4. s = ReplicaRds /\ secret = None
    BY <2>1, <2>3 DEF Plannable, SecretReadable
  <2>5. QED
    BY <1>2, <2>1, <2>2, <2>4, AtApply DEF SetupInv
<1>3. QED
  BY <1>1, <1>2

(***************************************************************************)
(* No step but a fault, or a Lambda that failed, stops a job.              *)
(***************************************************************************)
LEMMA StopStep ==
    ASSUME DeploymentTypeOK, PlanOrdered, HelperInPlace,
           OrderInv, CredentialsInv, SetupInv, OnlyFaultsStopJobs,
           [DeploymentNext]_vars
    PROVE  OnlyFaultsStopJobs'
<1>0. job \in Job
  BY DEF DeploymentTypeOK
<1>1. CASE Struck
  BY <1>1, JobFields DEF OnlyFaultsStopJobs
<1>2. CASE StepDone
  BY <1>2, JobFields DEF OnlyFaultsStopJobs
<1>3. ASSUME NEW op \in {"apply", "policy", "destroy"}, NEW s \in Stacks,
             PlanRefused(op, s)
      PROVE  OnlyFaultsStopJobs'
  <2>1. job.struck
    BY <1>3, RefusedMeansStruck
  <2>2. job'.struck = job.struck
    BY <1>3, JobFields DEF PlanRefused
  <2>3. QED
    BY <2>1, <2>2 DEF OnlyFaultsStopJobs
<1>4. ASSUME NEW name, StartJob(name)
      PROVE  OnlyFaultsStopJobs'
  BY <1>4 DEF StartJob, OnlyFaultsStopJobs
<1>5. CASE JobDone
  BY <1>0, <1>5 DEF JobDone, OnlyFaultsStopJobs, Job
<1>6. CASE InvokeSetup
  BY <1>0, <1>6 DEF InvokeSetup, OnlyFaultsStopJobs, Job
<1>7. CASE SetupWorks \/ UNCHANGED vars
  BY <1>7 DEF SetupWorks, OnlyFaultsStopJobs, vars
<1>8. CASE SetupRaises
  BY <1>0, <1>8 DEF SetupRaises, OnlyFaultsStopJobs, Job
<1>9. QED
  BY <1>1, <1>2, <1>3, <1>4, <1>5, <1>6, <1>7, <1>8
     DEF DeploymentNext, ApplyStack, ApplyFails, SetupReturns, PushImage,
         CleanRepository, DestroyNothing, DestroyBuilt, DestroyFails,
         JobKilled

(***************************************************************************)
(* When a teardown is done, the stacks are gone and stay gone until the    *)
(* next job.                                                               *)
(***************************************************************************)
TeardownInv ==
    job.state = "done" /\ job.script = "destroy" => built = {}

(***************************************************************************)
(* When destroy.sh is through, no stack is left.                           *)
(***************************************************************************)
LEMMA TeardownStep ==
    ASSUME DeploymentTypeOK, PlanOrdered, OrderInv, TeardownInv,
           [DeploymentNext]_vars
    PROVE  TeardownInv'
<1>0. job \in Job
  BY DEF DeploymentTypeOK
<1>1. CASE JobDone
  <2>1. SUFFICES ASSUME job.script = "destroy"
                 PROVE  built = {}
    BY <1>0, <1>1 DEF JobDone, TeardownInv, platformVars, Job
  <2>2. Running("destroy") /\ job.at \in Nat \ {0}
    BY <1>0, <1>1, <2>1 DEF JobDone, Running, Job
  <2>3. job.at \notin 1..Len(DestroySteps) /\ Len(DestroySteps) \in Nat
    BY <1>1, <2>1, DeploymentAssumption DEF JobDone, Script
  <2>4. \A j \in 1..Len(DestroySteps) : j \in 1..(job.at - 1)
    BY <2>2, <2>3
  <2>5. ASSUME NEW s \in Stacks
        PROVE  s \notin built
    <3>1. Done(DestroySteps, Len(DestroySteps), {"destroy"}, s)
      BY DEF PlanOrdered, DestroyComplete
    <3>2. Done(DestroySteps, job.at - 1, {"destroy"}, s)
      BY <2>4, <3>1 DEF Done
    <3>3. QED
      BY <2>2, <3>2 DEF OrderInv, DestroyProgress
  <2>6. QED
    BY <2>5 DEF DeploymentTypeOK
<1>2. CASE Struck \/ Failed
  BY <1>2, JobFields DEF TeardownInv
<1>3. ASSUME StepDone, job.state = "running"
      PROVE  TeardownInv'
  BY <1>3, JobFields DEF TeardownInv
<1>4. ASSUME NEW name, StartJob(name)
      PROVE  TeardownInv'
  BY <1>4 DEF StartJob, TeardownInv
<1>5. CASE InvokeSetup \/ SetupWorks \/ SetupRaises \/ UNCHANGED vars
  <2>1. /\ built' = built
        /\ job'.state = job.state /\ job'.script = job.script
    BY <1>0, <1>5 DEF InvokeSetup, SetupWorks, SetupRaises, vars,
                      platformVars, Job
  <2>2. QED
    BY <2>1 DEF TeardownInv
<1>6. QED
  BY <1>1, <1>2, <1>3, <1>4, <1>5
     DEF DeploymentNext, ApplyStack, ApplyFails, SetupReturns, PushImage,
         CleanRepository, DestroyNothing, DestroyBuilt, DestroyFails,
         PlanRefused, JobKilled, At

-----------------------------------------------------------------------------

ScriptInv == DeploymentTypeOK /\ OrderInv /\ CredentialsInv /\ SetupInv /\ TeardownInv

(***************************************************************************)
(* All that is known of the scripts, in every state.                       *)
(***************************************************************************)
LEMMA ScriptsInvariant ==
    ASSUME PlanOrdered
    PROVE  DeploymentSpec => []ScriptInv
<1>1. DeploymentInit => ScriptInv
  <2>1. DeploymentInit => DeploymentTypeOK
    BY DEF DeploymentInit, DeploymentTypeOK, CredentialsInit,
           CredentialsTypeOK, Setup, Job, None
  <2>2. DeploymentInit => OrderInv /\ TeardownInv
    BY DEF DeploymentInit, OrderInv, BuiltOnOutputs, DeployProgress,
           DestroyProgress, Running, TeardownInv
  <2>3. DeploymentInit => CredentialsInv /\ SetupInv
    BY DEF DeploymentInit, CredentialsInit, CredentialsInv, SetupInv, Running
  <2>4. QED
    BY <2>1, <2>2, <2>3 DEF ScriptInv
<1>2. ScriptInv /\ [DeploymentNext]_vars => ScriptInv'
  BY DeploymentStepType, OrderStep, CredentialsStep, SetupStep, TeardownStep
     DEF ScriptInv
<1>3. QED
  BY <1>1, <1>2, PTL DEF DeploymentSpec

(***************************************************************************)
(* Scripts in order never stop each other: whatever jobs were run before   *)
(* and wherever they stopped, a job that fails was struck by a fault of    *)
(* its own (deploy.sh:3 and destroy.sh:3, `set -e').                       *)
(***************************************************************************)
THEOREM OnlyFaultsCorrect ==
    ASSUME PlanOrdered, HelperInPlace
    PROVE  DeploymentSpec => []OnlyFaultsStopJobs
<1>1. DeploymentInit => OnlyFaultsStopJobs
  BY DEF DeploymentInit, OnlyFaultsStopJobs
<1>2. ScriptInv /\ OnlyFaultsStopJobs /\ [DeploymentNext]_vars
        => OnlyFaultsStopJobs'
  BY StopStep DEF ScriptInv
<1>3. QED
  BY <1>1, <1>2, ScriptsInvariant, PTL DEF DeploymentSpec

(***************************************************************************)
(* A teardown that reports success has removed every stack and every       *)
(* credential (destroy.sh:146).                                            *)
(***************************************************************************)
THEOREM TeardownCorrect ==
    ASSUME PlanOrdered
    PROVE  DeploymentSpec => []CompleteTeardown
<1>1. ScriptInv => CompleteTeardown
  BY DEF ScriptInv, TeardownInv, CredentialsInv, CompleteTeardown
<1>2. QED
  BY <1>1, ScriptsInvariant, PTL

-----------------------------------------------------------------------------
(***************************************************************************)
(* What deploy.sh reports at its end, for scripts that leave nothing out   *)
(* (DeployComplete).                                                       *)
(***************************************************************************)

(***************************************************************************)
(* What a running deployment has passed is there: the policies that no     *)
(* later apply has taken off again, and the images.                        *)
(***************************************************************************)
FilesInv ==
    Running("deploy") =>
        /\ \A s \in MediaStacks : WithPolicy(job.at - 1, s) => s \in policies
        /\ \A r \in Regions : Done(DeploySteps, job.at - 1, {"push"}, r) => r \in images

(***************************************************************************)
(* Past the setup step no Lambda is at work, and unless something failed   *)
(* the secret holds the password of the database.                          *)
(***************************************************************************)
PasswordInv ==
    Running("deploy") /\ ~At("setup", PrimaryRds)
      /\ Done(DeploySteps, job.at - 1, {"setup"}, PrimaryRds)
        => setup.pc = "idle" /\ (job.struck \/ password = secret)

(***************************************************************************)
(* The Lambda a deployment waits for, as long as nothing has failed.       *)
(***************************************************************************)
CallInv ==
    job.called =>
        \/ job.struck
        \/ setup.pc = "user"
        \/ setup.pc = "store" /\ password = setup.password
        \/ setup.pc = "idle" /\ password = secret

(***************************************************************************)
(* Past the replica the DR secret is a copy of the primary's.              *)
(***************************************************************************)
CopyInv ==
    Running("deploy") /\ Done(DeploySteps, job.at - 1, {"apply", "policy"}, ReplicaRds)
        => drSecret = secret /\ setup.pc = "idle"

(***************************************************************************)
(* A deployment that is done, until the next job.                          *)
(***************************************************************************)
DeployedInv ==
    job.state = "done" /\ job.script = "deploy" =>
        /\ outputs = Stacks /\ policies = MediaStacks /\ images = Regions
        /\ drSecret = secret /\ secret # None
        /\ setup.pc = "idle"
        /\ job.struck \/ password = secret

CompletionInv == FilesInv /\ PasswordInv /\ CallInv /\ CopyInv /\ DeployedInv

-----------------------------------------------------------------------------

(***************************************************************************)
(* A script that ends, or is not deploy.sh, has nothing to show.           *)
(***************************************************************************)
LEMMA NotDeploying ==
    ASSUME ~Running("deploy")', job'.called = FALSE,
           ~(job'.state = "done" /\ job'.script = "deploy")
    PROVE  CompletionInv'
BY DEF CompletionInv, FilesInv, PasswordInv, CallInv, CopyInv, DeployedInv

(***************************************************************************)
(* Policies after one more step.                                           *)
(***************************************************************************)
LEMMA WithPolicyNext ==
    ASSUME NEW n \in Nat \ {0}, NEW s, WithPolicy((n + 1) - 1, s)
    PROVE  \/ DeploySteps[n].op = "policy" /\ DeploySteps[n].on = s
           \/ /\ WithPolicy(n - 1, s)
              /\ n \in DOMAIN DeploySteps =>
                    ~(DeploySteps[n].op = "apply" /\ DeploySteps[n].on = s)
<1>1. PICK j \in 1..((n + 1) - 1) :
        /\ DeploySteps[j].op = "policy" /\ DeploySteps[j].on = s
        /\ \A k \in ((j + 1)..((n + 1) - 1)) \cap DOMAIN DeploySteps :
             DeploySteps[k].on = s => DeploySteps[k].op # "apply"
  BY DEF WithPolicy
<1>2. CASE j = n
  BY <1>1, <1>2
<1>3. CASE j # n
  <2>1. j \in 1..(n - 1) /\ n \in (j + 1)..((n + 1) - 1)
    BY <1>3
  <2>2. \A k \in (j + 1)..(n - 1) : k \in (j + 1)..((n + 1) - 1)
    OBVIOUS
  <2>3. WithPolicy(n - 1, s)
    BY <1>1, <2>1, <2>2 DEF WithPolicy
  <2>4. n \in DOMAIN DeploySteps => ~(DeploySteps[n].op = "apply" /\ DeploySteps[n].on = s)
    BY <1>1, <2>1
  <2>5. QED
    BY <2>3, <2>4
<1>4. QED
  BY <1>2, <1>3

(***************************************************************************)
(* A step of a deployment that keeps what is in S3 and ECR.                *)
(***************************************************************************)
LEMMA FilesPassed ==
    ASSUME DeploymentTypeOK, FilesInv, Running("deploy"), StepDone,
           policies \subseteq policies', images \subseteq images',
           DeploySteps[job.at].op # "policy",
           \A r \in Regions :
             DeploySteps[job.at].op = "push" /\ DeploySteps[job.at].on = r => r \in images'
    PROVE  FilesInv'
<1>1. job.at \in Nat \ {0} /\ job'.at = job.at + 1
  BY JobFields DEF DeploymentTypeOK, Job
<1>2. ASSUME NEW s \in MediaStacks, WithPolicy((job.at + 1) - 1, s)
      PROVE  s \in policies'
  BY <1>1, <1>2, WithPolicyNext DEF FilesInv
<1>3. ASSUME NEW r \in Regions, Done(DeploySteps, (job.at + 1) - 1, {"push"}, r)
      PROVE  r \in images'
  <2>1. \/ Done(DeploySteps, job.at - 1, {"push"}, r)
        \/ DeploySteps[job.at].op = "push" /\ DeploySteps[job.at].on = r
    BY <1>1, <1>3, DoneNext
  <2>2. QED
    BY <2>1 DEF FilesInv
<1>4. QED
  BY <1>1, <1>2, <1>3 DEF FilesInv, WithPolicy, Done

(***************************************************************************)
(* An apply of deploy.sh (deploy.sh:26-40, 94-105).                        *)
(***************************************************************************)
LEMMA FilesApplied ==
    ASSUME DeploymentTypeOK, PlanOrdered, FilesInv,
           NEW op \in {"apply", "policy"}, NEW s \in Stacks, ApplyStack(op, s)
    PROVE  FilesInv'
<1>1. /\ Running("deploy") /\ StepDone
      /\ DeploySteps[job.at].op = op /\ DeploySteps[job.at].on = s
      /\ policies' = PolicyAfter(op, s) /\ images' = images
  BY AtApply DEF ApplyStack
<1>2. job.at \in Nat \ {0} /\ job'.at = job.at + 1 /\ job.at \in DOMAIN DeploySteps
  BY <1>1, JobFields DEF DeploymentTypeOK, Job, ApplyStack, At, Script, Running
<1>3. ASSUME NEW t \in MediaStacks, WithPolicy((job.at + 1) - 1, t)
      PROVE  t \in policies'
  <2>1. \/ op = "policy" /\ s = t
        \/ WithPolicy(job.at - 1, t) /\ ~(op = "apply" /\ s = t)
    BY <1>1, <1>2, <1>3, WithPolicyNext
  <2>2. QED
    BY <1>1, <2>1 DEF FilesInv, PolicyAfter
<1>4. ASSUME NEW r \in Regions, Done(DeploySteps, (job.at + 1) - 1, {"push"}, r)
      PROVE  r \in images'
  <2>1. DeploySteps[job.at].op \notin {"push"}
    BY <1>1
  <2>2. Done(DeploySteps, job.at - 1, {"push"}, r)
    BY <1>2, <1>4, <2>1, DoneNext
  <2>3. QED
    BY <1>1, <2>2 DEF FilesInv
<1>5. QED
  BY <1>2, <1>3, <1>4 DEF FilesInv, WithPolicy, Done

-----------------------------------------------------------------------------

(***************************************************************************)
(* The setup step comes before the replica, and before it is passed        *)
(* nothing is copied (deploy.sh:52-75).                                    *)
(***************************************************************************)
LEMMA SetupBeforeCopy ==
    ASSUME DeploymentTypeOK, PlanOrdered, DeployComplete, At("setup", PrimaryRds)
    PROVE  /\ ~Done(DeploySteps, job.at - 1, {"apply", "policy"}, ReplicaRds)
           /\ \A n : n = job.at =>
                ~Done(DeploySteps, (n + 1) - 1, {"apply", "policy"}, ReplicaRds)
<1>1. Running("deploy") /\ job.at \in DOMAIN DeploySteps /\ DeploySteps[job.at].op = "setup"
  BY AtSetup DEF At, Script, Running
<1>2. ~Done(DeploySteps, job.at - 1, {"apply", "policy"}, ReplicaRds)
  BY <1>1 DEF DeployComplete
<1>3. job.at \in Nat \ {0} /\ DeploySteps[job.at].op \notin {"apply", "policy"}
  BY <1>1 DEF DeploymentTypeOK, Job
<1>4. QED
  BY <1>2, <1>3, DoneNext

(***************************************************************************)
(* A step of a deployment that does not concern the setup Lambda.          *)
(***************************************************************************)
LEMMA PasswordsPassed ==
    ASSUME DeploymentTypeOK, PasswordInv, CopyInv, Running("deploy"), StepDone,
           UNCHANGED <<password, secret, setup>>,
           DeploySteps[job.at].op # "setup",
           \/ drSecret' = drSecret /\ DeploySteps[job.at].op \notin {"apply", "policy"}
           \/ drSecret' = drSecret /\ DeploySteps[job.at].on # ReplicaRds
           \/ /\ drSecret' = secret
              /\ Done(DeploySteps, job.at - 1, {"setup"}, PrimaryRds)
    PROVE  PasswordInv' /\ CallInv' /\ CopyInv'
<1>1. /\ job.at \in Nat \ {0} /\ job'.at = job.at + 1
      /\ job'.script = job.script /\ job'.state = job.state
      /\ job'.struck = job.struck /\ job'.called = FALSE
  BY JobFields DEF DeploymentTypeOK, Job
<1>2. ~At("setup", PrimaryRds)
  BY DEF At, Script, Running
<1>3. ASSUME Done(DeploySteps, (job.at + 1) - 1, {"setup"}, PrimaryRds)
      PROVE  Done(DeploySteps, job.at - 1, {"setup"}, PrimaryRds)
  <2>1. DeploySteps[job.at].op \notin {"setup"}
    OBVIOUS
  <2>2. QED
    BY <1>1, <1>3, <2>1, DoneNext
<1>4. PasswordInv'
  BY <1>1, <1>2, <1>3 DEF PasswordInv, Running, Done
<1>5. CallInv'
  BY <1>1 DEF CallInv
<1>6. ASSUME Done(DeploySteps, (job.at + 1) - 1, {"apply", "policy"}, ReplicaRds)
      PROVE  drSecret' = secret /\ setup.pc = "idle"
  <2>1. \/ Done(DeploySteps, job.at - 1, {"apply", "policy"}, ReplicaRds)
        \/ DeploySteps[job.at].op \in {"apply", "policy"} /\ DeploySteps[job.at].on = ReplicaRds
    BY <1>1, <1>6, DoneNext
  <2>2. CASE drSecret' = drSecret
    BY <2>1, <2>2, <1>2 DEF CopyInv, PasswordInv
  <2>3. CASE /\ drSecret' = secret
             /\ Done(DeploySteps, job.at - 1, {"setup"}, PrimaryRds)
    BY <1>2, <2>3 DEF PasswordInv
  <2>4. QED
    BY <2>2, <2>3
<1>7. CopyInv'
  BY <1>1, <1>6 DEF CopyInv, Running, Done
<1>8. QED
  BY <1>4, <1>5, <1>7

(***************************************************************************)
(* The setup Lambda, waited for or left behind by a job that was killed    *)
(* (deploy.sh:52-68, primary-db-setup/app.py:21-98).                       *)
(***************************************************************************)
LEMMA PasswordsSetUp ==
    ASSUME DeploymentTypeOK, PlanOrdered, DeployComplete, PasswordInv, CallInv, CopyInv,
           InvokeSetup \/ SetupWorks \/ SetupRaises \/ SetupReturns
    PROVE  PasswordInv' /\ CallInv' /\ CopyInv'
<1>0. job \in Job /\ setup \in Setup
  BY DEF DeploymentTypeOK, CredentialsTypeOK
<1>1. CASE InvokeSetup
  <2>1. /\ At("setup", PrimaryRds) /\ setup'.pc = "user"
        /\ job' = [job EXCEPT !.called = TRUE]
    BY <1>1 DEF InvokeSetup, SetupInvoked
  <2>2. /\ job'.at = job.at /\ job'.script = job.script /\ job'.state = job.state
    BY <1>0, <2>1 DEF Job
  <2>3. At("setup", PrimaryRds)'
    BY <2>1, <2>2 DEF At
  <2>4. ~Done(DeploySteps, job.at - 1, {"apply", "policy"}, ReplicaRds)
    BY <2>1, SetupBeforeCopy
  <2>5. QED
    BY <2>1, <2>2, <2>3, <2>4 DEF PasswordInv, CallInv, CopyInv, Running, Done
<1>2. CASE SetupWorks
  <2>1. job' = job /\ setup.pc # "idle"
    BY <1>2 DEF SetupWorks, SetUserPassword, PutSecretValue
  <2>2. At("setup", PrimaryRds)' <=> At("setup", PrimaryRds)
    BY <2>1 DEF At
  <2>3. PasswordInv' /\ CopyInv'
    BY <2>1, <2>2 DEF PasswordInv, CopyInv, Running, Done
  <2>4. CASE SetUserPassword
    <3>1. setup'.pc = "store" /\ password' = setup'.password
      BY <2>4 DEF SetUserPassword
    <3>2. QED
      BY <2>3, <3>1 DEF CallInv
  <2>5. CASE PutSecretValue
    <3>1. /\ setup.pc = "store" /\ setup'.pc = "idle"
          /\ secret' = setup.password /\ password' = password
      BY <1>0, <2>5 DEF PutSecretValue, Setup
    <3>2. QED
      BY <2>1, <2>3, <3>1 DEF CallInv
  <2>6. QED
    BY <1>2, <2>4, <2>5 DEF SetupWorks
<1>3. CASE SetupRaises
  <2>1. /\ setup.pc # "idle" /\ UNCHANGED storedVars
        /\ job' = [job EXCEPT !.struck = job.struck \/ job.called]
    BY <1>3 DEF SetupRaises, SetupFails
  <2>2. /\ job'.at = job.at /\ job'.script = job.script /\ job'.state = job.state
        /\ job'.called = job.called /\ job'.struck = (job.struck \/ job.called)
    BY <1>0, <2>1 DEF Job
  <2>3. At("setup", PrimaryRds)' <=> At("setup", PrimaryRds)
    BY <2>2 DEF At
  <2>4. QED
    BY <2>1, <2>2, <2>3 DEF PasswordInv, CallInv, CopyInv, Running, Done
<1>4. CASE SetupReturns
  <2>1. /\ At("setup", PrimaryRds) /\ StepDone /\ job.called /\ setup.pc = "idle"
        /\ UNCHANGED <<password, secret, drSecret, setup>>
    BY <1>4 DEF SetupReturns, credentialVars, storedVars
  <2>2. /\ job'.at = job.at + 1 /\ job'.struck = job.struck /\ job'.called = FALSE
    BY <2>1, JobFields
  <2>3. ~Done(DeploySteps, (job.at + 1) - 1, {"apply", "policy"}, ReplicaRds)
    BY <2>1, SetupBeforeCopy
  <2>4. QED
    BY <2>1, <2>2, <2>3 DEF PasswordInv, CallInv, CopyInv, Done
<1>5. QED
  BY <1>1, <1>2, <1>3, <1>4

(***************************************************************************)
(* The end of a script: what a deployment has passed is everything         *)
(* (deploy.sh:126).                                                        *)
(***************************************************************************)
LEMMA CompletionAtEnd ==
    ASSUME PlanOrdered, DeployComplete, ScriptInv, CompletionInv, JobDone
    PROVE  CompletionInv'
<1>0. job \in Job /\ DeploymentTypeOK
  BY DEF ScriptInv, DeploymentTypeOK
<1>1. /\ job'.state = "done" /\ job'.script = job.script /\ job'.struck = job.struck
      /\ job'.called = job.called
      /\ UNCHANGED <<platformVars, credentialVars>>
  BY <1>0 DEF JobDone, Job
<1>2. ~At("setup", PrimaryRds)
  BY DEF JobDone, At
<1>3. job.called = FALSE
  BY <1>0, <1>2 DEF ScriptInv, SetupInv, Job
<1>4. CASE job.script = "destroy"
  BY <1>1, <1>3, <1>4, NotDeploying DEF Running
<1>5. CASE job.script = "deploy"
  <2> DEFINE n == Len(DeploySteps)
  <2>1. Running("deploy") /\ n \in Nat /\ job.at - 1 \in Nat
    BY <1>0, <1>5, DeploymentAssumption DEF JobDone, Running, Job
  <2>2. job.at \notin 1..n
    BY <1>5, DeploymentAssumption DEF JobDone, Script
  <2>3. \A j \in 1..n : j \in 1..(job.at - 1)
    BY <1>0, <2>1, <2>2 DEF Job
  <2>4. \A ops, s : Done(DeploySteps, n, ops, s) => Done(DeploySteps, job.at - 1, ops, s)
    BY <2>3 DEF Done
  <2>5. ASSUME NEW s \in MediaStacks
        PROVE  s \in policies
    <3>1. PICK j \in 1..n :
            /\ DeploySteps[j].op = "policy" /\ DeploySteps[j].on = s
            /\ \A k \in ((j + 1)..n) \cap DOMAIN DeploySteps :
                 DeploySteps[k].on = s => DeploySteps[k].op # "apply"
      BY DEF DeployComplete, WithPolicy
    <3>2. DOMAIN DeploySteps = 1..n
      BY DeploymentAssumption
    <3>3. \A k \in ((j + 1)..(job.at - 1)) \cap DOMAIN DeploySteps : k \in (j + 1)..n
      BY <3>2
    <3>4. WithPolicy(job.at - 1, s)
      BY <2>3, <3>1, <3>3 DEF WithPolicy
    <3>5. QED
      BY <2>1, <3>4 DEF CompletionInv, FilesInv
  <2>6. \A r \in Regions : r \in images
    BY <2>1, <2>4 DEF DeployComplete, CompletionInv, FilesInv
  <2>7. \A s \in Stacks : s \in outputs
    BY <2>1, <2>4 DEF DeployComplete, ScriptInv, OrderInv, DeployProgress
  <2>8. drSecret = secret /\ secret # None /\ setup.pc = "idle"
    <3>1. ReplicaRds \in Stacks
      BY DeploymentAssumption
    <3>2. Done(DeploySteps, job.at - 1, {"apply", "policy"}, ReplicaRds)
      BY <2>4, <3>1 DEF DeployComplete
    <3>3. drSecret = secret /\ setup.pc = "idle"
      BY <2>1, <3>2 DEF CompletionInv, CopyInv
    <3>4. ReplicaRds \in built
      BY <2>7, <3>1, <1>0 DEF DeploymentTypeOK
    <3>5. QED
      BY <3>3, <3>4 DEF ScriptInv, CredentialsInv
  <2>9. job.struck \/ password = secret
    <3>1. ReplicaRds \in Stacks
      BY DeploymentAssumption
    <3>2. PICK i \in 1..n : DeploySteps[i].op \in {"apply", "policy"} /\ DeploySteps[i].on = ReplicaRds
      BY <3>1 DEF DeployComplete, Done
    <3>3. DOMAIN DeploySteps = 1..n
      BY DeploymentAssumption
    <3>4. Done(DeploySteps, i - 1, {"setup"}, PrimaryRds)
      BY <3>2, <3>3 DEF PlanOrdered, DeployOrdered
    <3>5. Done(DeploySteps, n, {"setup"}, PrimaryRds)
      BY <2>1, <3>4 DEF Done
    <3>6. QED
      BY <1>2, <2>1, <2>4, <3>5 DEF CompletionInv, PasswordInv
  <2>10. outputs = Stacks /\ policies = MediaStacks /\ images = Regions
    BY <1>0, <2>5, <2>6, <2>7 DEF DeploymentTypeOK
  <2>11. DeployedInv'
    BY <1>1, <2>8, <2>9, <2>10
       DEF DeployedInv, platformVars, credentialVars, storedVars
  <2>12. QED
    BY <1>1, <1>3, <2>11 DEF CompletionInv, FilesInv, PasswordInv, CallInv, CopyInv, Running
<1>6. QED
  BY <1>0, <1>4, <1>5 DEF Job

(***************************************************************************)
(* Every step keeps what a deployment shows at its end                     *)
(* (deploy.sh:26-126, destroy.sh:39-143).                                  *)
(***************************************************************************)
LEMMA CompletionStep ==
    ASSUME PlanOrdered, DeployComplete, ScriptInv, CompletionInv, [DeploymentNext]_vars
    PROVE  CompletionInv'
<1>0. job \in Job /\ setup \in Setup /\ DeploymentTypeOK
  BY DEF ScriptInv, DeploymentTypeOK, CredentialsTypeOK
<1>1. ASSUME NEW name \in {"deploy", "destroy"}, StartJob(name)
      PROVE  CompletionInv'
  <2>1. job'.at = 1 /\ job'.called = FALSE /\ job'.state = "running"
    BY <1>1 DEF StartJob
  <2>2. \A steps, ops, s : ~Done(steps, 1 - 1, ops, s)
    BY DoneNothing
  <2>3. \A s : ~WithPolicy(1 - 1, s)
    BY DEF WithPolicy
  <2>4. QED
    BY <2>1, <2>2, <2>3 DEF CompletionInv, FilesInv, PasswordInv, CallInv, CopyInv, DeployedInv,
                            WithPolicy, Done
<1>2. CASE JobDone
  BY <1>2, CompletionAtEnd
<1>3. ASSUME NEW op \in {"apply", "policy"}, NEW s \in Stacks, ApplyStack(op, s)
      PROVE  CompletionInv'
  <2>1. /\ At(op, s) /\ Running("deploy") /\ StepDone
        /\ DeploySteps[job.at].op = op /\ DeploySteps[job.at].on = s
        /\ s = ReplicaRds => Done(DeploySteps, job.at - 1, {"setup"}, PrimaryRds)
    BY <1>0, <1>3, AtApply DEF ApplyStack
  <2>2. /\ UNCHANGED <<password, secret, setup>>
        /\ drSecret' = IF s = ReplicaRds THEN secret ELSE drSecret
    BY <1>3 DEF ApplyStack, CopySecret
  <2>3. FilesInv'
    BY <1>0, <1>3, FilesApplied DEF CompletionInv
  <2>4. PasswordInv' /\ CallInv' /\ CopyInv'
    BY <1>0, <2>1, <2>2, PasswordsPassed DEF CompletionInv
  <2>5. job'.state = "running"
    BY <1>0, <2>1, JobFields DEF Running
  <2>6. QED
    BY <2>3, <2>4, <2>5 DEF CompletionInv, DeployedInv
<1>4. CASE InvokeSetup \/ SetupWorks \/ SetupRaises
  <2>1. /\ job'.at = job.at /\ job'.script = job.script /\ job'.state = job.state
        /\ UNCHANGED platformVars
        /\ job.state # "running" => job'.struck = job.struck \/ setup.pc # "idle"
    BY <1>0, <1>4 DEF InvokeSetup, SetupWorks, SetupRaises, SetupFails, Job, At
  <2>2. FilesInv'
    BY <2>1 DEF CompletionInv, FilesInv, Running, WithPolicy, Done, platformVars
  <2>3. PasswordInv' /\ CallInv' /\ CopyInv'
    BY <1>0, <1>4, PasswordsSetUp DEF CompletionInv
  <2>4. DeployedInv'
    <3>1. ~(job.state = "done" /\ job.script = "deploy")
      BY <1>4 DEF CompletionInv, DeployedInv, InvokeSetup, At, SetupWorks, SetUserPassword,
                  PutSecretValue, SetupRaises, SetupFails
    <3>2. QED
      BY <2>1, <3>1 DEF DeployedInv
  <2>5. QED
    BY <2>2, <2>3, <2>4 DEF CompletionInv
<1>5. CASE SetupReturns
  <2>1. StepDone /\ UNCHANGED platformVars /\ Running("deploy") /\ DeploySteps[job.at].op = "setup"
    BY <1>0, <1>5, AtSetup DEF SetupReturns, ScriptInv
  <2>2. FilesInv'
    BY <1>0, <2>1, FilesPassed DEF CompletionInv, platformVars
  <2>3. PasswordInv' /\ CallInv' /\ CopyInv'
    BY <1>0, <1>5, PasswordsSetUp DEF CompletionInv
  <2>4. job'.state = "running"
    BY <1>0, <2>1, JobFields DEF Running
  <2>5. QED
    BY <2>2, <2>3, <2>4 DEF CompletionInv, DeployedInv
<1>6. ASSUME NEW r \in Regions, PushImage(r)
      PROVE  CompletionInv'
  <2>1. /\ At("push", r) /\ Running("deploy") /\ DeploySteps[job.at].op = "push"
        /\ DeploySteps[job.at].on = r
        /\ UNCHANGED <<policies, password, secret, drSecret, setup>>
    BY <1>0, <1>6, AtPush DEF PushImage, At, Script, Running, credentialVars, storedVars
  <2>2. CASE StepDone /\ images' = images \cup {r}
    <3>1. FilesInv'
      BY <1>0, <2>1, <2>2, FilesPassed DEF CompletionInv
    <3>2. PasswordInv' /\ CallInv' /\ CopyInv'
      BY <1>0, <2>1, <2>2, PasswordsPassed DEF CompletionInv
    <3>3. job'.state = "running"
      BY <1>0, <2>1, <2>2, JobFields DEF Running
    <3>4. QED
      BY <3>1, <3>2, <3>3 DEF CompletionInv, DeployedInv
  <2>3. CASE Failed
    BY <1>0, <2>3, JobFields, NotDeploying DEF Running
  <2>4. QED
    BY <1>6, <2>2, <2>3 DEF PushImage
<1>7. ASSUME StepDone, Running("destroy")
      PROVE  CompletionInv'
  BY <1>0, <1>7, JobFields, NotDeploying DEF Running
<1>8. ASSUME NEW r \in Regions, CleanRepository(r)
      PROVE  CompletionInv'
  BY <1>0, <1>7, <1>8, AtClean DEF CleanRepository
<1>9. ASSUME NEW s \in Stacks, DestroyNothing(s) \/ DestroyBuilt(s)
      PROVE  CompletionInv'
  BY <1>0, <1>7, <1>9, AtDestroy DEF DestroyNothing, DestroyBuilt
<1>10. CASE Failed \/ Struck
  BY <1>0, <1>10, JobFields, NotDeploying DEF Running
<1>11. CASE UNCHANGED vars
  BY <1>11 DEF vars, platformVars, credentialVars, storedVars, CompletionInv, FilesInv, PasswordInv,
               CallInv, CopyInv, DeployedInv, At, Running, Done, WithPolicy
<1>12. QED
  BY <1>1, <1>2, <1>3, <1>4, <1>5, <1>6, <1>8, <1>9, <1>10, <1>11
     DEF DeploymentNext, ApplyFails, DestroyFails, PlanRefused, JobKilled

-----------------------------------------------------------------------------

(***************************************************************************)
(* What a deployment shows at its end, as an invariant.                    *)
(***************************************************************************)
LEMMA CompletionInvariant ==
    ASSUME PlanOrdered, DeployComplete
    PROVE  DeploymentSpec => []CompletionInv
<1>1. DeploymentInit => CompletionInv
  BY DEF DeploymentInit, CompletionInv, FilesInv, PasswordInv, CallInv, CopyInv, DeployedInv, Running
<1>2. ScriptInv /\ CompletionInv /\ [DeploymentNext]_vars => CompletionInv'
  BY CompletionStep
<1>3. QED
  BY <1>1, <1>2, ScriptsInvariant, PTL DEF DeploymentSpec

(***************************************************************************)
(* `Deployment complete!' is true, after any history of jobs and failures  *)
(* (deploy.sh:126).                                                        *)
(***************************************************************************)
THEOREM DeploymentIsComplete ==
    ASSUME PlanOrdered, DeployComplete
    PROVE  DeploymentSpec => []CompleteDeployment
<1>1. CompletionInv => CompleteDeployment
  BY DEF CompletionInv, DeployedInv, CompleteDeployment
<1>2. QED
  BY <1>1, CompletionInvariant, PTL

(***************************************************************************)
(* After a deployment in which nothing failed both secrets hold the        *)
(* password of the database user, whatever failed before                   *)
(* (primary-db-setup/app.py:64-95, deploy.sh:52-75).                       *)
(***************************************************************************)
THEOREM SecretsCorrect ==
    ASSUME PlanOrdered, DeployComplete
    PROVE  DeploymentSpec => []SecretsOpenDatabase
<1>1. CompletionInv => SecretsOpenDatabase
  BY DEF CompletionInv, DeployedInv, SecretsOpenDatabase
<1>2. QED
  BY <1>1, CompletionInvariant, PTL
=============================================================================
