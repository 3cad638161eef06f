------------------------ MODULE DrOrchestratorProofs ------------------------
(***************************************************************************)
(* Theorems about the composed failover, for any finite set of executions, *)
(* any desired count and any timing constants: its type correctness, the   *)
(* safety of the DR site, and that it implements FailoverProtocol.         *)
(***************************************************************************)
EXTENDS DrOrchestrator, DatabaseProofs, ServiceRecoveryProofs

(***************************************************************************)
(* A step of the application check (validate-application/app.py:23-57)     *)
(* keeps the types.                                                        *)
(***************************************************************************)
LEMMA ValidateAppStepType ==
    ASSUME ValidateAppTypeOK,
           NEW e \in Executions,
           InvokeAppValidator(e) \/ ValidateAppStep(e)
    PROVE  ValidateAppTypeOK'
<1> USE DEF ValidateAppTypeOK, EnvTypeOK, EcsTypeOK, AppValidation, ecsVars,
            envVars
<1>1. CASE InvokeAppValidator(e)
  BY <1>1 DEF InvokeAppValidator
<1>2. CASE GetAnswered(e)
  <2>1. SiteAnswers \in BOOLEAN /\ Origin \in {"primary", "dr"}
    BY DEF SiteAnswers, Origin
  <2>2. QED
    BY <1>2, <2>1 DEF GetAnswered
<1>3. CASE GetFails(e)
  BY <1>3 DEF GetFails, Fault
<1>4. CASE AppValidatorKilled(e)
  BY <1>4 DEF AppValidatorKilled, Fault
<1>5. QED
  BY <1>1, <1>2, <1>3, <1>4 DEF ValidateAppStep

(***************************************************************************)
(* A step of a Lambda keeps the types.                                     *)
(***************************************************************************)
LEMMA LambdaStepType ==
    ASSUME TypeOK, NEW e \in Executions, LambdaStep(e)
    PROVE  TypeOK'
<1> USE DEF TypeOK, ReplicaTypeOK, ValidateDbTypeOK, RecoveryTypeOK,
            ValidateAppTypeOK, replicaPart, databasePart, servicePart, sitePart
<1>1. CASE ReplicaHandlerStep(e)
             /\ UNCHANGED <<state, databasePart, servicePart, sitePart>>
  <2>1. ReplicaTypeOK'
    BY <1>1, HandlerStepType
  <2>2. QED
    BY <1>1, <2>1 DEF EcsTypeOK
<1>2. CASE ValidateDbStep(e) /\ UNCHANGED <<state, rfh, servicePart, sitePart>>
  <2>1. ValidateDbTypeOK'
    BY <1>2, ValidateDbStepType
  <2>2. QED
    BY <1>2, <2>1 DEF EcsTypeOK
<1>3. CASE RecoveryHandlerStep(e)
             /\ UNCHANGED <<state, replicaPart, databasePart, sitePart>>
  <2>1. RecoveryTypeOK'
    BY <1>3, RecoveryStepType
  <2>2. QED
    BY <1>3, <2>1 DEF DbTypeOK
<1>4. CASE ValidateAppStep(e)
             /\ UNCHANGED <<state, replicaPart, databasePart, srh>>
  <2>1. ValidateAppTypeOK'
    BY <1>4, ValidateAppStepType
  <2>2. QED
    BY <1>4, <2>1 DEF DbTypeOK
<1>5. QED
  BY <1>1, <1>2, <1>3, <1>4 DEF LambdaStep

(***************************************************************************)
(* A step of AWS or of the primary site keeps the types.                   *)
(***************************************************************************)
LEMMA EnvironmentStepType ==
    ASSUME TypeOK, EnvironmentStep
    PROVE  TypeOK'
<1> USE DEF TypeOK, ReplicaTypeOK, ValidateDbTypeOK, RecoveryTypeOK,
            ValidateAppTypeOK, replicaPart, databasePart, servicePart, sitePart
<1>1. CASE RdsNext
             /\ UNCHANGED <<state, rfh, databasePart, servicePart, sitePart>>
  <2>1. EnvTypeOK' /\ DbTypeOK'
    BY <1>1, RdsStep
  <2>2. QED
    BY <1>1, <2>1 DEF EcsTypeOK
<1>2. CASE EcsNext
             /\ UNCHANGED <<state, replicaPart, databasePart, srh, sitePart>>
  <2>1. EnvTypeOK' /\ EcsTypeOK'
    BY <1>2, EcsStepType
  <2>2. QED
    BY <1>2, <2>1 DEF DbTypeOK
<1>3. CASE PrimaryChanges
             /\ UNCHANGED <<state, replicaPart, databasePart, srh, vah>>
  BY <1>3 DEF PrimaryChanges, Disturbance, EnvTypeOK, EcsTypeOK, DbTypeOK
<1>4. QED
  BY <1>1, <1>2, <1>3 DEF EnvironmentStep

(***************************************************************************)
(* A transition of the state machine goes to one of its states, and at     *)
(* most invokes the next Lambda.                                           *)
(***************************************************************************)
LEMMA GotoType ==
    ASSUME TypeOK, NEW e \in Executions, NEW next \in States, Goto(e, next)
    PROVE  state' \in [Executions -> States]
BY DEF TypeOK, Goto

(***************************************************************************)
(* A transition of the state machine keeps the types.                      *)
(***************************************************************************)
LEMMA TransitionType ==
    ASSUME TypeOK, NEW e \in Executions, StartExecution(e) \/ Transition(e)
    PROVE  TypeOK'
<1>1. state' \in [Executions -> States]
  <2>1. \E next \in States : Goto(e, next)
    BY DEF StartExecution, Transition, DBAvailable, WaitOver, DBWritable,
           DBNotWritable, ECSHealthy, ECSNotHealthy, ApplicationHealthy,
           TaskFails, States, Tasks, Terminal, FailStates
  <2>2. QED
    BY <2>1, GotoType
<1> USE DEF TypeOK, ReplicaTypeOK, ValidateDbTypeOK, RecoveryTypeOK,
            ValidateAppTypeOK, replicaPart, databasePart, servicePart, sitePart
<1>2. CASE StartExecution(e)
  <2>1. ReplicaTypeOK'
    BY <1>2, HandlerStepType DEF StartExecution
  <2>2. QED
    BY <1>1, <1>2, <2>1 DEF StartExecution, EcsTypeOK
<1>3. CASE WaitOver(e)
  <2>1. ValidateDbTypeOK'
    BY <1>3, ValidateDbStepType DEF WaitOver
  <2>2. QED
    BY <1>1, <1>3, <2>1 DEF WaitOver, EcsTypeOK
<1>4. CASE DBWritable(e)
  <2>1. RecoveryTypeOK'
    BY <1>4, RecoveryStepType DEF DBWritable
  <2>2. QED
    BY <1>1, <1>4, <2>1 DEF DBWritable, DbTypeOK
<1>5. CASE ECSHealthy(e)
  <2>1. ValidateAppTypeOK'
    BY <1>5, ValidateAppStepType DEF ECSHealthy
  <2>2. QED
    BY <1>1, <1>5, <2>1 DEF ECSHealthy, DbTypeOK
<1>6. CASE UNCHANGED <<replicaPart, databasePart, servicePart, sitePart, envVars>>
  BY <1>1, <1>6 DEF envVars, EnvTypeOK, DbTypeOK, EcsTypeOK
<1>7. QED
  BY <1>2, <1>3, <1>4, <1>5, <1>6
     DEF Transition, DBAvailable, DBNotWritable, ECSNotHealthy,
         ApplicationHealthy, TaskFails

(***************************************************************************)
(* Type correctness of the composed failover.                              *)
(***************************************************************************)
LEMMA TypeStep ==
    ASSUME TypeOK, [Next]_vars
    PROVE  TypeOK'
<1>1. ASSUME NEW e \in Executions,
             StartExecution(e) \/ Transition(e) \/ LambdaStep(e)
      PROVE  TypeOK'
  BY <1>1, TransitionType, LambdaStepType
<1>2. CASE EnvironmentStep
  BY <1>2, EnvironmentStepType
<1>3. CASE UNCHANGED vars
  BY <1>3 DEF vars, replicaPart, databasePart, servicePart, sitePart, envVars,
              TypeOK, ReplicaTypeOK, ValidateDbTypeOK, RecoveryTypeOK,
              ValidateAppTypeOK, EnvTypeOK, DbTypeOK, EcsTypeOK
<1>4. QED
  BY <1>1, <1>2, <1>3 DEF Next

(***************************************************************************)
(* The types, at the start.                                                *)
(***************************************************************************)
LEMMA TypeInit == Init => TypeOK
<1> SUFFICES ASSUME Init
             PROVE  TypeOK
  OBVIOUS
<1> USE DEF Init
<1>1. EnvTypeOK /\ EcsTypeOK
  BY EcsAssumption DEF EnvInit, EnvTypeOK, EcsInit, EcsTypeOK, Service
<1>2. DbTypeOK
  BY DEF DbInit, DbTypeOK, Instance
<1>3. rfh \in [Executions -> Invocation]
  BY DEF ReplicaHandlerInit, Invocation, Report, ReportOf
<1>4. /\ vdw \in [Executions -> Validation]
      /\ secret \in {"current", "stale"}
      /\ schema \in [table : BOOLEAN, rows : Nat]
  BY DEF DbValidatorInit, Validation
<1>5. srh \in [Executions -> Recovery]
  BY DEF RecoveryHandlerInit, Recovery
<1>6. vah \in [Executions -> AppValidation] /\ primary \in BOOLEAN
  BY DEF ValidateAppInit, AppValidation
<1>7. state \in [Executions -> States]
  BY DEF States
<1>8. QED
  BY <1>1, <1>2, <1>3, <1>4, <1>5, <1>6, <1>7
     DEF TypeOK, ReplicaTypeOK, ValidateDbTypeOK, RecoveryTypeOK,
         ValidateAppTypeOK

(***************************************************************************)
(* Every variable of the composed failover keeps its type, the one of the  *)
(* state machine (dr-failover/main.tf) included.                           *)
(***************************************************************************)
THEOREM TypeCorrect == Spec => []TypeOK
<1>1. TypeOK /\ [Next]_vars => TypeOK'
  BY TypeStep
<1>2. QED
  BY TypeInit, <1>1, PTL DEF Spec

-----------------------------------------------------------------------------

(***************************************************************************)
(* The inductive invariant.                                                *)
(*                                                                         *)
(* NoTaskOnUnusableDatabase is not inductive: a Lambda that is about to    *)
(* scale the service would break it if it could be at work while the       *)
(* database is not usable.  What excludes this is spread over the parts:   *)
(* an invocation works only for an execution in its Task state (TaskInv),  *)
(* the Task states after the write test are reached only by executions     *)
(* that have passed it (EvidenceInv), and passing it means a committed row *)
(* on a detached database reached with the DR secret (DbInv).              *)
(***************************************************************************)
Usable ==
    /\ ~db.source
    /\ schema.rows > 0
    /\ secret = "current"

ServiceEmpty ==
    /\ ecs.desired = 0
    /\ ecs.running = 0
    /\ ecs.pending = 0
    /\ ecs.healthy = 0

TaskInv ==
    \A e \in Executions :
        /\ vdw[e].pc \in {"connect", "table", "insert"}
             => state[e] = "ValidateDBWritable"
        /\ srh[e].pc \in {"update", "polling"}
             => state[e] = "ServiceRecoveryHandler"

EvidenceInv ==
    \A e \in Executions :
        state[e] \in {"ServiceRecoveryHandler", "ValidateApplication"}
          => Usable

ServiceInv == Usable \/ ServiceEmpty

SafetyInv == TypeOK /\ DbInv /\ TaskInv /\ EvidenceInv /\ ServiceInv

(***************************************************************************)
(* An execution that has passed the write test has a usable database.      *)
(***************************************************************************)
LEMMA WritableIsUsable ==
    ASSUME DbInv, NEW e \in Executions, vdw[e].writable
    PROVE  Usable
<1>1. IsFiniteSet(Passed) /\ Cardinality(Passed) \in Nat
  BY EnvironmentAssumption, FS_Subset, FS_CardinalityType DEF Passed
<1>2. Passed # {}
  BY DEF Passed
<1>3. Cardinality(Passed) > 0
  BY <1>1, <1>2, FS_EmptySet
<1>4. schema.rows > 0
  BY <1>1, <1>3 DEF DbInv, RowsInv, ValidateDbTypeOK
<1>5. QED
  BY <1>4 DEF DbInv, KnowsInv, Usable

(***************************************************************************)
(* What each step may do to the database, for every step of Next: a        *)
(* detached instance stays detached, rows stay, the secret stays, and the  *)
(* facts about the write tests are kept.                                   *)
(***************************************************************************)
LEMMA DatabaseStep ==
    ASSUME TypeOK, DbInv, [Next]_vars
    PROVE  /\ DbInv'
           /\ ~db.source => ~db'.source
           /\ schema'.rows >= schema.rows
           /\ secret' = secret
<1> USE DEF replicaPart, databasePart, servicePart, sitePart
<1>1. ASSUME NEW e \in Executions,
             InvokeDbValidator(e) \/ ValidateDbStep(e)
      PROVE  /\ DbInv' /\ UNCHANGED <<db, secret>>
             /\ schema'.rows >= schema.rows
  BY <1>1, ValidateDbStepType, ValidationKnows, ValidationCounts, SchemaGrows
     DEF DbInv
<1>2. ASSUME UNCHANGED databasePart, EnvTypeOK', DbTypeOK',
             ~db.source => ~db'.source
      PROVE  /\ DbInv' /\ secret' = secret
             /\ schema'.rows >= schema.rows
  <2>1. ValidateDbTypeOK'
    BY <1>2 DEF DbInv, ValidateDbTypeOK
  <2>2. KnowsInv'
    BY <1>2 DEF DbInv, KnowsInv
  <2>3. RowsInv'
    BY <1>2 DEF DbInv, RowsInv, Passed
  <2>4. schema.rows >= schema.rows
    BY DEF DbInv, ValidateDbTypeOK
  <2>5. QED
    BY <1>2, <2>1, <2>2, <2>3, <2>4 DEF DbInv
<1>3. EnvTypeOK' /\ DbTypeOK'
  BY TypeStep DEF TypeOK, ReplicaTypeOK
<1>4. ASSUME NEW e \in Executions, StartExecution(e) \/ Transition(e)
      PROVE  /\ DbInv' /\ (~db.source => ~db'.source)
             /\ secret' = secret /\ schema'.rows >= schema.rows
  <2>1. CASE WaitOver(e)
    BY <1>1, <2>1 DEF WaitOver
  <2>2. CASE StartExecution(e)
    BY <1>2, <1>3, <2>2 DEF StartExecution, InvokeReplicaHandler, dbVars
  <2>3. CASE ~WaitOver(e) /\ ~StartExecution(e)
    <3>1. UNCHANGED <<db, databasePart>>
      BY <1>4, <2>3
         DEF Transition, DBAvailable, DBWritable, DBNotWritable, ECSHealthy,
             ECSNotHealthy, ApplicationHealthy, TaskFails
    <3>2. QED
      BY <1>2, <1>3, <3>1
  <2>4. QED
    BY <2>1, <2>2, <2>3
<1>5. ASSUME NEW e \in Executions, LambdaStep(e)
      PROVE  /\ DbInv' /\ (~db.source => ~db'.source)
             /\ secret' = secret /\ schema'.rows >= schema.rows
  <2>1. CASE ValidateDbStep(e)
    BY <1>1, <2>1
  <2>2. CASE ReplicaHandlerStep(e)
               /\ UNCHANGED <<state, databasePart, servicePart, sitePart>>
    BY <1>2, <1>3, <2>2, HandlerStepType DEF TypeOK
  <2>3. CASE UNCHANGED <<db, databasePart>>
    BY <1>2, <1>3, <2>3
  <2>4. QED
    BY <1>5, <2>1, <2>2, <2>3 DEF LambdaStep
<1>6. CASE EnvironmentStep
  <2>1. UNCHANGED databasePart /\ (~db.source => ~db'.source)
    BY <1>6, RdsStep DEF EnvironmentStep, TypeOK, ReplicaTypeOK
  <2>2. QED
    BY <1>2, <1>3, <2>1
<1>7. CASE UNCHANGED vars
  BY <1>2, <1>3, <1>7 DEF vars
<1>8. QED
  BY <1>4, <1>5, <1>6, <1>7 DEF Next

(***************************************************************************)
(* A database that took a write after its promotion stays usable.          *)
(***************************************************************************)
LEMMA UsableStable ==
    ASSUME TypeOK, DbInv, [Next]_vars, Usable
    PROVE  Usable'
<1>1. schema.rows \in Nat /\ schema'.rows \in Nat
  BY DatabaseStep DEF DbInv, ValidateDbTypeOK
<1>2. QED
  BY <1>1, DatabaseStep DEF Usable

(***************************************************************************)
(* An invocation is at work only while its execution waits for it: a       *)
(* transition leaves a Task when its invocation has returned or failed.    *)
(***************************************************************************)
LEMMA GotoEffect ==
    ASSUME TypeOK, NEW e \in Executions, NEW next, Goto(e, next)
    PROVE  /\ state'[e] = next
           /\ \A f \in Executions \ {e} : state'[f] = state[f]
BY DEF TypeOK, Goto

(***************************************************************************)
(* Every step keeps a Lambda's execution and the state its state machine   *)
(* waits in together.                                                      *)
(***************************************************************************)
LEMMA TaskStep ==
    ASSUME TypeOK, TaskInv, [Next]_vars
    PROVE  TaskInv'
<1> USE DEF TaskInv, replicaPart, databasePart, servicePart, sitePart
<1>1. ASSUME NEW e \in Executions, WaitOver(e)
      PROVE  TaskInv'
  <2>1. /\ state'[e] = "ValidateDBWritable"
        /\ \A f \in Executions \ {e} : state'[f] = state[f]
    BY <1>1, GotoEffect DEF WaitOver
  <2>2. \A f \in Executions \ {e} : vdw'[f] = vdw[f]
    BY <1>1, ValidateDbStepLocal DEF WaitOver, TypeOK
  <2>3. srh' = srh /\ state[e] = "WaitForDBReadiness"
    BY <1>1 DEF WaitOver
  <2>4. QED
    BY <2>1, <2>2, <2>3
<1>2. ASSUME NEW e \in Executions, DBWritable(e)
      PROVE  TaskInv'
  <2>1. /\ state'[e] = "ServiceRecoveryHandler"
        /\ \A f \in Executions \ {e} : state'[f] = state[f]
    BY <1>2, GotoEffect DEF DBWritable
  <2>2. \A f \in Executions \ {e} : srh'[f] = srh[f]
    BY <1>2, RecoveryStepLocal DEF DBWritable, TypeOK
  <2>3. vdw' = vdw /\ vdw[e].pc = "returned"
    BY <1>2 DEF DBWritable
  <2>4. QED
    BY <2>1, <2>2, <2>3
<1>3. ASSUME NEW e \in Executions,
             (StartExecution(e) \/ Transition(e)) /\ ~WaitOver(e) /\ ~DBWritable(e)
      PROVE  TaskInv'
  <2>1. UNCHANGED <<vdw, srh>>
    BY <1>3 DEF StartExecution, Transition, DBAvailable, DBNotWritable,
                ECSHealthy, ECSNotHealthy, ApplicationHealthy, TaskFails
  <2>2. \A f \in Executions \ {e} : state'[f] = state[f]
    BY <1>3, GotoEffect
       DEF StartExecution, Transition, DBAvailable, DBNotWritable, ECSHealthy,
           ECSNotHealthy, ApplicationHealthy, TaskFails
  <2>3. /\ state[e] = "ValidateDBWritable" => vdw[e].pc \in {"returned", "failed"}
        /\ state[e] = "ServiceRecoveryHandler"
             => srh[e].pc \in {"returned", "failed"}
    BY <1>3 DEF StartExecution, Transition, DBAvailable, DBNotWritable,
                ECSHealthy, ECSNotHealthy, ApplicationHealthy, TaskFails, TaskPc
  <2>4. QED
    BY <2>1, <2>2, <2>3
<1>4. ASSUME NEW e \in Executions, LambdaStep(e)
      PROVE  TaskInv'
  <2>1. state' = state
    BY <1>4 DEF LambdaStep
  <2>2. CASE ValidateDbStep(e) /\ UNCHANGED srh
    BY <2>1, <2>2, ValidateDbStepLocal DEF TypeOK
  <2>3. CASE RecoveryHandlerStep(e) /\ UNCHANGED vdw
    BY <2>1, <2>3, RecoveryStepLocal DEF TypeOK
  <2>4. CASE UNCHANGED <<vdw, srh>>
    BY <2>1, <2>4
  <2>5. QED
    BY <1>4, <2>2, <2>3, <2>4 DEF LambdaStep
<1>5. CASE EnvironmentStep
  BY <1>5 DEF EnvironmentStep
<1>6. CASE UNCHANGED vars
  BY <1>6 DEF vars
<1>7. QED
  BY <1>1, <1>2, <1>3, <1>4, <1>5, <1>6 DEF Next

(***************************************************************************)
(* The Tasks after the write test are entered on its evidence.             *)
(***************************************************************************)
LEMMA EvidenceStep ==
    ASSUME TypeOK, DbInv, EvidenceInv, [Next]_vars
    PROVE  EvidenceInv'
<1>1. SUFFICES ASSUME NEW f \in Executions,
                      state'[f] \in {"ServiceRecoveryHandler",
                                     "ValidateApplication"}
               PROVE  Usable
  BY UsableStable DEF EvidenceInv
<1>2. CASE state'[f] = state[f]
  BY <1>1, <1>2 DEF EvidenceInv
<1>3. ASSUME NEW e \in Executions, StartExecution(e) \/ Transition(e),
             state'[f] # state[f]
      PROVE  Usable
  <2>1. f = e
    BY <1>3, GotoEffect
       DEF StartExecution, Transition, DBAvailable, WaitOver, DBWritable,
           DBNotWritable, ECSHealthy, ECSNotHealthy, ApplicationHealthy,
           TaskFails
  <2>2. CASE DBWritable(e)
    BY <2>2, WritableIsUsable DEF DBWritable
  <2>3. CASE ECSHealthy(e)
    BY <2>3 DEF ECSHealthy, EvidenceInv
  <2>4. CASE ~DBWritable(e) /\ ~ECSHealthy(e)
    <3>1. state'[e] \in States \ {"ServiceRecoveryHandler", "ValidateApplication"}
      BY <1>3, <2>4, GotoEffect
         DEF StartExecution, Transition, DBAvailable, WaitOver, DBNotWritable,
             ECSNotHealthy, ApplicationHealthy, TaskFails, States, Tasks,
             Terminal, FailStates
    <3>2. QED
      BY <1>1, <2>1, <3>1
  <2>5. QED
    BY <2>2, <2>3, <2>4
<1>4. CASE UNCHANGED state
  BY <1>2, <1>4
<1>5. QED
  BY <1>2, <1>3, <1>4 DEF Next, LambdaStep, EnvironmentStep, vars

(***************************************************************************)
(* Tasks appear only after the scaling of an execution whose evidence      *)
(* holds: the service is empty, or the database is usable.                 *)
(***************************************************************************)
LEMMA EmptyServiceStays ==
    ASSUME ServiceEmpty, EcsTypeOK, EcsNext
    PROVE  ServiceEmpty'
<1> USE ScaledToZero DEF ServiceEmpty, EcsTypeOK, Service
<1>1. ~TaskPlaced /\ ~TaskStarts /\ ~TaskStopped /\ ~TaskDies /\ ~TargetHealthy
  BY DEF TaskPlaced, TaskStarts, TaskStopped, TaskDies, TargetHealthy
<1>2. CASE RolloutCompletes
  BY <1>2 DEF RolloutCompletes
<1>3. CASE TerraformApply
  <2>1. PICK rollout :
          ecs' = [ecs EXCEPT !.desired = TerraformDesired, !.rollout = rollout]
    BY <1>3 DEF TerraformApply
  <2>2. QED
    BY <2>1
<1>4. QED
  BY <1>1, <1>2, <1>3 DEF EcsNext

(***************************************************************************)
(* Every step keeps the DR service empty until the database is usable.     *)
(***************************************************************************)
LEMMA ServiceStep ==
    ASSUME SafetyInv, [Next]_vars
    PROVE  ServiceInv'
<1> USE DEF replicaPart, databasePart, servicePart, sitePart
<1>1. SUFFICES ASSUME ~Usable
               PROVE  ServiceEmpty'
  BY UsableStable DEF SafetyInv, ServiceInv
<1>2. ServiceEmpty
  BY <1>1 DEF SafetyInv, ServiceInv
<1>3. CASE UNCHANGED ecs
  BY <1>2, <1>3 DEF ServiceEmpty
<1>4. ASSUME NEW e \in Executions, LambdaStep(e), ~UNCHANGED ecs
      PROVE  ServiceEmpty'
  <2>1. RecoveryHandlerStep(e)
    BY <1>4 DEF LambdaStep, ValidateAppStep, GetAnswered, GetFails,
                AppValidatorKilled, ecsVars
  <2>2. srh[e].pc \in {"update", "polling"}
    BY <2>1, RecoveryStepLocal DEF SafetyInv, TypeOK
  <2>3. Usable
    BY <2>2 DEF SafetyInv, TaskInv, EvidenceInv
  <2>4. QED
    BY <1>1, <2>3
<1>5. ASSUME NEW e \in Executions, StartExecution(e) \/ Transition(e)
      PROVE  UNCHANGED ecs
  BY <1>5 DEF StartExecution, Transition, DBAvailable, WaitOver, DBWritable,
              DBNotWritable, ECSHealthy, ECSNotHealthy, ApplicationHealthy,
              TaskFails, InvokeRecoveryHandler, InvokeAppValidator, ecsVars
<1>6. CASE EnvironmentStep
  <2>1. CASE EcsNext
    BY <1>2, <2>1, EmptyServiceStays DEF SafetyInv, TypeOK, RecoveryTypeOK
  <2>2. CASE ~EcsNext
    BY <1>3, <1>6, <2>2 DEF EnvironmentStep, PrimaryChanges
  <2>3. QED
    BY <2>1, <2>2
<1>7. CASE UNCHANGED vars
  BY <1>3, <1>7 DEF vars
<1>8. QED
  BY <1>3, <1>4, <1>5, <1>6, <1>7 DEF Next

(***************************************************************************)
(* All that is known of the failover, in every state.                      *)
(***************************************************************************)
THEOREM SafetyInvariant == Spec => []SafetyInv
<1>1. Init => SafetyInv
  <2> SUFFICES ASSUME Init
               PROVE  SafetyInv
    OBVIOUS
  <2>1. TypeOK
    BY TypeInit
  <2>2. DbInv
    <3>1. Passed = {}
      BY DEF Init, DbValidatorInit, Passed
    <3>2. RowsInv
      BY <3>1, FS_EmptySet DEF Init, DbValidatorInit, RowsInv
    <3>3. KnowsInv
      BY DEF Init, DbValidatorInit, KnowsInv
    <3>4. QED
      BY <2>1, <3>2, <3>3 DEF DbInv, TypeOK
  <2>3. TaskInv /\ EvidenceInv
    BY DEF Init, DbValidatorInit, RecoveryHandlerInit, TaskInv, EvidenceInv
  <2>4. ServiceInv
    BY ScaledToZero DEF Init, EcsInit, ServiceInv, ServiceEmpty
  <2>5. QED
    BY <2>1, <2>2, <2>3, <2>4 DEF SafetyInv
<1>2. SafetyInv /\ [Next]_vars => SafetyInv'
  BY TypeStep, DatabaseStep, TaskStep, EvidenceStep, ServiceStep DEF SafetyInv
<1>3. QED
  BY <1>1, <1>2, PTL DEF Spec

(***************************************************************************)
(* No execution, however it fails or overlaps with another one, starts     *)
(* WordPress on a read-only or unreachable DR database.                    *)
(***************************************************************************)
THEOREM NoTaskCorrect == Spec => []NoTaskOnUnusableDatabase
<1>1. SafetyInv => NoTaskOnUnusableDatabase
  BY DEF SafetyInv, ServiceInv, ServiceEmpty, Usable, NoTaskOnUnusableDatabase
<1>2. QED
  BY <1>1, SafetyInvariant, PTL

(***************************************************************************)
(* What a positive write test is evidence of (validate-db-writable/app.py  *)
(* lines 64-79) is so in the composed failover too, where executions       *)
(* overlap and the other handlers and Terraform are at work: as many rows  *)
(* as verdicts, a detached database, a good secret and the table.          *)
(***************************************************************************)
THEOREM VerdictsCorrect ==
    Spec => [](WritableMeansCommittedRow /\ WritableMeansUsable)
<1>1. SafetyInv => WritableMeansCommittedRow /\ WritableMeansUsable
  BY DEF SafetyInv, DbInv, RowsInv, KnowsInv, Passed,
         WritableMeansCommittedRow, WritableMeansUsable
<1>2. QED
  BY <1>1, SafetyInvariant, PTL

-----------------------------------------------------------------------------

(***************************************************************************)
(* The refinement.                                                         *)
(*                                                                         *)
(* Two facts are needed beside SafetyInv: that a db_available report is    *)
(* about a detached database (AvailableMeansPromoted, kept by the handler  *)
(* whoever else is at work), and that the database is being promoted, or   *)
(* detached, only after an execution was started (StartedInv).             *)
(***************************************************************************)
StartedInv ==
    /\ \A e \in Executions : rfh[e].pc # "idle" => state[e] # "NotStarted"
    /\ db.promoting \/ ~db.source => \E e \in Executions : state[e] # "NotStarted"

RefinementInv == SafetyInv /\ AvailableMeansPromoted /\ StartedInv

(***************************************************************************)
(* RDS promotes only what it was asked to promote.                         *)
(***************************************************************************)
LEMMA RdsPromotesOnRequest ==
    ASSUME DbTypeOK, RdsNext, db'.promoting \/ ~db'.source
    PROVE  db.promoting \/ ~db.source
<1> USE DEF DbTypeOK, Instance
<1>1. CASE DbCreated \/ PromotionBegins \/ DbSettles \/ LagChanges
  BY <1>1 DEF DbCreated, PromotionBegins, DbSettles, LagChanges
<1>2. CASE PromotionEnds
  BY <1>2 DEF PromotionEnds
<1>3. CASE DbDisturbed
  <2>1. PICK status \in {"available", "modifying"}, pending \in BOOLEAN :
          db' = [db EXCEPT !.status = status, !.pending = pending]
    BY <1>3, Zenon DEF DbDisturbed
  <2>2. QED
    BY <2>1
<1>4. QED
  BY <1>1, <1>2, <1>3 DEF RdsNext

(***************************************************************************)
(* An execution that was started stays started.                            *)
(***************************************************************************)
LEMMA StartedStays ==
    ASSUME TypeOK, [Next]_vars, NEW e \in Executions, state[e] # "NotStarted"
    PROVE  state'[e] # "NotStarted"
<1>1. CASE UNCHANGED state
  BY <1>1
<1>2. ASSUME NEW f \in Executions, StartExecution(f) \/ Transition(f)
      PROVE  state'[e] # "NotStarted"
  <2>1. PICK next \in States \ {"NotStarted"} : Goto(f, next)
    BY <1>2 DEF StartExecution, Transition, DBAvailable, WaitOver, DBWritable,
           DBNotWritable, ECSHealthy, ECSNotHealthy, ApplicationHealthy,
           TaskFails, States, Tasks, Terminal, FailStates
  <2>2. QED
    BY <2>1, GotoEffect
<1>3. QED
  BY <1>1, <1>2 DEF Next, LambdaStep, EnvironmentStep, vars

(***************************************************************************)
(* Only the handler of an execution moves its invocation, and only a       *)
(* started one.                                                            *)
(***************************************************************************)
LEMMA IdleHandlerRests ==
    ASSUME NEW e \in Executions, ReplicaHandlerStep(e)
    PROVE  rfh[e].pc # "idle"
BY DEF ReplicaHandlerStep, DescribeNotReady, DescribeReady, PromoteAccepted,
       PromoteRefused, PromoteErrored, PollConfirms, PollWaits, PollTimesOut,
       DescribeRaises, ReplicaHandlerKilled

(***************************************************************************)
(* Every step keeps it so that only a started execution promotes the       *)
(* replica.                                                                *)
(***************************************************************************)
LEMMA StartedStep ==
    ASSUME TypeOK, StartedInv, [Next]_vars
    PROVE  StartedInv'
<1> USE DEF replicaPart, databasePart, servicePart, sitePart
<1>1. ASSUME NEW e \in Executions,
             StartExecution(e) \/ ReplicaHandlerStep(e),
             state'[e] # "NotStarted"
      PROVE  StartedInv'
  <2>1. \A f \in Executions \ {e} : rfh'[f] = rfh[f]
    BY <1>1, HandlerStepLocal DEF StartExecution, TypeOK
  <2>2. QED
    BY <1>1, <2>1, StartedStays DEF StartedInv
<1>2. ASSUME NEW e \in Executions, StartExecution(e)
      PROVE  StartedInv'
  BY <1>1, <1>2, GotoEffect DEF StartExecution
<1>3. CASE UNCHANGED rfh /\ (db'.promoting \/ ~db'.source
                               => db.promoting \/ ~db.source)
  BY <1>3, StartedStays DEF StartedInv
<1>4. ASSUME NEW e \in Executions, Transition(e)
      PROVE  StartedInv'
  BY <1>3, <1>4
     DEF Transition, DBAvailable, WaitOver, DBWritable, DBNotWritable,
         ECSHealthy, ECSNotHealthy, ApplicationHealthy, TaskFails,
         InvokeDbValidator, dbVars
<1>5. ASSUME NEW e \in Executions, LambdaStep(e)
      PROVE  StartedInv'
  <2>1. CASE ReplicaHandlerStep(e)
    BY <1>1, <2>1, IdleHandlerRests, StartedStays DEF StartedInv
  <2>2. CASE UNCHANGED <<rfh, db>>
    BY <1>3, <2>2
  <2>3. CASE ValidateDbStep(e) /\ UNCHANGED rfh
    BY <2>2, <2>3, ValidateDbStepType DEF TypeOK
  <2>4. QED
    BY <1>5, <2>1, <2>2, <2>3 DEF LambdaStep
<1>6. CASE EnvironmentStep
  <2>1. CASE RdsNext /\ UNCHANGED rfh
    BY <1>3, <2>1, RdsPromotesOnRequest DEF TypeOK, ReplicaTypeOK
  <2>2. QED
    BY <1>3, <1>6, <2>1 DEF EnvironmentStep
<1>7. CASE UNCHANGED vars
  BY <1>3, <1>7 DEF vars
<1>8. QED
  BY <1>2, <1>4, <1>5, <1>6, <1>7 DEF Next

(***************************************************************************)
(* A report of a detached database stays true in the composition.          *)
(***************************************************************************)
LEMMA AvailableStep ==
    ASSUME TypeOK, DbInv, AvailableMeansPromoted, [Next]_vars
    PROVE  AvailableMeansPromoted'
<1> USE DEF replicaPart, databasePart, servicePart, sitePart
<1>1. CASE UNCHANGED rfh
  BY <1>1, DatabaseStep DEF AvailableMeansPromoted
<1>2. ASSUME NEW e \in Executions, StartExecution(e)
      PROVE  AvailableMeansPromoted'
  BY <1>2, HandlerStepAvailable DEF StartExecution, TypeOK
<1>3. ASSUME NEW e \in Executions, LambdaStep(e), ~UNCHANGED rfh
      PROVE  AvailableMeansPromoted'
  BY <1>3, HandlerStepAvailable DEF LambdaStep, TypeOK
<1>4. ASSUME NEW e \in Executions, Transition(e)
      PROVE  UNCHANGED rfh
  BY <1>4 DEF Transition, DBAvailable, WaitOver, DBWritable, DBNotWritable,
              ECSHealthy, ECSNotHealthy, ApplicationHealthy, TaskFails
<1>5. QED
  BY <1>1, <1>2, <1>3, <1>4 DEF Next, EnvironmentStep, vars

(***************************************************************************)
(* What the refinement needs, in every state.                              *)
(***************************************************************************)
LEMMA RefinementInvariant == Spec => []RefinementInv
<1>1. Init => AvailableMeansPromoted /\ StartedInv
  BY DEF Init, ReplicaHandlerInit, DbInit, AvailableMeansPromoted, StartedInv
<1>2. SafetyInv /\ AvailableMeansPromoted /\ StartedInv /\ [Next]_vars
        => AvailableMeansPromoted' /\ StartedInv'
  BY AvailableStep, StartedStep DEF SafetyInv
<1>3. QED
  BY <1>1, <1>2, SafetyInvariant, PTL DEF Spec, RefinementInv

\* The state of the protocol that a state of the failover stands for.
Stage == [e \in Executions |-> StageOf(state[e])]
Promoted == ~db.source
Written == schema.rows > 0
Scaled == ecs.desired > 0

(***************************************************************************)
(* The stage of each state.                                                *)
(***************************************************************************)
LEMMA StageValues ==
    /\ StageOf("NotStarted") = "none"
    /\ StageOf("ReplicaFailoverHandler") = "promoting"
    /\ StageOf("WaitForDBReadiness") = "promoted"
    /\ StageOf("ValidateDBWritable") = "promoted"
    /\ StageOf("ServiceRecoveryHandler") = "writable"
    /\ StageOf("ValidateApplication") = "writable"
    /\ StageOf("FailoverCompleted") = "done"
    /\ \A s \in FailStates : StageOf(s) = "failed"
BY DEF StageOf, FailStates

(***************************************************************************)
(* A transition of one execution is a move of its stage, or none.          *)
(***************************************************************************)
LEMMA StageMoves ==
    ASSUME TypeOK, NEW e \in Executions, NEW next, Goto(e, next)
    PROVE  Stage' = [Stage EXCEPT ![e] = StageOf(next)]
<1>1. /\ state \in [Executions -> States]
      /\ state' = [state EXCEPT ![e] = next]
  BY DEF TypeOK, Goto
<1>2. \A f \in Executions : state'[f] = IF f = e THEN next ELSE state[f]
  BY <1>1
<1>3. Stage' = [f \in Executions |-> StageOf(state'[f])]
  BY DEF Stage, StageOf
<1>4. QED
  BY <1>2, <1>3 DEF Stage

(***************************************************************************)
(* A transition within a stage is no step of the protocol's stages.        *)
(***************************************************************************)
LEMMA StageStays ==
    ASSUME TypeOK, NEW e \in Executions, NEW next, Goto(e, next),
           StageOf(next) = StageOf(state[e])
    PROVE  Stage' = Stage
BY StageMoves DEF Stage

(***************************************************************************)
(* Every step of an execution's state machine is its Begin, one of its     *)
(* confirmations, its Complete, its Fail, or none of the protocol's        *)
(* business.                                                               *)
(***************************************************************************)
LEMMA TransitionRefines ==
    ASSUME RefinementInv, NEW e \in Executions,
           StartExecution(e) \/ Transition(e)
    PROVE  \/ Stage' = Stage
           \/ /\ Stage[e] = "none"
              /\ Stage' = [Stage EXCEPT ![e] = "promoting"]
           \/ /\ Promoted
              /\ Stage[e] = "promoting"
              /\ Stage' = [Stage EXCEPT ![e] = "promoted"]
           \/ /\ Written
              /\ Stage[e] = "promoted"
              /\ Stage' = [Stage EXCEPT ![e] = "writable"]
           \/ /\ Stage[e] = "writable"
              /\ Stage' = [Stage EXCEPT ![e] = "done"]
           \/ /\ Stage[e] \in {"promoting", "promoted", "writable"}
              /\ Stage' = [Stage EXCEPT ![e] = "failed"]
<1> TypeOK
  BY DEF RefinementInv, SafetyInv
<1> Stage[e] = StageOf(state[e])
  BY DEF Stage
<1>1. CASE StartExecution(e)
  BY <1>1, StageMoves, StageValues DEF StartExecution
<1>2. CASE DBAvailable(e)
  <2>1. CASE rfh[e].report.db_available
    <3>1. Promoted
      BY <1>2, <2>1 DEF DBAvailable, RefinementInv, AvailableMeansPromoted,
                        Promoted
    <3>2. Goto(e, "WaitForDBReadiness") /\ state[e] = "ReplicaFailoverHandler"
      BY <1>2, <2>1 DEF DBAvailable
    <3>3. QED
      BY <3>1, <3>2, StageMoves, StageValues
  <2>2. CASE ~rfh[e].report.db_available
    <3>1. Goto(e, "FailReplicaFailover") /\ state[e] = "ReplicaFailoverHandler"
      BY <1>2, <2>2 DEF DBAvailable
    <3>2. QED
      BY <3>1, StageMoves, StageValues DEF FailStates
  <2>3. QED
    BY <2>1, <2>2
<1>3. CASE WaitOver(e)
  BY <1>3, StageStays, StageValues DEF WaitOver
<1>4. CASE DBWritable(e)
  <2>1. Written
    BY <1>4, WritableIsUsable
       DEF DBWritable, RefinementInv, SafetyInv, Usable, Written
  <2>2. QED
    BY <1>4, <2>1, StageMoves, StageValues DEF DBWritable
<1>5. CASE DBNotWritable(e)
  BY <1>5, StageMoves, StageValues DEF DBNotWritable, FailStates
<1>6. CASE ECSHealthy(e)
  BY <1>6, StageStays, StageValues DEF ECSHealthy
<1>7. CASE ECSNotHealthy(e)
  BY <1>7, StageMoves, StageValues DEF ECSNotHealthy, FailStates
<1>8. CASE ApplicationHealthy(e)
  <2>1. /\ state[e] = "ValidateApplication"
        /\ Goto(e, "FailoverCompleted") \/ Goto(e, "FailApplicationValidation")
    BY <1>8 DEF ApplicationHealthy
  <2>2. QED
    BY <2>1, StageMoves, StageValues DEF FailStates
<1>9. CASE TaskFails(e)
  <2>1. state[e] \in Tasks /\ Goto(e, "TaskFailed")
    BY <1>9 DEF TaskFails, TaskPc, Tasks
  <2>2. QED
    BY <2>1, StageMoves, StageValues DEF Tasks, FailStates
<1>10. QED
  BY <1>1, <1>2, <1>3, <1>4, <1>5, <1>6, <1>7, <1>8, <1>9 DEF Transition

(***************************************************************************)
(* The write test is the protocol's Write: only CommitRow adds a row, for  *)
(* an execution in ValidateDBWritable, to a detached database.             *)
(***************************************************************************)
LEMMA ValidationRefines ==
    ASSUME RefinementInv, NEW e \in Executions, ValidateDbStep(e)
    PROVE  \/ Written' = Written
           \/ Stage[e] = "promoted" /\ Promoted /\ Written' = TRUE
<1>1. ValidateDbTypeOK /\ state[e] = "ValidateDBWritable"
  BY ValidateDbStepLocal DEF RefinementInv, SafetyInv, TypeOK, TaskInv
<1>2. Stage[e] = "promoted"
  BY <1>1, StageValues DEF Stage
<1>3. CASE CommitRow
  <2>1. Promoted /\ Written'
    BY <1>1, <1>3 DEF CommitRow, ValidateDbTypeOK, Promoted, Written
  <2>2. QED
    BY <1>2, <2>1
<1>4. CASE CreateTableIfNotExists \/ UNCHANGED schema
  <2>1. schema'.rows = schema.rows
    BY <1>1, <1>4 DEF CreateTableIfNotExists, ValidateDbTypeOK
  <2>2. QED
    BY <2>1 DEF Written
<1>5. QED
  BY <1>3, <1>4
     DEF ValidateDbStep, Connect, ConnectRefused, EnsureTable, InsertRow,
         WriteRefused, StatementFails, DbValidatorKilled, PerhapsExecuted

(***************************************************************************)
(* update_service is the protocol's Scale: it is called for an execution   *)
(* in ServiceRecoveryHandler.  Terraform's count is its Unscale.           *)
(***************************************************************************)
LEMMA RecoveryRefines ==
    ASSUME RefinementInv, NEW e \in Executions, RecoveryHandlerStep(e)
    PROVE  \/ Scaled' = Scaled
           \/ Stage[e] = "writable" /\ Scaled' = TRUE
<1>1. RecoveryTypeOK /\ state[e] = "ServiceRecoveryHandler"
  BY RecoveryStepLocal DEF RefinementInv, SafetyInv, TypeOK, TaskInv
<1>2. Stage[e] = "writable"
  BY <1>1, StageValues DEF Stage
<1>3. CASE ecs' = [ecs EXCEPT !.desired = DesiredCount]
  <2>1. Scaled'
    BY <1>1, <1>3, RecoveryAssumption
       DEF RecoveryTypeOK, EcsTypeOK, Service, Scaled
  <2>2. QED
    BY <1>2, <2>1
<1>4. CASE UNCHANGED ecs
  BY <1>4 DEF Scaled
<1>5. QED
  BY <1>3, <1>4
     DEF RecoveryHandlerStep, UpdateService, UpdateErrored,
         ServicePollConfirms, ServicePollWaits, RecoveryTimesOut,
         DescribeServiceRaises, RecoveryHandlerKilled, ecsVars

(***************************************************************************)
(* A step of ECS, or of Terraform, is a step of the protocol's Scaled.     *)
(***************************************************************************)
LEMMA EcsRefines ==
    ASSUME EcsTypeOK, EcsNext
    PROVE  Scaled' = Scaled \/ Scaled' = FALSE
<1> USE DEF EcsTypeOK, Service
<1>1. CASE TerraformApply
  <2>1. PICK rollout :
          ecs' = [ecs EXCEPT !.desired = TerraformDesired, !.rollout = rollout]
    BY <1>1 DEF TerraformApply
  <2>2. QED
    BY <2>1, ScaledToZero DEF Scaled
<1>2. CASE ~TerraformApply
  <2>1. ecs'.desired = ecs.desired
    BY <1>2 DEF EcsNext, TaskPlaced, TaskStarts, TaskStopped, TaskDies,
                TargetHealthy, RolloutCompletes, WithRunning
  <2>2. QED
    BY <2>1 DEF Scaled
<1>3. QED
  BY <1>1, <1>2

(***************************************************************************)
(* Each step of the composition is a step of the protocol, or leaves what  *)
(* the protocol sees alone.                                                *)
(***************************************************************************)
LEMMA NextRefines ==
    ASSUME RefinementInv, [Next]_vars
    PROVE  [Protocol!ProtocolNext]_(Protocol!protocolVars)
<1> USE DEF replicaPart, databasePart, servicePart, sitePart
<1> DEFINE Unseen == UNCHANGED <<Stage, Promoted, Written, Scaled>>
<1>1. Unseen => UNCHANGED Protocol!protocolVars
  BY DEF Protocol!protocolVars, Stage, Promoted, Written, Scaled
<1>2. ASSUME NEW e \in Executions, StartExecution(e) \/ Transition(e)
      PROVE  [Protocol!ProtocolNext]_(Protocol!protocolVars)
  <2>1. UNCHANGED <<db, schema, ecs>>
    BY <1>2
       DEF StartExecution, Transition, DBAvailable, WaitOver, DBWritable,
           DBNotWritable, ECSHealthy, ECSNotHealthy, ApplicationHealthy,
           TaskFails, InvokeReplicaHandler, InvokeDbValidator,
           InvokeRecoveryHandler, InvokeAppValidator, dbVars, ecsVars
  <2>2. UNCHANGED <<Promoted, Written, Scaled>>
    BY <2>1 DEF Promoted, Written, Scaled
  <2>3. \/ Stage' = Stage
        \/ Protocol!Begin(e)
        \/ Protocol!ConfirmPromotion(e)
        \/ Protocol!ConfirmWrite(e)
        \/ Protocol!Complete(e)
        \/ Protocol!Fail(e)
    BY <1>2, <2>2, TransitionRefines
       DEF Stage, Promoted, Written, Scaled, Protocol!Begin, Protocol!Moves,
           Protocol!ConfirmPromotion, Protocol!ConfirmWrite,
           Protocol!Complete, Protocol!Fail
  <2>4. QED
    BY <1>1, <2>2, <2>3 DEF Protocol!ProtocolNext
<1>3. ASSUME NEW e \in Executions, LambdaStep(e)
      PROVE  [Protocol!ProtocolNext]_(Protocol!protocolVars)
  <2>1. Stage' = Stage
    <3>1. UNCHANGED state
      BY <1>3 DEF LambdaStep
    <3>2. QED
      BY <3>1 DEF Stage, StageOf
  <2>2. CASE ReplicaHandlerStep(e) /\ UNCHANGED <<schema, ecs>>
    <3>1. db'.source = db.source
      BY <2>2, HandlerStepType DEF RefinementInv, SafetyInv, TypeOK
    <3>2. QED
      BY <1>1, <2>1, <2>2, <3>1 DEF Promoted, Written, Scaled
  <2>3. CASE ValidateDbStep(e) /\ UNCHANGED ecs
    <3>1. UNCHANGED <<Promoted, Scaled>>
      BY <2>3, ValidateDbStepType
         DEF RefinementInv, SafetyInv, TypeOK, Promoted, Scaled
    <3>2. Written' = Written \/ Protocol!Write(e)
      BY <2>1, <2>3, <3>1, ValidationRefines
         DEF Stage, Promoted, Written, Scaled, Protocol!Write
    <3>3. QED
      BY <1>1, <2>1, <3>1, <3>2 DEF Protocol!ProtocolNext
  <2>4. CASE RecoveryHandlerStep(e) /\ UNCHANGED <<db, schema>>
    <3>1. UNCHANGED <<Promoted, Written>>
      BY <2>4 DEF Promoted, Written
    <3>2. Scaled' = Scaled \/ Protocol!Scale(e)
      BY <2>1, <2>4, <3>1, RecoveryRefines
         DEF Stage, Promoted, Written, Scaled, Protocol!Scale
    <3>3. QED
      BY <1>1, <2>1, <3>1, <3>2 DEF Protocol!ProtocolNext
  <2>5. CASE UNCHANGED <<db, schema, ecs>>
    BY <1>1, <2>1, <2>5 DEF Promoted, Written, Scaled
  <2>6. QED
    BY <1>3, <2>2, <2>3, <2>4, <2>5
       DEF LambdaStep, ValidateAppStep, GetAnswered, GetFails,
           AppValidatorKilled, ecsVars
<1>4. CASE RdsNext
             /\ UNCHANGED <<state, rfh, databasePart, servicePart, sitePart>>
  <2>1. UNCHANGED <<Stage, Written, Scaled>>
    BY <1>4 DEF Stage, StageOf, Written, Scaled
  <2>2. Promoted' = Promoted \/ Promoted' = TRUE
    BY <1>4, RdsStep
       DEF Promoted, RefinementInv, SafetyInv, TypeOK, ReplicaTypeOK
  <2>3. Promoted' => \E e \in Executions : Stage[e] # "none"
    <3>1. SUFFICES ASSUME Promoted'
                   PROVE  \E e \in Executions : Stage[e] # "none"
      OBVIOUS
    <3>2. db.promoting \/ ~db.source
      BY <1>4, <3>1, RdsPromotesOnRequest
         DEF Promoted, RefinementInv, SafetyInv, TypeOK, ReplicaTypeOK
    <3>3. PICK e \in Executions : state[e] # "NotStarted"
      BY <3>2 DEF RefinementInv, StartedInv
    <3>4. Stage[e] # "none"
      BY <3>3, StageValues
         DEF Stage, RefinementInv, SafetyInv, TypeOK, States, Tasks, Terminal
    <3>5. QED
      BY <3>4
  <2>4. Promoted' = Promoted \/ Protocol!Detach
    BY <2>1, <2>2, <2>3
       DEF Stage, Promoted, Written, Scaled, Protocol!Detach
  <2>5. QED
    BY <1>1, <2>1, <2>4 DEF Protocol!ProtocolNext
<1>5. CASE EcsNext
             /\ UNCHANGED <<state, replicaPart, databasePart, srh, sitePart>>
  <2>1. UNCHANGED <<Stage, Promoted, Written>>
    BY <1>5 DEF Stage, StageOf, Promoted, Written
  <2>2. Scaled' = Scaled \/ Protocol!Unscale
    BY <1>5, <2>1, EcsRefines
       DEF Stage, Promoted, Written, Scaled, Protocol!Unscale, RefinementInv,
           SafetyInv, TypeOK, RecoveryTypeOK
  <2>3. QED
    BY <1>1, <2>1, <2>2 DEF Protocol!ProtocolNext
<1>6. CASE UNCHANGED <<state, db, schema, ecs>>
  BY <1>1, <1>6 DEF Stage, StageOf, Promoted, Written, Scaled
<1>7. CASE EnvironmentStep
  BY <1>4, <1>5, <1>6, <1>7 DEF EnvironmentStep, PrimaryChanges
<1>8. CASE UNCHANGED vars
  BY <1>6, <1>8 DEF vars
<1>9. QED
  BY <1>2, <1>3, <1>7, <1>8 DEF Next

(***************************************************************************)
(* The initial states are initial states of the protocol.                  *)
(***************************************************************************)
LEMMA InitRefines == Init => Protocol!ProtocolInit
<1> SUFFICES ASSUME Init
             PROVE  Protocol!ProtocolInit
  OBVIOUS
<1>1. Stage = [e \in Executions |-> "none"]
  BY StageValues DEF Init, Stage
<1>2. ~Promoted /\ ~Written /\ ~Scaled
  BY ScaledToZero DEF Init, DbInit, DbValidatorInit, EcsInit, Promoted, Written,
                      Scaled
<1>3. QED
  BY <1>1, <1>2 DEF Protocol!ProtocolInit, Stage, Promoted, Written, Scaled

(***************************************************************************)
(* The failover implements its protocol: the database is detached only     *)
(* because an execution was started, an execution goes on only when what   *)
(* it was told is a fact, and only one that has written a row scales the   *)
(* service.                                                                *)
(***************************************************************************)
THEOREM ProtocolImplemented == Spec => ImplementsProtocol
<1>1. RefinementInv /\ [Next]_vars
        => [Protocol!ProtocolNext]_(Protocol!protocolVars)
  BY NextRefines
<1>2. QED
  BY <1>1, InitRefines, RefinementInvariant, PTL
     DEF Spec, ImplementsProtocol, Protocol!ProtocolSpec
=============================================================================
