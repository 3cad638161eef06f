# The multi-region DR platform in TLA+

A verification development of the multi-region disaster-recovery platform:
TLA+ modules for its failover machinery, its deployment and the database client
its setup Lambda is packaged with, TLC configurations that check them on small
instances, and proofs, checked by TLAPS, of the properties that matter most. Paths below are relative to the repository's `src/`.

1. [The system](#1-the-system)
2. [What makes it hard](#2-what-makes-it-hard)
3. [The modules](#3-the-modules)
4. [What the runs check](#4-what-the-runs-check)
5. [What is proved](#5-what-is-proved)
6. [Where the code and its documents disagree](#6-where-the-code-and-its-documents-disagree)
7. [What is not modelled](#7-what-is-not-modelled)
8. [Plan](#8-plan)

## 1. The system

A WordPress site runs on ECS in a primary region, with its database in RDS. A
second region holds a read replica, a scaled-to-zero ECS service, an ALB and a
copy of the media bucket. CloudFront serves the site from either region. An
operator starts a Step Functions execution to fail over (README.md:410-421).

| Component | Code | State it keeps | Operations | Correct when |
|---|---|---|---|---|
| Failover state machine | `stepfunctions/dr-failover-orchestrator.asl.json` | the state of each execution and the reports of its Lambdas | start, four Tasks, four Choices, a Wait | no task is started on a database that cannot take writes; every execution ends; a second execution can finish a broken one |
| Replica failover handler | `lambdas/replica-failover-handler/app.py` | seconds waited, count of stable polls | describe, promote, poll | `db_available` means detached; a ready instance is reported; waits only for a promotion |
| DB write validation | `lambdas/validate-db-writable/app.py` | none; one table in the database | connect, create table, insert | a positive verdict stands for a committed row, a detached database, a good secret |
| Service recovery handler | `lambdas/service-recovery-handler/app.py` | seconds waited | update_service, poll | a healthy verdict stands for running tasks; the scaling outlives the handler |
| Application validation | `lambdas/validate-application/app.py` | none | one GET | a positive verdict is about the DR site |
| DR database | RDS; `environments/dr/read_replica_rds` | status, source, pending values, endpoint | promotion and its phases, modifications | (external) |
| DR service | ECS and ALB; `modules/ecs`, `modules/alb`, `environments/dr/ecs` | desired, running, pending counts, rollout, healthy targets | place, start, stop, register; `terraform apply` | (external) |
| Traffic routing | `modules/cdn_dns` | health of the admin record | origin failover, DNS failover | requests reach a site that can answer; no write reaches two databases |
| Primary database and credentials | `lambdas/primary-db-setup`, `modules/rds`, `environments/primary/rds` | WordPress password in the database and in two secrets | create user, rotate, copy to DR | tasks and validations hold a password the database accepts |
| Deployment | `scripts/deployment/{deploy,destroy}.sh`, `stacks_config.sh` | the stacks applied, their outputs | apply and destroy in order | a stack finds the outputs it reads; a failed run can be repeated |
| Image mirroring | `scripts/deployment/pull-docker-hub-to-ecr.sh` | images in ECR | pull, tag, push | the tag the task definition names exists in both regions |
| Media replication | `modules/s3`, `environments/dr/s3` | objects, versions, bucket policies | put, replicate, read with failover | reads find what was written, policies stay in force |
| Failover alarms | `environments/primary/failover_alarms` | alarm states | evaluate, notify | alarms on a real outage, not on missing data |
| pymysql: connection and cursors | `lambdas/primary-db-setup/package/pymysql/{connections,cursors}.py` | socket, packet number, the result last read, rows of each cursor | execute, callproc, nextset, fetch, close, ping, connect | each answer goes to its command and each row to its cursor; no read waits for nothing |
| pymysql: login | `connections.py` (`connect`, `_process_auth`), `_auth.py` | salt, plugin, public key, `_secure` | greeting, response, switch, the exchange of each plugin | client and server agree on the outcome; a right password logs in |
| pymysql: statements, packets, rows | `cursors.py` (`executemany`), `protocol.py`, `converters.py` | the statement being put together, packet numbers | escape, join, cut into packets, reassemble, classify, convert | the table gets what a loop would insert; rows come back as they were |

How they interact. An execution of the state machine invokes the Lambdas one
after the other and branches on one Boolean of each answer. The Lambdas share
no memory; they meet in AWS: the first one changes the RDS instance that the
second one writes to, the third one changes the ECS service whose tasks read
the DR secret the second one has tried, and the fourth one asks the public
address, behind which CloudFront chooses between the two ALBs. Two of the
Lambdas, the write test and `primary-db-setup`, talk to MySQL through pymysql.
What they import when they run is the 1.1.2 of the layer `lambdas/pymysql-layer.zip`
(`modules/lambda/main.tf:11-30` zips the Lambda's directory with `app.py` at its
root, so that `package/` below it is on nobody's path, and attaches the layer).
What is modelled is the 1.0.2 that `primary-db-setup` pins (`requirements.txt`) and
that the repository holds as source in `package/`. Each Lambda uses one
cursor and reads every result; the library promises more. Operators are a part
of it: they start executions, as many as they like, and apply Terraform
stacks that set some of the same state.

The stacks themselves meet in their remote states. `deploy.sh` applies fifteen
of them in one order, `destroy.sh` takes them away in another; each stack reads
outputs that others have written, one of them a secret that a Lambda invoked
between two stacks has filled. Nothing but the order of the two scripts keeps
those reads from failing.

## 2. What makes it hard

* **Interleaving.** Executions are not serialised. Two of them promote the same
  instance, write to the same table and scale the same service; RDS starts
  backups and modifications, ECS replaces tasks and operators apply Terraform
  between any two calls.
* **Partial failure.** A call may be carried out although it raised; a Lambda may
  be killed between two calls. No Task has a Retry or a Catch, so what is left
  behind is found by the next execution.
* **Stale answers.** A status that was read is acted on later. An instance that
  has accepted a promotion still says `available`. The DR secret is a copy.
* **Time.** Two loops with their own limit (900 s) inside functions with a smaller
  one (300 s).
* **Repeated scripts.** `deploy.sh` and `destroy.sh` stop at the first failure and
  undo nothing. What they find the next time is any part of a platform.
* **One socket.** All cursors of a connection share one conversation, in which
  nothing names the command a packet answers; only a packet number that wraps
  at 256 tells a late packet from the one awaited. A result outlives the
  session it came from, and the reads have no timeout.
* **A login of many lengths.** Seven authentication plugins with exchanges of
  different lengths; whoever loses its way in one takes a packet for the
  verdict that is none.
* **Boundaries.** Lengths of one, three, four and nine bytes, packets of exactly
  the largest size, rows that begin like an end marker.
* **Irreversibility.** The promotion cannot be undone; what is found wrong after it
  is found too late.

`PROJECT.json` lists each hazard with its line and the properties that watch it.

## 3. The modules

```
AwsEnvironment
 ├─ DrDatabase ── ReplicaFailoverHandler ─┐
 │        └────── ValidateDbWritable ─────┤
 └─ EcsService ── ServiceRecoveryHandler ─┼─ DrOrchestrator ──implements── FailoverProtocol
          └────── ValidateApplication ────┘

DbCredentials ── Deployment ──┐
               DeploymentPlan ┴─ MCDeployment

MySQLConnection    MySQLLogin    MySQLData ──implements── RowLoop
```

The three MySQL modules take one library apart by the questions asked of it:
which command a packet belongs to (no bytes, no login), what a login agrees on
(no commands), and what becomes of data (one call at a time).

**AwsEnvironment.** The executions, and two counters that bound what goes wrong in
a behaviour: `faults` (calls that fail, invocations that are killed) and
`disturbances` (changes of AWS or of the primary that nobody asked for). An
execution invokes each Lambda at most once, so an invocation is named by its
execution everywhere.

**DrDatabase** (external). The instance as the handlers see it: the four fields of
`get_promotion_checks` (app.py:151-165) and two facts no answer shows, that a
promotion was accepted and is not over, and that the replica is behind the lag
limit. A promotion goes through an `available` phase before its status says
`modifying`, and ends with or without pending values and a further
modification.

**ReplicaFailoverHandler.** One step per call to RDS. `pc` is the place in the
handler: `describe` (28), `promote` (62), `polling` (85-125). One turn of the
loop is one step: the call, `stable_success_count`, the early return or the
sleep. The clock of an invocation is `waited`; Lambda kills it at
`LambdaTimeout`, or earlier when a call hangs. `extract_replica_lag` returns None as in the code, so the
comparison with `MaxLag` in `NotReady` is never evaluated. `PromoteErrored` lets
the request have taken effect. Calls that do not hang take no time, so
the real handler is killed a little earlier than the modelled one.

**ValidateDbWritable.** Reading the secret, opening the connection and SELECT 1 are
one step (nothing is changed before they are done); CREATE TABLE and INSERT are
one step each, since the connection autocommits. `secret` says whether the copy
of the WordPress password in the DR secret is the one the database has; it is
chosen at the start, because the copy is made when Terraform is applied.

**EcsService** (external, with Terraform's part). Counts, rollout, healthy targets.
`TerraformApply` is an apply of `environments/dr/ecs`: `modules/ecs/main.tf` does
not ignore changes of `desired_count`, so the apply sets the 0 of
`ecs.tfvars` again.

**ServiceRecoveryHandler.** `update` (31), `polling` (48-78), and the last look after
the loop (80). As in the code, the test compares `runningCount` with the
configured count and not with the service's own.

**ValidateApplication.** One GET of the public address. `origin` records which ALB
answered, which neither the Lambda nor the state machine can see.

**DrOrchestrator.** The state machine composed with all of them. A Task state is
entered in the same step in which its Lambda is invoked, and left in the step
that evaluates the Choice after it; the Choice states therefore do not appear
as values of `state`. An uncaught Lambda failure is `TaskFailed`.

**FailoverProtocol.** What the failover promises, with no Lambda, poll or clock:
six stages per execution and three Booleans. `DrOrchestrator` maps to it with

| FailoverProtocol | DrOrchestrator |
|---|---|
| `stage[e]` | `StageOf(state[e])` |
| `promoted` | `~db.source` |
| `written` | `schema.rows > 0` |
| `scaled` | `ecs.desired > 0` |

**DbCredentials.** `primary-db-setup`: one step that changes the password in the
database and one that stores it. MySQL commits CREATE USER and ALTER USER at
once, so `conn.commit()` (app.py:82) does not make them one. A password is the
number of the call that generated it. `drSecret` is what
`environments/dr/read_replica_rds` copied at its last apply. One invocation is at
work at a time: `deploy.sh` waits for it, and the Lambda of a deployment that was
killed is taken to end before another one has applied the four stacks that come
first.

**DeploymentPlan.** Constants only: what each stack reads (its
`terraform_remote_state` blocks) and the steps of the two scripts.

**Deployment.** A job is one run of a script, `job.at` the step it is at. A step is
`apply` or `policy` (an apply with the two ARNs that give the media buckets their
policy), `setup`, `push`, `clean` or `destroy`.

| Code | Module |
|---|---|
| a stack's resources and state file | `built` |
| its outputs, as others read them | `outputs`, a subset of `built` |
| `aws_s3_bucket_policy` with `count` 1 | `policies` |
| the image in ECR | `images` |
| `set -e` | `Failed`, `Struck`: the job ends, nothing is undone |
| data sources that cannot be read | `PlanRefused` |
| an apply or destroy that stops half way | `ApplyFails`, `DestroyFails`: any part of its effect |
| the FunctionError no one reads | `SetupRaises`: the job goes on |
| the runner is lost | `JobKilled`; the Lambda goes on |

`struck` remembers that something failed in the job that the scripts did not
do themselves. A destroy of a stack with an empty state reads nothing
(`DestroyNothing`), which is why a teardown can follow any failure.

**MySQLConnection.** `conn` is the Connection (`_sock`, `_closed`, `_next_seq_id`,
`_result`, `server_status`), `cursor` the Cursor and SSCursor objects, `wire` what
the server has sent and nobody has read, `server` the session. The application
has one thread; a call in progress is a stack `todo` of what is left to do, and
one step reads at most one packet, so that a connection may break, or a server
go away, between any two.

| Code | Module |
|---|---|
| `_execute_command` (787-828) | `ReadyToSend`, `SendCommand`; before them the steps that drain what is unread (`NextResult`, `StreamRow`, `StreamEnds`) |
| `_read_packet` (683-726), `_read_bytes` | `Accept`, `ServerLost`, `SequenceWrong`, `ErrorPacket` |
| `MySQLResult.read` and `init_unbuffered_query` | tasks `read`, `rows`, `readUnbuffered` |
| `_read_rowdata_packet_unbuffered`, `_finish_unbuffered_query` | `StreamRow`, `StreamEnds` |
| `connect` (586-669), `ping`, `close`, `_force_close` | `ConnectWorks`, `ConnectFails`, `Reconnect`, `Close`, `ForceClosed` |
| an exception | `Raise`: the rest of `todo` is dropped, as far as no handler is in it |

`taken` is a history variable: the command an accepted packet answers, and the
one sent last. An answer is a sequence of kinds of packets, any one that
`FollowsProtocol`: result sets one after the other, and nothing behind the last
packet. A row is known by the command it answers and its place.

**MySQLLogin.** `client.pc` is the read that `connect` waits in. A proof of the
password is a term that says what it was computed from (kind, password, salt
with or without the NUL behind it, key); two are equal when the bytes are. The
Connection outlives the attempt, with the public key and `_secure` it has
learnt. Between any two messages the server may restart with another key pair
and an empty cache, the account's password may change, and the connection may
break.

**MySQLData.** One call of `executemany` and a `SELECT` of what it inserted. Sizes
are scaled: the largest packet is 24 bytes, packet numbers count modulo 4, the
limits between lengths of one, three, four and nine bytes are 3, 4 and 5. A
statement, a packet and a row are sequences of bytes at that scale, a byte of
SQL text standing for the row it is part of. The text protocol's length-encoded
integers (`protocol.py` 147-175), the tests for the kinds of packets (183-209)
and the conversion of TIME values (`converters.py` 102-230) are modelled by what
they compute.

**RowLoop.** What `executemany` says of itself, that it "is equivalent to looping
over args with execute()" (`cursors.py` 160): rows get into the table in order,
each once, and the call reports all of them or fails. `MySQLData` maps to it
with the rows given, the rows in the table, and the outcome the caller has.

Modules named `MC...` fix constants for TLC; modules named `...Proofs` hold
theorems. Operators marked "(mutant of X)" are never used by the
specifications: each is what a plausible mistake in the code of X would be, and
shows that the property it is paired with in `PROJECT.json` would notice it.

## 4. What the runs check

| Run | Specification | Bounds | Properties |
|---|---|---|---|
| `replica` | `ReplicaFairSpec` | 2 executions, 2 disturbances, 1 fault, loop 60 s, Lambda 90 s | `ReplicaTypeOK`, `AvailableMeansPromoted`, `UndisturbedPolling`, `ReadyDatabaseIsReported` |
| `recovery` | `RecoveryFairSpec` | 2 executions, 2 tasks, 1 disturbance, 1 fault, 1 apply, loop 45 s, Lambda 60 s | `RecoveryTypeOK`, `HealthyMeansCapacity`, `ScalingTakesEffect` |
| `orchestrator` | `Spec` | 2 executions, 1 task, 1 disturbance, 1 fault, 1 apply, loops longer than Lambda's timeout, as deployed | `TypeOK`, `NoTaskOnUnusableDatabase`, `WritableMeansCommittedRow`, `WritableMeansUsable`, `ImplementsProtocol` |
| `orchestrator_live` | `FairSpec` | 2 executions, 1 fault | `ExecutionsEnd`, `RerunCompletes` |
| `deployment` | `DeploymentSpec` | the scripts of the repository, 3 jobs, 2 faults | `DeploymentTypeOK`, `OnlyFaultsStopJobs`, `InputsOutlive`, `CompleteDeployment`, `SecretsOpenDatabase`, `CompleteTeardown` |
| `mysql_client` | `MySQLFairSpec` | a Cursor and an SSCursor, 4 calls, 1 fault, 5 answers, packet numbers modulo 8, results finished before a reconnect | `MySQLTypeOK`, `RepliesMatch`, `RowsAreOwn`, `NoWaitForNothing`, `AutocommitRestored`, `CallsReturn` |
| `mysql_auth` | `LoginFairSpec` | 2 passwords and none, 5 greetings, all plugins, 2 attempts, 1 change | `LoginTypeOK`, `LoginAgrees`, `RightPasswordLogsIn`, `OnlyUnsupportedRaises`, `FastPathWhenCached`, `LoginEnds` |
| `mysql_data` | `DataSpec` | up to 4 rows, 2 columns, 1 fault, sizes scaled as above | `DataTypeOK`, `StatementsFit`, `NoFalseAlarm`, `RowsComeBack`, `NobodyWaits`, `ImplementsLoop` |

and four runs that show a disagreement (section 6).

* `AvailableMeansPromoted`: a `db_available` answer is about a detached database,
  although the instance says `available` while it is still a replica, and other
  invocations and RDS change it between polls.
* `UndisturbedPolling`: overlapping invocations on an instance that RDS leaves alone
  do not send each other into a wait for nothing.
* `ReadyDatabaseIsReported`: neither the bound of the loop nor the counter of stable
  polls makes an invocation miss an instance that is ready.
* `HealthyMeansCapacity`, `ScalingTakesEffect`: the verdict and the effect of the
  scaling, whatever the other invocation does.
* `WritableMeansCommittedRow`, `WritableMeansUsable`: what a positive write test is
  evidence of, when answers are lost after statements were executed.
* `NoTaskOnUnusableDatabase`: the reason for the order of the state machine. No
  execution, however it fails or overlaps, asks for a WordPress task while the
  database is a replica, has not taken a write, or would refuse the secret.
* `ImplementsProtocol`: the refinement.
* `ExecutionsEnd`: the loops and Lambda's timeouts end every execution, although no
  Task has a timeout.
* `RerunCompletes`: where an execution was cut off after the scaling, another one
  completes: every step takes what it finds done for done.
* `OnlyFaultsStopJobs`: whatever part of the platform earlier jobs have left, the next
  script finds every remote state it reads, the secret included.
* `InputsOutlive`: neither script leaves a stack whose inputs are gone, wherever it
  stops.
* `CompleteDeployment`: the last line `deploy.sh` prints is true after any history, the
  bucket policies included, which every redeployment takes away and must bring
  back, and the DR secret, although the setup Lambda may have failed unnoticed in
  this very job.
* `CompleteTeardown`: when `destroy.sh` reports success, every stack and the credentials
  are gone, after any history. The container images are left out: `|| true` lets
  them stay (section 6).
* `SecretsOpenDatabase`: an earlier failure between ALTER USER and
  `put_secret_value` is put right by the next deployment in which nothing fails.
* `RepliesMatch`, `RowsAreOwn`: whatever an SSCursor, a second result set, an error
  or a row that could not be converted has left unread, no packet is taken for
  another command's and no cursor returns another's rows. One coincidence is
  excepted, because the code gets it wrong: a buffered result is given up just
  before a packet that is numbered as the first of an answer is (`LeavesStray`,
  below).
* `NoWaitForNothing`, `CallsReturn`: the client never reads, without a timeout, what
  nobody will send, and every call returns or raises. Both hold for an
  application that has finished its results before it reconnects;
  `mysql_reconnect` drops that condition.
* `AutocommitRestored`: after a reconnection a statement is committed as before.
* `LoginAgrees`: `connect` returns into a granted session with nothing left unread.
* `RightPasswordLogsIn`: the right password is refused for one reason only, a
  public key that the server has replaced since.
* `OnlyUnsupportedRaises`, `FastPathWhenCached`: the client gives up only where it has
  no code or no package for what the server asks; a password in the server's
  cache spares the full exchange, unless a switch has put a NUL behind the salt.
* `LoginEnds`: no exchange of messages leaves both ends waiting.
* `StatementsFit`: a statement of more than one row is never longer than
  `max_stmt_length`.
* `NoFalseAlarm`: no packet is taken for one out of order or of another kind, and a
  call fails only for a refused statement or a connection that broke.
* `RowsComeBack`: what is read is what was inserted, NULL, empty and long values
  and times included (with the exception of section 6, and of fractions the
  column has no digits for).
* `NobodyWaits`: a command of exactly the largest packet size is complete for both
  ends.
* `ImplementsLoop`: the refinement of `RowLoop`.

**Why these bounds are enough.** Two executions are the least that overlap; the
properties relate at most two of them, and the proofs of section 5 cover any
number. One disturbance is one change at an inconvenient time, two allow one
before and one after the promotion. The times are multiples of the poll
interval that let a loop turn three or four times: twice for stability, once
before and once at its limit. In `replica` and `recovery` the loop's limit
comes first, in `orchestrator` Lambda's, as deployed, so that both ends of the
loop are reached.
Three jobs are a first one, one that finds what it left, and one that finds
what both left; two faults let the first two stop anywhere, or one be hit twice.
`deployment` gives `HelperInPlace` the value TRUE, the layout that README.md:942
describes: with the repository's own, no deployment passes the image step
(`deployment_helper`), and nothing after it could be checked.
In `mysql_client` four calls are two on each cursor, or a command, what it left
behind, a reconnection and the next command; the five answers have every kind
of packet, an error after rows, and a second set. Packet numbers wrap at 3 and
the longest answer has 5 packets, so that numbers wrap within an answer, as they
do at 256 in a result of more than 255 packets. The next command's answer begins
with number 1 again, and so, when a conversion error gives up a buffered result
at a packet whose number is a multiple of the modulus, the packet behind it is
taken for that answer (connections.py:697, 1271-1274). The history variable
`server.stray` is set in just that case. `RepliesMatch`, `RowsAreOwn` and
`NoWaitForNothing` say nothing from then on; without the exception TLC finds each
command after it answered by a stray packet. What the client makes of a row in
the place of an OK packet or a header is its bytes' affair and not modelled
beyond its kind. In `mysql_auth` the second attempt meets
what the first one has left on the Connection, and the one change comes between
any two messages. The lengths in `mysql_data` lie on both sides of each of the
scaled limits, alone and next to each other.
Symmetry is used only in runs without liveness, over executions, which no
action distinguishes. Deadlock is not checked: an execution ends, and a system
whose executions have ended, or whose jobs are used up, has nothing left to do.

**Fairness.** `ReplicaHandlerStep(e)`, `RecoveryHandlerStep(e)`, and in the composition
a transition or a Lambda step of each started execution, are weakly fair: AWS
runs an invocation and an execution to its end. Starting an execution is
never fair: it is an operator's decision. Where a property is about the
outcome and not only about the end, what RDS and ECS have begun is weakly fair
(`RdsFairness`, `EcsFairness`); `ExecutionsEnd` does without. `ClientStep` of the MySQL
modules is weakly fair, because a call in progress is a thread that runs, and
so is `ServerStep` of the login, a server that answers what it is asked; the
next call of the application is not. `mysql_data` needs no fairness: that nobody
waits is an invariant there. No fairness is ever put
on faults, disturbances or applies.

## 5. What is proved

For every finite set of executions, all values of the times and counts, and any
number of faults, disturbances and applies:

| Theorem | Module | States |
|---|---|---|
| `ReplicaTypeCorrect`, `AvailableCorrect`, `UndisturbedCorrect` | DatabaseProofs | `ReplicaTypeOK`, `AvailableMeansPromoted`, `UndisturbedPolling` |
| `RecoveryTypeCorrect`, `CapacityCorrect` | ServiceRecoveryProofs | `RecoveryTypeOK`, `HealthyMeansCapacity` |
| `CommittedRowCorrect`, `UsableCorrect` | DatabaseProofs | `WritableMeansCommittedRow`, `WritableMeansUsable`, of the Lambda alone |
| `VerdictsCorrect` | DrOrchestratorProofs | both of them, of the composed failover |
| `TypeCorrect`, `NoTaskCorrect` | DrOrchestratorProofs | `TypeOK`, `NoTaskOnUnusableDatabase` |
| `ProtocolImplemented` | DrOrchestratorProofs | `ImplementsProtocol` |
| `DeploymentTypeCorrect` | DeploymentProofs | `DeploymentTypeOK` |
| `InputsCorrect`, `OnlyFaultsCorrect`, `TeardownCorrect` | DeploymentProofs | `InputsOutlive`, `OnlyFaultsStopJobs`, `CompleteTeardown`, for any stacks, inputs and scripts in the order `PlanOrdered` |
| `DeploymentIsComplete`, `SecretsCorrect` | DeploymentProofs | `CompleteDeployment`, `SecretsOpenDatabase`, for those that also satisfy `DeployComplete` |
| `LoginTypeCorrect`, `LoginAgreesCorrect` | MySQLLoginProofs | `LoginTypeOK`, `LoginAgrees`, for any passwords, plugins, attempts and changes |
| `RightPasswordCorrect`, `RaisesCorrect`, `FastPathCorrect` | MySQLLoginProofs | `RightPasswordLogsIn`, `OnlyUnsupportedRaises`, `FastPathWhenCached`, likewise |
| `MySQLTypesCorrect`, `RepliesMatchCorrect` | MySQLConnectionProofs | `MySQLTypeOK`, `RepliesMatch`, for any cursors, answers of any length, any modulus, calls and faults (until `server.stray`) |
| `RowsAreOwnCorrect`, `AutocommitRestoredCorrect` | MySQLConnectionProofs | `RowsAreOwn`, `AutocommitRestored`, likewise |
| `NoWaitForNothingCorrect` | MySQLConnectionProofs | `NoWaitForNothing`, if `FinishesResults` (until `server.stray`) |
| `DataTypesCorrect`, `StatementsFitCorrect`, `NoFalseAlarmCorrect`, `RowsComeBackCorrect`, `NobodyWaitsCorrect` | MySQLDataProofs | `DataTypeOK`, `StatementsFit`, `NoFalseAlarm`, `RowsComeBack`, `NobodyWaits`, for any rows and columns, any sizes of parts, numbers and statements, any faults |
| `ImplementsLoopCorrect` | MySQLDataProofs | `ImplementsLoop`, likewise |

The assumptions are those the modules state: `EnvironmentAssumption`,
`HandlerAssumption`, `EcsAssumption`, `RecoveryAssumption`, `LoginAssumption`,
`MySQLAssumption` (what the constants are; for the answers, that they follow the
protocol, at any length), `DataAssumption` (the ranges of the
constants; a packet holds more than 15 bytes, so that no packet but a statement
or a row has several parts, and lengths below 251, at most, are written in one byte)
and `ScaledToZero` (the DR service is deployed with no task,
`environments/dr/ecs/ecs.tfvars`).

**The argument for `NoTaskOnUnusableDatabase`.** The property alone is not inductive:
a Lambda about to scale the service would break it. `SafetyInv` adds why no such
Lambda is at work on an unusable database.
`TaskInv`: a Lambda is at work only for an execution that is in its Task.
`EvidenceInv`: the Tasks after the write test are only reached with a usable
database, which stays usable, since detachment is final and rows stay.
`DbInv`: the positive verdict that leads there is worth something; there are at
least as many rows as positive verdicts (`RowsInv`, which needs the cardinality
lemmas of the library), and an invocation that has opened a connection knows
the secret is good (`KnowsInv`).
`ServiceInv`: the service is empty or the database is usable.

**The argument for the refinement.** `RefinementInv` adds `AvailableMeansPromoted` (an
execution that leaves the promotion does so on a fact) and `StartedInv` (RDS
promotes only what a started execution has asked for). Then each transition is
one move of one stage (`TransitionRefines`), the INSERT is the protocol's Write
(`ValidationRefines`), `update_service` its Scale (`RecoveryRefines`), Terraform's 0 its
Unscale (`EcsRefines`), the end of a promotion its Detach, and every other step a
stutter.

**The argument for the deployment.** The theorems are about any set of stacks, any
inputs and any two scripts that satisfy `PlanOrdered`: a stack is applied after
the stacks it reads, the setup Lambda runs between the primary database and the
replica, a stack is destroyed after the stacks that read it, and all are
destroyed. MCDeployment assumes `PlanOrdered` of the repository's scripts, so TLC
evaluates it in each of its runs. `OnlyFaultsCorrect` also assumes `HelperInPlace`.
The state of the platform is
tied to the place of the running job: behind it, what a deployment has applied
has its outputs (`DeployProgress`), and what a teardown has destroyed is gone
(`DestroyProgress`). What holds whichever script ran last is that a built stack
has the outputs it reads (`BuiltOnOutputs`), so a stack that is there can be
refreshed and destroyed; the steps that remove outputs keep it because the
readers are gone by then. `CredentialsInv` and `SetupInv` add the same for the one
input that is not an output, the secret's version.

**The argument for a complete deployment.** `DeployComplete` says of the script that
it applies every stack, leaves every media stack with a policy that no later
plain apply takes off (`WithPolicy`), pushes the image everywhere, and changes no
password after the replica has its copy. `PlanOrdered` and `DeployComplete` are
facts about the list of steps; TLC evaluates both for the repository's scripts
(`ScriptsOrdered`, `ScriptsComplete` in MCDeployment). `CompletionInv` ties the
platform to the place in the script: `FilesInv` the policies and images, `CallInv`
the Lambda that the job waits for, `PasswordInv` that past the setup step no
Lambda is at work and, unless something failed, the secret is the database's
password, `CopyInv` that the DR secret is its copy, `DeployedInv` what a finished
deployment leaves until the next job.

**The argument for undisturbed polling.** `AttachedInv`: an attached instance nobody
promotes is not being modified; `PromoterInv`: an invocation about to promote has
seen it created. With no disturbance RDS then refuses only what it has accepted
before.

**The argument for the login.** `LoginAgrees` needs to know what can be on its way in
each state of the client. `SessionInv` says that nobody speaks out of turn: there
is one message at most, except for the OK behind a fast-path notice, and the
other end is where that message leads. One conjunct for each read of the
client (`GreetingInv`, `AuthInv`, `Sha2Inv`, `KeyInv`, `DialogInv`, `FinalInv`) lists the
messages it may get; the plugins differ in which of them they are. The server's
step then keeps `SessionInv` because it answers one message by one
(`ServerStepInv`), the client's because what it reads is on its list
(`ClientStepInv`).

`SessionInv` says who speaks; `TruthInv` says that what is said is true. Nothing in
the protocol ties a scramble to the salt it was made with: the client keeps the
salt of the last greeting or switch, the server the one it sent last, and the
two could come apart over a second switch, a second attempt, or a plugin guessed
before the account was known. `MessageInv` says of a packet on its way to the
client what it tells, that a salt is the session's, a key the server's, and an
error an error packet for a client that is `Mistaken`; `PhaseInv` what the client
has kept while it waits; `DataInv` what the data on its way to the server is made
of: a first answer is the one for the plugin the client was offered, a later one
is `Sincere`, the account's own plugin applied to the client's password and the
present salt. From these the server's verdict on the right password can only be
a refusal for an old key (`RefusedInv`), and the two other properties follow as
conjuncts of the same invariant.

**The argument for the connection.** What makes packets attributable is `WireInv`:
while the socket is open and the client is not about to find a wrong number,
every packet on the wire answers the last command (`OwnPackets`), in order, with
nothing behind a lost server's last word (`InOrder`). It is kept because
`SendCommand` first reads what an unfinished result has left; where it cannot,
the numbers betray the old packets (`Stuck`). It is enough that the first of them
does, for the client closes the connection at a wrong number and reads no
further: `HeadInv` says that a packet numbered 1 at the head of the wire is one
the client is still to read before it sends the next command. Only a conversion
error in a buffered result breaks that, and then `server.stray` is set. The
invariants are therefore proved as `server.stray \/ ...`, for answers of any
length; `StrayStays` keeps the first disjunct, once true, true.
`RepliesMatch` follows at once. `RowsInv` adds that a
result's and a cursor's rows are of the command each was given, and `BeforeInv`
that they come before all that is still unread, so a row that is appended is
later than the ones before it. `AutocommitInv` says that a session in the wrong
mode is one that `connect()` is still working on. `PromisedInv` is the converse of
`WireInv`: what the client is going to wait for is on the wire, a whole answer up
to a last packet (`WellFormed`), as far as the client still has to read. It
fails for a result that survives a reconnection, which is the finding of
`mysql_reconnect`; `FinishesResults` is the condition on the application that
excludes it, a constant of the module and true in `mysql_client`.

**The argument for the data.** The invariant (`DataInv` of MySQLDataProofs) accounts
for every byte between the two ends. `StatementInv`: the statement is the text of the rows since the last one
that was answered, in order, and a server finds these rows in it. `TableInv`: the
table has the rows of the statements before, and those of this one if it was
executed. `UpInv`: what the server has of a command, followed by the parts on their
way and what the client has still to send, is the command, cut where `Split` cuts
it; their numbers follow the server's and lead to the client's. `DownInv`: the same
of the packets the client has still to read, which are given for each of its states
(`Owed`), the first of them in part; nothing is missing from them unless the
connection is gone. `FetchedInv`: the rows read are the first ones. What the
properties need follows: a packet is taken for what it is because its kind can be
told from what is owed (`LengthsComeBack`, `PacketKinds`), and nobody waits because
the parts of what is owed are never none. For the refinement, only the server's
receipt of a whole statement changes the table, by the rows from the last answered
one on, and `StatementInv` makes the rows reported all of them.

The lemmas beneath it say what loops compute for sequences of any length: that a
payload is its parts put together, that a server finds in a statement the rows it
was made of (`RowsInRun`, `EndListed`), that a row is read column by column as it was
written, and a TIME as it was given. They are inductions, made with sets and not
with predicates: `SetInduction`, that a set of naturals with 0 and every successor
has them all, is `WFMin` for the order of the naturals applied to what the set
lacks; `RecursionExists` gives a recursive definition its function, and
`RangeInduction` its values.

The lemmas about a handler's steps are stated for the handler alone, without
its specification's Next, so that the composition cites them.

**Only model-checked.** `ReadyDatabaseIsReported`, `ScalingTakesEffect`, `ExecutionsEnd`,
`RerunCompletes`, `CallsReturn` and `LoginEnds` are liveness properties, out of the
prover's reach. Every invariant and every refinement that a passing run checks is
proved.

## 6. Where the code and its documents disagree

Each is a run that TLC ends with a counterexample; `PROJECT.json` quotes the lines.

* `replica_race` (`PollingMeansPromotion`): every refusal of the promotion is taken for
  "already being promoted or already promoted". If RDS refuses because a backup
  began after the status was read, nobody promotes, and the handler waits for
  nothing.
* `orchestrator_primary` (`CompletedOnDrAnswer`): the validation of the DR application
  asks the public address, which the primary answers if it can.
* `deployment_helper` (`OnlyFaultsStopJobs`): `deploy.sh` names the image script by a
  directory that does not exist (deploy.sh:81), so every deployment stops there,
  with no failure of AWS.
* `mysql_reconnect` (`NoWaitForNothing`): neither `close` nor `connect` nor `ping` clears
  `_result`. With a streaming result unread, the first command of the new session
  "make[s] sure it finishes" (connections.py:795) by reading, without a timeout,
  rows the new session will never send.

Met on the way, with no run of their own:

* The recovery handler compares `runningCount` with its own configuration and not
  with the service's desired count, so a Terraform apply during the recovery can
  make it report success for a service that is being scaled to 0.
* The replica handler never reads the replication lag, and its limit is never
  applied. It allows itself 900 seconds and Lambda 300, so its timeout report
  does not exist in the deployed system (`operations/dr_orchestration/locals.tf`).
* Running tasks are not healthy targets: the one request of the last validation
  can come before the ALB has passed a target, and fail a recovery in which
  nothing went wrong.
* Every deployment rotates the WordPress password, although the bootstrap is "to
  run only during initial provisioning" (README.md:1040). Between its two passes
  over the S3 stacks a live site has no bucket policies, and keeps none if the
  script stops there.
* `|| true` lets a teardown leave an ECR repository (README.md:995: "no orphaned
  resources").
* `escape_timedelta` writes the sign of the hours alone (converters.py:102-110):
  minus one second becomes -1:59:59. `RowsComeBack` excepts such values
  (`WrittenAsIs`), and a hazard lists them. The docstring of `convert_timedelta`
  gives (-2, 83177) for -25:06:17 (converters.py:194-195) where the code, rightly,
  returns (-2, 82423); and it promises None for illegal values, for which the
  string is returned.
* The salt of an authentication switch keeps the NUL behind it (_auth.py:218), so
  caching_sha2_password finds no cached password after a switch and always needs
  the full exchange; the 1.1.2 of the layer cuts it off. `server_public_key`
  survives a change of the server's key, and the right password is refused on
  that Connection from then on.
* cryptography and PyNaCl are neither in the package nor in the layer: without TLS
  `primary-db-setup` cannot log in with sha256_password, a full caching_sha2_password exchange or
  (with TLS either) client_ed25519. mysql_old_password calls a function that does
  not exist (connections.py:966).
* `open` is True after a `connect` that failed: `_sock` keeps the closed socket.

## 7. What is not modelled

* Networks, security groups, endpoints, certificates, IAM roles and the CI
  workflows: declarations without behaviour of their own.
* `terraform-validation.sh`, `terraform-verify.sh`: they run Terraform's own checks.
* Of pymysql: `show_warnings`, DictCursor, the constructor's options, handlers an
  application puts into `auth_plugin_map`, the Unix socket, SQL quoting and
  character sets, the converters other than text, binary, JSON, NULL and TIME,
  the tables of collations and error numbers. The cryptography of the login is
  terms. The layer's 1.1.2, which the Lambdas import when they run, is a zip and is
  not modelled; what 1.0.2 does is not claimed of it.
* Small steps of pymysql that are taken together or left out because nothing the
  properties look at hangs on them: the RuntimeError of LOAD DATA LOCAL with
  `local_infile` off, and an error packet in answer to the file
  (connections.py:1202-1219); a failure among the column definitions, which are
  one packet with the header; on a dead socket the order in which `_result` is
  cleared and the exception raised (connections.py:797-803); the `_rfile` None that
  a failed reconnection leaves beside the old socket, which is `dead` in the
  model.
* Statements under autocommit off: `ServerExecutes` commits each one at once, as on the
  connection of the write test (autocommit=True) and as `RowLoop` has it. That is
  not pymysql's own default.
* The wording of messages and logs, and the fields of reports no one reads.
* Overlapping runs of the two scripts, and overlapping invocations of the setup
  Lambda; the removal of the scripts' runtime directory, which no stack reads; the
  creation of the state bucket, and the state file an apply could not upload.
* The rest of section 1's table that has no module yet is in the plan.

## 8. Plan

In this order:

1. **Rotations under the failover**: `secret` in `ValidateDbWritable` as a consequence
   of the rotations and applies of `DbCredentials`, until the replica is detached;
   the tasks of the primary started before and after a rotation; overlapping
   invocations of the setup Lambda.
2. **Overlapping jobs**: two workflows on one state without a lock.
3. **TrafficRouting**: origin groups and the Route 53 failover record; then
   **SiteFailover**, which composes it with `FailoverProtocol` to ask which
   database writes reach when the primary comes back. They share a run with what
   they compose.
4. **MediaReplication** and **FailoverAlarms**.
5. Proofs: the secret argument of `NoTaskOnUnusableDatabase` under rotations, and the
   invariants of the modules above.
