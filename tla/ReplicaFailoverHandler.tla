----------------------- MODULE ReplicaFailoverHandler -----------------------
(***************************************************************************)
(* src/lambdas/replica-failover-handler/app.py: promotes the DR read       *)
(* replica and waits until RDS shows it as a stand-alone instance.         *)
(*                                                                         *)
(* The invocation of an execution e is a process: each call it makes to    *)
(* RDS is one step, and RDS and the other invocations move between them.   *)
(* An invocation's clock is `waited', the seconds it has slept; Lambda     *)
(* kills it when that reaches the function's timeout                       *)
(* (src/environments/operations/dr_orchestration/locals.tf:4).             *)
(***************************************************************************)
EXTENDS DrDatabase

CONSTANTS
    PollInterval,       \* POLL_INTERVAL_SECONDS
    MaxWait,            \* MAX_WAIT_SECONDS
    LambdaTimeout,      \* locals.tf: checks["replica-failover-handler"].timeout
    MaxLag              \* MAX_REPLICATION_LAG_SECONDS

ASSUME HandlerAssumption ==
    /\ PollInterval \in Nat \ {0}
    /\ MaxWait \in Nat \ {0}
    /\ LambdaTimeout \in Nat \ {0}
    /\ MaxLag \in Nat

VARIABLE
    rfh         \* what each invocation is doing, and what it returned

replicaVars == <<dbVars, rfh>>

Report == [replica_ready     : BOOLEAN,
           promotion_started : BOOLEAN,
           db_available      : BOOLEAN]

ReportOf(ready, started, available) ==
    [replica_ready     |-> ready,
     promotion_started |-> started,
     db_available      |-> available]

\* "describe" and "promote": about to make that call; "polling": in the loop;
\* "returned": the report is the Lambda's answer; "failed": an exception left
\* the handler or Lambda killed it, and there is no answer.
Invocation ==
    [pc     : {"idle", "describe", "promote", "polling", "returned", "failed"},
     waited : Nat,
     stable : Nat,       \* stable_success_count
     report : Report]

ReplicaTypeOK ==
    /\ EnvTypeOK
    /\ DbTypeOK
    /\ rfh \in [Executions -> Invocation]

ReplicaHandlerInit ==
    rfh = [e \in Executions |->
             [pc |-> "idle", waited |-> 0, stable |-> 0,
              report |-> ReportOf(FALSE, FALSE, FALSE)]]

ReplicaInit ==
    /\ EnvInit
    /\ DbInit
    /\ ReplicaHandlerInit

-----------------------------------------------------------------------------

NoLag == "None"

\* extract_replica_lag: a describe answer holds no lag, and the function
\* returns None whatever it is given.
ExtractReplicaLag(d) == NoLag

\* (mutant of NotReady) the status is not looked at.
NotReadyByLagOnly(d) ==
    /\ ExtractReplicaLag(d) # NoLag
    /\ ExtractReplicaLag(d) > MaxLag

\* The two early returns before the promotion.
NotReady(d) ==
    \/ d.status # "available"
    \/ /\ ExtractReplicaLag(d) # NoLag
       /\ ExtractReplicaLag(d) > MaxLag

\* (mutant of PromotionComplete) the instance may still be a replica.
PromotionCompleteAnySource(d) ==
    /\ d.status = "available"
    /\ ~d.pending
    /\ d.endpoint

\* is_promotion_complete
PromotionComplete(d) ==
    /\ d.status = "available"
    /\ ~d.source
    /\ ~d.pending
    /\ d.endpoint

Return(e, report) ==
    rfh' = [rfh EXCEPT ![e] = [@ EXCEPT !.pc = "returned", !.report = report]]

StartPolling(e) ==
    rfh' = [rfh EXCEPT ![e] = [@ EXCEPT !.pc = "polling", !.waited = 0,
                                        !.stable = 0]]

InvokeReplicaHandler(e) ==
    /\ rfh[e].pc = "idle"
    /\ rfh' = [rfh EXCEPT ![e].pc = "describe"]
    /\ UNCHANGED dbVars

DescribeNotReady(e) ==
    /\ rfh[e].pc = "describe"
    /\ NotReady(db)
    /\ Return(e, ReportOf(FALSE, FALSE, FALSE))
    /\ UNCHANGED dbVars

DescribeReady(e) ==
    /\ rfh[e].pc = "describe"
    /\ ~NotReady(db)
    /\ rfh' = [rfh EXCEPT ![e].pc = "promote"]
    /\ UNCHANGED dbVars

PromoteAccepted(e) ==
    /\ rfh[e].pc = "promote"
    /\ PromotionAccepted
    /\ StartPolling(e)
    /\ UNCHANGED envVars

\* (mutant of PromoteRefused) the fault is treated like any other exception.
PromoteRefusedReported(e) ==
    /\ rfh[e].pc = "promote"
    /\ ~CanPromote(db)
    /\ Return(e, ReportOf(TRUE, FALSE, FALSE))
    /\ UNCHANGED dbVars

\* InvalidDBInstanceStateFault is logged and the handler goes on.
PromoteRefused(e) ==
    /\ rfh[e].pc = "promote"
    /\ ~CanPromote(db)
    /\ StartPolling(e)
    /\ UNCHANGED dbVars

\* Any other exception is reported as a promotion that was not started; the
\* request may have reached RDS all the same.
PromoteErrored(e) ==
    /\ rfh[e].pc = "promote"
    /\ Fault
    /\ PromotionAccepted \/ UNCHANGED db
    /\ Return(e, ReportOf(TRUE, FALSE, FALSE))

\* (mutant of StableAfter) counted down instead of reset.
StableAfterCountedDown(e, d) ==
    IF PromotionComplete(d) THEN rfh[e].stable + 1 ELSE rfh[e].stable - 1

\* (mutant of StableAfter) set instead of counted.
StableAfterNotCounted(e, d) == IF PromotionComplete(d) THEN 1 ELSE 0

\* What stable_success_count becomes after a look at the instance.
StableAfter(e, d) == IF PromotionComplete(d) THEN rfh[e].stable + 1 ELSE 0

InTime(e) == rfh[e].waited < LambdaTimeout

\* One turn of the loop that finds the promotion complete for the second time
\* in a row.
PollConfirms(e) ==
    /\ rfh[e].pc = "polling"
    /\ InTime(e)
    /\ rfh[e].waited < MaxWait
    /\ StableAfter(e, db) >= 2
    /\ Return(e, ReportOf(TRUE, TRUE, TRUE))
    /\ UNCHANGED dbVars

\* (mutant of PollWaits) the clock is started again on every turn.
PollWaitsAnew(e) ==
    /\ rfh[e].pc = "polling"
    /\ InTime(e)
    /\ rfh[e].waited < MaxWait
    /\ StableAfter(e, db) < 2
    /\ rfh' = [rfh EXCEPT ![e] = [@ EXCEPT !.stable = StableAfter(e, db)]]
    /\ UNCHANGED dbVars

\* One turn of the loop that does not, with the sleep that ends it.
PollWaits(e) ==
    /\ rfh[e].pc = "polling"
    /\ InTime(e)
    /\ rfh[e].waited < MaxWait
    /\ StableAfter(e, db) < 2
    /\ rfh' = [rfh EXCEPT ![e] =
                  [@ EXCEPT !.stable = StableAfter(e, db),
                            !.waited = rfh[e].waited + PollInterval]]
    /\ UNCHANGED dbVars

\* The loop's own timeout.
PollTimesOut(e) ==
    /\ rfh[e].pc = "polling"
    /\ InTime(e)
    /\ rfh[e].waited >= MaxWait
    /\ Return(e, ReportOf(FALSE, TRUE, FALSE))
    /\ UNCHANGED dbVars

\* Nothing catches an exception of describe_db_instances.
DescribeRaises(e) ==
    /\ rfh[e].pc \in {"describe", "polling"}
    /\ Fault
    /\ rfh' = [rfh EXCEPT ![e].pc = "failed"]
    /\ UNCHANGED db

\* Lambda kills the invocation at its timeout, before the loop is over or
\* because a call hangs; promote_read_replica may have reached RDS by then.
ReplicaHandlerKilled(e) ==
    /\ rfh[e].pc \in {"describe", "promote", "polling"}
    /\ \/ rfh[e].pc = "polling" /\ ~InTime(e) /\ UNCHANGED envVars
       \/ Fault
    /\ \/ rfh[e].pc = "promote" /\ PromotionAccepted
       \/ UNCHANGED db
    /\ rfh' = [rfh EXCEPT ![e].pc = "failed"]

\* What an invocation does once it has been invoked.
ReplicaHandlerStep(e) ==
    \/ DescribeNotReady(e)
    \/ DescribeReady(e)
    \/ PromoteAccepted(e)
    \/ PromoteRefused(e)
    \/ PromoteErrored(e)
    \/ PollConfirms(e)
    \/ PollWaits(e)
    \/ PollTimesOut(e)
    \/ DescribeRaises(e)
    \/ ReplicaHandlerKilled(e)

ReplicaNext ==
    \/ \E e \in Executions : InvokeReplicaHandler(e) \/ ReplicaHandlerStep(e)
    \/ RdsNext /\ UNCHANGED rfh

ReplicaSpec == ReplicaInit /\ [][ReplicaNext]_replicaVars

\* Lambda runs an invocation to its end, and RDS finishes what it has begun.
ReplicaFairSpec ==
    /\ ReplicaSpec
    /\ RdsFairness
    /\ \A e \in Executions : WF_replicaVars(ReplicaHandlerStep(e))

-----------------------------------------------------------------------------

(***************************************************************************)
(* A Lambda answer db_available = true (app.py:113-122) is only given for  *)
(* a database that is detached from its source: the instance still shows   *)
(* `available' for a while after promote_read_replica is accepted, and     *)
(* other invocations and RDS change it between the polls.  Detachment is   *)
(* final, so the answer may be acted on at any later time.                 *)
(***************************************************************************)
AvailableMeansPromoted ==
    \A e \in Executions :
        rfh[e].pc = "returned" /\ rfh[e].report.db_available => ~db.source

(***************************************************************************)
(* An invocation that polls is waiting for something: a promotion is under *)
(* way or over.  It is what app.py:64 logs of a refused promotion          *)
(* ("Replica already being promoted or already promoted").                 *)
(***************************************************************************)
PollingMeansPromotion ==
    \A e \in Executions :
        rfh[e].pc = "polling" => db.promoting \/ ~db.source

(***************************************************************************)
(* It holds where RDS does nothing of its own to the instance: invocations *)
(* that overlap, on an instance that may still be being created, cannot    *)
(* send each other into a wait for nothing (app.py:35-44, 60-64).          *)
(***************************************************************************)
UndisturbedPolling == disturbances = 0 => PollingMeansPromotion

(***************************************************************************)
(* When the promotion is over and nothing disturbs the instance any more,  *)
(* an invocation that can still make two polls (app.py:85-125) answers     *)
(* db_available = true: neither the loop's bound nor the counter of stable *)
(* polls makes it miss a database that is ready.                           *)
(***************************************************************************)
TwoPollsLeft(e) ==
    /\ rfh[e].pc = "polling"
    /\ rfh[e].waited + PollInterval < MaxWait
    /\ rfh[e].waited + PollInterval < LambdaTimeout

ReadyDatabaseIsReported ==
    \A e \in Executions :
        (TwoPollsLeft(e) /\ Undisturbed /\ Settled(db) /\ ~db.source)
          ~> (rfh[e].pc = "returned" /\ rfh[e].report.db_available)
=============================================================================
