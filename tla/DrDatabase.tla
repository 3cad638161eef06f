----------------------------- MODULE DrDatabase -----------------------------
(***************************************************************************)
(* The DR database instance, as the failover Lambdas meet it.  RDS itself  *)
(* is outside the repository: the instance is modelled from the fields     *)
(* src/lambdas/replica-failover-handler/app.py reads of a                  *)
(* describe_db_instances answer, from the call it makes                    *)
(* (promote_read_replica) and from the faults it catches.                  *)
(*                                                                         *)
(* `promoting' and `behind' are facts of RDS that no answer shows: that a  *)
(* promotion was accepted and is not over, and that the replica is more    *)
(* than MAX_REPLICATION_LAG_SECONDS behind the primary.                    *)
(***************************************************************************)
EXTENDS AwsEnvironment

VARIABLE
    db              \* the instance

dbVars == <<db, envVars>>

Instance ==
    [status    : {"creating", "available", "modifying"},  \* DBInstanceStatus
     source    : BOOLEAN,   \* ReadReplicaSourceDBInstanceIdentifier is set
     pending   : BOOLEAN,   \* PendingModifiedValues is not empty
     endpoint  : BOOLEAN,   \* Endpoint.Address is present
     promoting : BOOLEAN,
     behind    : BOOLEAN]

DbTypeOK == db \in Instance

(***************************************************************************)
(* Terraform creates the replica (dr/read_replica_rds); a failover may be  *)
(* started while it is still being created.                                *)
(***************************************************************************)
DbInit ==
    \E created \in BOOLEAN :
        db = [status    |-> IF created THEN "available" ELSE "creating",
              source    |-> TRUE,
              pending   |-> FALSE,
              endpoint  |-> created,
              promoting |-> FALSE,
              behind    |-> FALSE]

-----------------------------------------------------------------------------

\* promote_read_replica is accepted in this state; in any other one it is
\* answered with InvalidDBInstanceStateFault.
CanPromote(d) == d.status = "available" /\ d.source /\ ~d.promoting

\* The instance has nothing left to do.
Settled(d) == d.status = "available" /\ ~d.pending /\ ~d.promoting

\* RDS accepts promote_read_replica.
PromotionAccepted ==
    /\ CanPromote(db)
    /\ db' = [db EXCEPT !.promoting = TRUE]

DbCreated ==
    /\ db.status = "creating"
    /\ db' = [db EXCEPT !.status = "available", !.endpoint = TRUE]
    /\ UNCHANGED envVars

\* An accepted promotion shows in the status only some time after the call.
PromotionBegins ==
    /\ db.promoting
    /\ db.status = "available"
    /\ db' = [db EXCEPT !.status = "modifying"]
    /\ UNCHANGED envVars

\* The replica is detached from its source.  Engine parameters may be left to
\* apply, and RDS takes a backup or reboots before the instance is available.
PromotionEnds ==
    /\ db.promoting
    /\ db.status = "modifying"
    /\ \E status \in {"available", "modifying"}, pending \in BOOLEAN :
         db' = [db EXCEPT !.status = status, !.source = FALSE,
                          !.pending = pending, !.promoting = FALSE]
    /\ UNCHANGED envVars

\* Pending values are applied and the instance is available again.
DbSettles ==
    /\ ~db.promoting
    /\ db.status # "creating"
    /\ ~Settled(db)
    /\ db' = [db EXCEPT !.status = "available", !.pending = FALSE]
    /\ UNCHANGED envVars

\* A backup, a maintenance reboot or a modification that nobody asked the
\* failover for.
DbDisturbed ==
    /\ Disturbance
    /\ Settled(db)
    /\ \E status \in {"available", "modifying"}, pending \in BOOLEAN :
         /\ status = "modifying" \/ pending
         /\ db' = [db EXCEPT !.status = status, !.pending = pending]

\* Replication lag grows past the limit or shrinks under it; what is behind
\* when the replica is detached stays lost.
LagChanges ==
    /\ db.source
    /\ db' = [db EXCEPT !.behind = ~@]
    /\ UNCHANGED envVars

RdsNext ==
    \/ DbCreated
    \/ PromotionBegins
    \/ PromotionEnds
    \/ DbSettles
    \/ DbDisturbed
    \/ LagChanges

\* RDS finishes what it has begun.
RdsFairness ==
    /\ WF_dbVars(DbCreated)
    /\ WF_dbVars(PromotionBegins)
    /\ WF_dbVars(PromotionEnds)
    /\ WF_dbVars(DbSettles)
=============================================================================
