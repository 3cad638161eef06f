------------------------- MODULE ValidateDbWritable -------------------------
(***************************************************************************)
(* src/lambdas/validate-db-writable/app.py: connects to the DR database    *)
(* with the WordPress credentials and writes a row.  The connection is     *)
(* opened with autocommit, so each statement is a step that stays done.    *)
(***************************************************************************)
EXTENDS DrDatabase

VARIABLES
    vdw,        \* what each invocation is doing, and what it returned
    secret,     \* is the DR secret's password the one the database has?
    schema      \* dr_failover_write_test: does it exist, how many rows

validateDbVars == <<dbVars, vdw, secret, schema>>

\* "connect": about to read the secret and connect; "table", "insert": about
\* to run that statement; "returned", "failed": as for the other Lambdas.
Validation ==
    [pc       : {"idle", "connect", "table", "insert", "returned", "failed"},
     writable : BOOLEAN]        \* db_writable

ValidateDbTypeOK ==
    /\ EnvTypeOK
    /\ DbTypeOK
    /\ vdw \in [Executions -> Validation]
    /\ secret \in {"current", "stale"}
    /\ schema \in [table : BOOLEAN, rows : Nat]

(***************************************************************************)
(* dr/read_replica_rds copies the primary's WordPress secret when Terraform*)
(* is applied (main.tf:58-80); a password rotated later on the primary     *)
(* reaches the replica's mysql.user table but not the copy.                *)
(***************************************************************************)
DbValidatorInit ==
    /\ vdw = [e \in Executions |-> [pc |-> "idle", writable |-> FALSE]]
    /\ secret \in {"current", "stale"}
    /\ schema = [table |-> FALSE, rows |-> 0]

ValidateDbInit ==
    /\ EnvInit
    /\ DbInit
    /\ DbValidatorInit

-----------------------------------------------------------------------------

\* (mutant of Connectable) with credentials the database always accepts.
ConnectableByAnyone(d) == d.endpoint

\* A connection can be opened in these states of the instance: a reboot
\* refuses it, other modifications may not.
Connectable(d) == d.endpoint /\ secret = "current"

Advance(e, pc) == vdw' = [vdw EXCEPT ![e].pc = pc]

\* Any exception is answered with db_writable = false, as it was initially.
NotWritable(e) ==
    Advance(e, "returned")

InvokeDbValidator(e) ==
    /\ vdw[e].pc = "idle"
    /\ Advance(e, "connect")
    /\ UNCHANGED <<dbVars, secret, schema>>

Connect(e) ==
    /\ vdw[e].pc = "connect"
    /\ Connectable(db)
    /\ Advance(e, "table")
    /\ UNCHANGED <<dbVars, secret, schema>>

ConnectRefused(e) ==
    /\ vdw[e].pc = "connect"
    /\ ~Connectable(db) \/ db.status # "available"
    /\ NotWritable(e)
    /\ UNCHANGED <<dbVars, secret, schema>>

\* The two statements, on a database that takes writes.
CreateTableIfNotExists ==
    /\ ~db.source
    /\ schema' = [schema EXCEPT !.table = TRUE]

\* (mutant of CommitRow) a row with a fixed key is replaced.
ReplaceRow ==
    /\ ~db.source
    /\ schema' = [schema EXCEPT !.rows = 1]

CommitRow ==
    /\ ~db.source
    /\ schema' = [schema EXCEPT !.rows = @ + 1]

EnsureTable(e) ==
    /\ vdw[e].pc = "table"
    /\ CreateTableIfNotExists
    /\ Advance(e, "insert")
    /\ UNCHANGED <<dbVars, secret>>

InsertRow(e) ==
    /\ vdw[e].pc = "insert"
    /\ CommitRow
    /\ vdw' = [vdw EXCEPT ![e] = [@ EXCEPT !.pc = "returned",
                                           !.writable = TRUE]]
    /\ UNCHANGED <<dbVars, secret>>

\* A replica that still has a source is read-only.
WriteRefused(e) ==
    /\ vdw[e].pc \in {"table", "insert"}
    /\ db.source
    /\ NotWritable(e)
    /\ UNCHANGED <<dbVars, secret, schema>>

\* A statement is under way that may have been executed already.
PerhapsExecuted(e) ==
    /\ vdw[e].pc \in {"connect", "table", "insert"}
    /\ \/ UNCHANGED schema
       \/ vdw[e].pc = "table" /\ CreateTableIfNotExists
       \/ vdw[e].pc = "insert" /\ CommitRow

\* A statement fails or its answer is lost.
StatementFails(e) ==
    /\ Fault
    /\ PerhapsExecuted(e)
    /\ NotWritable(e)
    /\ UNCHANGED <<db, secret>>

\* Lambda kills the invocation (locals.tf:27).
DbValidatorKilled(e) ==
    /\ Fault
    /\ PerhapsExecuted(e)
    /\ Advance(e, "failed")
    /\ UNCHANGED <<db, secret>>

ValidateDbStep(e) ==
    \/ Connect(e)
    \/ ConnectRefused(e)
    \/ EnsureTable(e)
    \/ InsertRow(e)
    \/ WriteRefused(e)
    \/ StatementFails(e)
    \/ DbValidatorKilled(e)

\* On its own the Lambda is run against an instance that is promoted at some
\* moment, by a failover or by hand.
ValidateDbNext ==
    \/ \E e \in Executions : InvokeDbValidator(e) \/ ValidateDbStep(e)
    \/ RdsNext /\ UNCHANGED <<vdw, secret, schema>>
    \/ PromotionAccepted /\ UNCHANGED <<envVars, vdw, secret, schema>>

ValidateDbSpec == ValidateDbInit /\ [][ValidateDbNext]_validateDbVars

-----------------------------------------------------------------------------

(***************************************************************************)
(* Every answer db_writable = true (app.py:74-79) stands for a row of its  *)
(* own that the database has committed: a second invocation, or a table    *)
(* left by an earlier one, cannot pass for a write.                        *)
(***************************************************************************)
WritableMeansCommittedRow ==
    Cardinality({e \in Executions : vdw[e].writable}) <= schema.rows

(***************************************************************************)
(* The database takes writes only when it is detached from its source, so  *)
(* a row, or a verdict, is evidence of a finished promotion; and it is     *)
(* evidence that the DR secret, which the ECS tasks will use, is good.     *)
(***************************************************************************)
WritableMeansUsable ==
    (\E e \in Executions : vdw[e].writable)
      => ~db.source /\ secret = "current" /\ schema.table
=============================================================================
