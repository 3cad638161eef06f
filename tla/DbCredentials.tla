---------------------------- MODULE DbCredentials ----------------------------
(***************************************************************************)
(* The application user's password and the two secrets that hold it, as    *)
(* src/lambdas/primary-db-setup/app.py and the Terraform stacks            *)
(* primary/rds and dr/read_replica_rds change them.                        *)
(*                                                                         *)
(* A password is the number of the generate_password() call it came from:  *)
(* 32 random characters are taken to be new each time.  The Lambda is      *)
(* only invoked by deploy.sh, which waits for it; one invocation is at     *)
(* work at a time.                                                         *)
(***************************************************************************)
EXTENDS Naturals

CONSTANT MaxFaults      \* bound: calls that fail, runners that die

ASSUME FaultAssumption == MaxFaults \in Nat

VARIABLES
    password,       \* of the database user; None: there is no user
    secret,         \* in the current version of <rds_identifier>-secret
    drSecret,       \* in <rds_replica_identifier>-secret
    setup,          \* the invocation of primary-db-setup
    generated,      \* passwords generated so far
    faults

None == 0

storedVars == <<password, secret, drSecret>>
credentialVars == <<storedVars, setup, generated, faults>>

Setup ==
    [pc       : {"idle", "user", "store"},
     password : Nat]            \* wp_db_password

CredentialsTypeOK ==
    /\ password \in Nat /\ secret \in Nat /\ drSecret \in Nat
    /\ setup \in Setup
    /\ generated \in Nat
    /\ faults \in Nat

CredentialsInit ==
    /\ password = None /\ secret = None /\ drSecret = None
    /\ setup = [pc |-> "idle", password |-> None]
    /\ generated = 0
    /\ faults = 0

Fault ==
    /\ faults < MaxFaults
    /\ faults' = faults + 1

-----------------------------------------------------------------------------

SetupInvoked ==
    /\ setup.pc = "idle"
    /\ setup' = [pc |-> "user", password |-> None]
    /\ UNCHANGED <<storedVars, generated, faults>>

\* Connecting as the master user and then CREATE USER or ALTER USER, which
\* MySQL commits by itself: conn.commit() comes too late to make the new
\* password and the secret change together.
SetUserPassword ==
    /\ setup.pc = "user"
    /\ generated' = generated + 1
    /\ password' = generated + 1
    /\ setup' = [pc |-> "store", password |-> generated + 1]
    /\ UNCHANGED <<secret, drSecret, faults>>

\* (mutant of PutSecretValue) A secret that has a version keeps it.
PutFirstValue ==
    /\ setup.pc = "store"
    /\ secret' = IF secret = None THEN setup.password ELSE secret
    /\ setup' = [setup EXCEPT !.pc = "idle"]
    /\ UNCHANGED <<password, drSecret, generated, faults>>

PutSecretValue ==
    /\ setup.pc = "store"
    /\ secret' = setup.password
    /\ setup' = [setup EXCEPT !.pc = "idle"]
    /\ UNCHANGED <<password, drSecret, generated, faults>>

\* A call of the Lambda raises, or the Lambda's timeout ends it.
SetupFails ==
    /\ setup.pc # "idle"
    /\ Fault
    /\ setup' = [setup EXCEPT !.pc = "idle"]
    /\ UNCHANGED <<storedVars, generated>>

-----------------------------------------------------------------------------

\* `terraform apply' of dr/read_replica_rds reads the primary's secret, which
\* must have a version, and stores its password in the DR secret.
SecretReadable == secret # None

\* (mutant of CopySecret) The version is under ignore_changes once it is there.
CopySecretOnce == drSecret' = IF drSecret = None THEN secret ELSE drSecret

CopySecret == drSecret' = secret

\* (mutant of DropPrimary) The secret has a recovery window.
DropInstance ==
    /\ password' = None
    /\ setup' = [setup EXCEPT !.pc = "idle"]
    /\ UNCHANGED secret

\* `terraform destroy' of primary/rds takes the instance with its user, the
\* secret and the Lambda away, of dr/read_replica_rds the DR secret.
DropPrimary ==
    /\ password' = None /\ secret' = None
    /\ setup' = [setup EXCEPT !.pc = "idle"]

\* What a destroy that stopped half way leaves.
DropPrimaryPartly ==
    /\ password' \in {password, None}
    /\ secret' \in {secret, None}
    /\ setup' = [setup EXCEPT !.pc = "idle"]
=============================================================================
