---------------------------- MODULE MCMySQLLogin ----------------------------
(* Instances of MySQLLogin for TLC. *)
EXTENDS MySQLLogin

TwoPasswords == {"p1", "p2"}

\* Four greetings the client has a proof for, and one that it has not.
SampleDefaults ==
    {"", "mysql_native_password", "caching_sha2_password", "sha256_password", "client_ed25519"}
=============================================================================
