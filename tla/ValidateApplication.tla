------------------------- MODULE ValidateApplication -------------------------
(***************************************************************************)
(* src/lambdas/validate-application/app.py: one GET of APP_HEALTHCHECK_URL,*)
(* the site's public address, which CloudFront serves from its origin      *)
(* group (src/modules/cdn_dns/main.tf:66-79): the primary ALB when that    *)
(* answers with success, the DR ALB otherwise.                             *)
(***************************************************************************)
EXTENDS EcsService

VARIABLES
    vah,        \* what each invocation is doing, and what it returned
    primary     \* does the primary site answer requests with success?

validateAppVars == <<ecsVars, vah, primary>>

\* `origin' is the ALB whose answer the invocation was given, which neither
\* the Lambda nor the state machine sees.
AppValidation ==
    [pc      : {"idle", "get", "returned", "failed"},
     healthy : BOOLEAN,         \* app_healthy
     origin  : {"none", "primary", "dr"}]

ValidateAppTypeOK ==
    /\ EnvTypeOK
    /\ EcsTypeOK
    /\ vah \in [Executions -> AppValidation]
    /\ primary \in BOOLEAN

\* An operator may start a failover while the primary is still answering.
ValidateAppInit ==
    /\ vah = [e \in Executions |->
                [pc |-> "idle", healthy |-> FALSE, origin |-> "none"]]
    /\ primary \in BOOLEAN

-----------------------------------------------------------------------------

\* Only the status codes of the failover criteria and failed connections send
\* a request to the second origin.
Origin == IF primary THEN "primary" ELSE "dr"

\* The DR ALB has a healthy target to forward to; otherwise it answers 503.
SiteAnswers == primary \/ ecs.healthy > 0

InvokeAppValidator(e) ==
    /\ vah[e].pc = "idle"
    /\ vah' = [vah EXCEPT ![e].pc = "get"]
    /\ UNCHANGED <<ecsVars, primary>>

\* One request, no retry: status_code == expected_status, or an HTTPError.
GetAnswered(e) ==
    /\ vah[e].pc = "get"
    /\ vah' = [vah EXCEPT ![e] = [@ EXCEPT !.pc = "returned",
                                           !.healthy = SiteAnswers,
                                           !.origin = Origin]]
    /\ UNCHANGED <<ecsVars, primary>>

\* A timeout, or a connection that fails: app_healthy is false, as it was
\* initially.
GetFails(e) ==
    /\ vah[e].pc = "get"
    /\ Fault
    /\ vah' = [vah EXCEPT ![e].pc = "returned"]
    /\ UNCHANGED <<ecs, applies, primary>>

AppValidatorKilled(e) ==
    /\ vah[e].pc = "get"
    /\ Fault
    /\ vah' = [vah EXCEPT ![e].pc = "failed"]
    /\ UNCHANGED <<ecs, applies, primary>>

ValidateAppStep(e) ==
    \/ GetAnswered(e)
    \/ GetFails(e)
    \/ AppValidatorKilled(e)

\* The primary region fails or comes back.
PrimaryChanges ==
    /\ Disturbance
    /\ primary' = ~primary
    /\ UNCHANGED <<ecs, applies>>
=============================================================================
