-------------------------- MODULE FailoverProtocol --------------------------
(***************************************************************************)
(* What the DR failover promises, without its Lambdas, polls and clocks:   *)
(* executions go through promotion, write test and scaling in this order,  *)
(* each on evidence of the step before, any number of them at a time, and  *)
(* each may fail anywhere.  DrOrchestrator implements it.                  *)
(***************************************************************************)
CONSTANT Executions

VARIABLES
    stage,      \* how far each execution is: "none", "promoting", "promoted",
                \* "writable", "done" or "failed"
    promoted,   \* the DR database is detached from its source
    written,    \* the DR database holds a row an execution has written
    scaled      \* the DR service is asked to run tasks

protocolVars == <<stage, promoted, written, scaled>>

ProtocolInit ==
    /\ stage = [e \in Executions |-> "none"]
    /\ promoted = FALSE
    /\ written = FALSE
    /\ scaled = FALSE

Moves(e, from, to) ==
    /\ stage[e] = from
    /\ stage' = [stage EXCEPT ![e] = to]

\* An operator starts an execution.
Begin(e) ==
    /\ Moves(e, "none", "promoting")
    /\ UNCHANGED <<promoted, written, scaled>>

\* The database is detached, for good, and only because a failover was begun.
Detach ==
    /\ \E e \in Executions : stage[e] # "none"
    /\ promoted' = TRUE
    /\ UNCHANGED <<stage, written, scaled>>

ConfirmPromotion(e) ==
    /\ promoted
    /\ Moves(e, "promoting", "promoted")
    /\ UNCHANGED <<promoted, written, scaled>>

\* Only an execution that knows the database is promoted writes to it.
Write(e) ==
    /\ stage[e] = "promoted"
    /\ promoted
    /\ written' = TRUE
    /\ UNCHANGED <<stage, promoted, scaled>>

ConfirmWrite(e) ==
    /\ written
    /\ Moves(e, "promoted", "writable")
    /\ UNCHANGED <<promoted, written, scaled>>

\* Only an execution that knows the database is writable starts the site.
Scale(e) ==
    /\ stage[e] = "writable"
    /\ scaled' = TRUE
    /\ UNCHANGED <<stage, promoted, written>>

\* An operator takes the capacity away again.
Unscale ==
    /\ scaled' = FALSE
    /\ UNCHANGED <<stage, promoted, written>>

Complete(e) ==
    /\ Moves(e, "writable", "done")
    /\ UNCHANGED <<promoted, written, scaled>>

Fail(e) ==
    /\ stage[e] \in {"promoting", "promoted", "writable"}
    /\ stage' = [stage EXCEPT ![e] = "failed"]
    /\ UNCHANGED <<promoted, written, scaled>>

ProtocolNext ==
    \/ \E e \in Executions :
         \/ Begin(e)
         \/ ConfirmPromotion(e)
         \/ Write(e)
         \/ ConfirmWrite(e)
         \/ Scale(e)
         \/ Complete(e)
         \/ Fail(e)
    \/ Detach
    \/ Unscale

ProtocolSpec == ProtocolInit /\ [][ProtocolNext]_protocolVars
=============================================================================
