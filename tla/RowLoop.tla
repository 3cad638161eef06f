------------------------------ MODULE RowLoop ------------------------------
(***************************************************************************)
(* What executemany promises (pymysql/cursors.py 160-162): it "is          *)
(* equivalent to looping over args with execute()", each row committed.    *)
(* Rows get into the table in order, each once, several at a time at most, *)
(* and the call reports either all of them or a failure.                   *)
(***************************************************************************)
EXTENDS Integers, Sequences

VARIABLES
    given,      \* the number of rows given to the call
    inserted,   \* the rows in the table, by their place in the call
    outcome     \* "running", "failed", or the number of rows reported

loopVars == <<given, inserted, outcome>>

Running == <<"running", 0>>
Failed == <<"failed", 0>>

LoopInit ==
    /\ given \in Nat
    /\ inserted = <<>>
    /\ outcome = Running

Insert ==
    /\ Len(inserted) < given
    /\ \E last \in (Len(inserted) + 1)..given :
         inserted' = inserted \o [i \in 1..(last - Len(inserted)) |-> Len(inserted) + i]
    /\ UNCHANGED <<given, outcome>>

Report ==
    /\ outcome = Running
    /\ \/ Len(inserted) = given /\ outcome' = <<"rows", given>>
       \/ outcome' = Failed
    /\ UNCHANGED <<given, inserted>>

LoopNext == Insert \/ Report

LoopSpec == LoopInit /\ [][LoopNext]_loopVars
=============================================================================
