---------------------------- MODULE DatabaseProofs ---------------------------
(***************************************************************************)
(* Theorems about the Lambdas that use the DR database, each alone:        *)
(* ReplicaFailoverHandler, for any number of executions and any of its     *)
(* timing constants, and ValidateDbWritable, for any finite set of         *)
(* executions.                                                             *)
(***************************************************************************)
EXTENDS ReplicaFailoverHandler, ValidateDbWritable, FiniteSetTheorems, TLAPS

-----------------------------------------------------------------------------
(* The instance (DrDatabase).                                              *)

(***************************************************************************)
(* RDS keeps the instance well-formed, whatever it does on its own         *)
(* (DrDatabase), and never attaches a detached instance again.             *)
(***************************************************************************)
LEMMA RdsStep ==
    ASSUME EnvTypeOK, DbTypeOK, RdsNext
    PROVE  /\ EnvTypeOK'
           /\ DbTypeOK'
           /\ ~db.source => ~db'.source
<1> USE DEF EnvTypeOK, DbTypeOK, Instance
<1>1. CASE DbCreated
  BY <1>1 DEF DbCreated, envVars
<1>2. CASE PromotionBegins
  BY <1>2 DEF PromotionBegins, envVars
<1>3. CASE PromotionEnds
  BY <1>3 DEF PromotionEnds, envVars
<1>4. CASE DbSettles
  BY <1>4 DEF DbSettles, envVars
<1>5. CASE DbDisturbed
  <2>1. PICK status \in {"available", "modifying"}, pending \in BOOLEAN :
          db' = [db EXCEPT !.status = status, !.pending = pending]
    BY <1>5, Zenon DEF DbDisturbed
  <2>2. Disturbance
    BY <1>5, Zenon DEF DbDisturbed
  <2>3. EnvTypeOK'
    BY <2>2 DEF Disturbance
  <2>4. DbTypeOK' /\ (~db.source => ~db'.source)
    BY <2>1
  <2>5. QED
    BY <2>3, <2>4
<1>6. CASE LagChanges
  BY <1>6 DEF LagChanges, envVars
<1>7. QED
  BY <1>1, <1>2, <1>3, <1>4, <1>5, <1>6 DEF RdsNext

(***************************************************************************)
(* An accepted promotion is only marked in the instance.                   *)
(***************************************************************************)
LEMMA PromotionStep ==
    ASSUME DbTypeOK, PromotionAccepted
    PROVE  /\ DbTypeOK'
           /\ db'.source = db.source
BY DEF DbTypeOK, Instance, PromotionAccepted

-----------------------------------------------------------------------------
(* ReplicaFailoverHandler.                                                 *)

(***************************************************************************)
(* A step of a handler (app.py:28-136) keeps the types, and does not       *)
(* detach the instance: RDS does that later.                               *)
(***************************************************************************)
LEMMA HandlerStepType ==
    ASSUME ReplicaTypeOK,
           NEW e \in Executions,
           InvokeReplicaHandler(e) \/ ReplicaHandlerStep(e)
    PROVE  /\ ReplicaTypeOK'
           /\ db'.source = db.source
<1> USE EnvironmentAssumption, HandlerAssumption
    DEF ReplicaTypeOK, EnvTypeOK, DbTypeOK, Instance, Invocation, Report,
        dbVars, envVars
<1>1. CASE InvokeReplicaHandler(e)
  BY <1>1 DEF InvokeReplicaHandler
<1>2. CASE DescribeNotReady(e)
  BY <1>2 DEF DescribeNotReady, Return, ReportOf
<1>3. CASE DescribeReady(e)
  BY <1>3 DEF DescribeReady
<1>4. CASE PromoteAccepted(e)
  <2>1. rfh' = [rfh EXCEPT ![e] = [rfh[e] EXCEPT !.pc = "polling",
                                                 !.waited = 0, !.stable = 0]]
        /\ PromotionAccepted /\ UNCHANGED envVars
    BY <1>4 DEF PromoteAccepted, StartPolling
  <2>2. rfh' \in [Executions -> Invocation]
    BY <2>1
  <2>3. EnvTypeOK' /\ DbTypeOK' /\ db'.source = db.source
    BY <2>1 DEF PromotionAccepted
  <2>4. QED
    BY <2>2, <2>3
<1>5. CASE PromoteRefused(e)
  <2>1. rfh' = [rfh EXCEPT ![e] = [rfh[e] EXCEPT !.pc = "polling",
                                                 !.waited = 0, !.stable = 0]]
        /\ UNCHANGED dbVars
    BY <1>5 DEF PromoteRefused, StartPolling
  <2>2. rfh' \in [Executions -> Invocation]
    BY <2>1
  <2>3. QED
    BY <2>1, <2>2
<1>6. CASE PromoteErrored(e)
  <2>1. EnvTypeOK'
    BY <1>6 DEF PromoteErrored, Fault
  <2>2. DbTypeOK' /\ db'.source = db.source
    BY <1>6 DEF PromoteErrored, PromotionAccepted
  <2>3. rfh' \in [Executions -> Invocation]
    BY <1>6 DEF PromoteErrored, Return, ReportOf
  <2>4. QED
    BY <2>1, <2>2, <2>3
<1>7. CASE PollConfirms(e)
  BY <1>7 DEF PollConfirms, Return, ReportOf
<1>8. CASE PollWaits(e)
  <2>1. StableAfter(e, db) \in Nat
    BY DEF StableAfter
  <2>2. rfh[e].waited + PollInterval \in Nat
    OBVIOUS
  <2>3. PICK n \in Nat, w \in Nat :
          rfh' = [rfh EXCEPT ![e] = [rfh[e] EXCEPT !.stable = n, !.waited = w]]
    BY <1>8, <2>1, <2>2 DEF PollWaits
  <2>4. UNCHANGED dbVars
    BY <1>8 DEF PollWaits
  <2>5. rfh' \in [Executions -> Invocation]
    BY <2>3
  <2>6. QED
    BY <2>4, <2>5
<1>9. CASE PollTimesOut(e)
  BY <1>9 DEF PollTimesOut, Return, ReportOf
<1>10. CASE DescribeRaises(e)
  BY <1>10 DEF DescribeRaises, Fault
<1>11. CASE ReplicaHandlerKilled(e)
  <2>1. EnvTypeOK'
    BY <1>11 DEF ReplicaHandlerKilled, Fault
  <2>2. DbTypeOK' /\ db'.source = db.source
    BY <1>11 DEF ReplicaHandlerKilled, PromotionAccepted
  <2>3. rfh' \in [Executions -> Invocation]
    BY <1>11 DEF ReplicaHandlerKilled
  <2>4. QED
    BY <2>1, <2>2, <2>3
<1>12. QED
  BY <1>1, <1>2, <1>3, <1>4, <1>5, <1>6, <1>7, <1>8, <1>9, <1>10, <1>11
     DEF ReplicaHandlerStep

(***************************************************************************)
(* A step of one execution's handler leaves the other handlers alone.      *)
(***************************************************************************)
LEMMA HandlerStepLocal ==
    ASSUME ReplicaTypeOK,
           NEW e \in Executions,
           NEW f \in Executions \ {e},
           InvokeReplicaHandler(e) \/ ReplicaHandlerStep(e)
    PROVE  rfh'[f] = rfh[f]
<1>1. ASSUME NEW x, rfh' = [rfh EXCEPT ![e] = x]
      PROVE  rfh'[f] = rfh[f]
  BY <1>1 DEF ReplicaTypeOK
<1>2. PICK x : rfh' = [rfh EXCEPT ![e] = x]
  BY DEF InvokeReplicaHandler, ReplicaHandlerStep, DescribeNotReady,
         DescribeReady, PromoteAccepted, PromoteRefused, PromoteErrored,
         PollConfirms, PollWaits, PollTimesOut, DescribeRaises,
         ReplicaHandlerKilled, Return, StartPolling
<1>3. QED
  BY <1>1, <1>2

(***************************************************************************)
(* Type correctness of the handler and the instance it acts on.            *)
(***************************************************************************)
THEOREM ReplicaTypeCorrect == ReplicaSpec => []ReplicaTypeOK
<1>1. ReplicaInit => ReplicaTypeOK
  BY EnvironmentAssumption
     DEF ReplicaInit, EnvInit, DbInit, ReplicaHandlerInit, ReplicaTypeOK,
         EnvTypeOK, DbTypeOK, Instance, Invocation, Report, ReportOf
<1>2. ReplicaTypeOK /\ [ReplicaNext]_replicaVars => ReplicaTypeOK'
  <2> SUFFICES ASSUME ReplicaTypeOK, [ReplicaNext]_replicaVars
               PROVE  ReplicaTypeOK'
    OBVIOUS
  <2>1. ASSUME NEW e \in Executions,
               InvokeReplicaHandler(e) \/ ReplicaHandlerStep(e)
        PROVE  ReplicaTypeOK'
    BY <2>1, HandlerStepType
  <2>2. CASE RdsNext /\ UNCHANGED rfh
    BY <2>2, RdsStep DEF ReplicaTypeOK
  <2>3. CASE UNCHANGED replicaVars
    BY <2>3 DEF replicaVars, dbVars, envVars, ReplicaTypeOK, EnvTypeOK, DbTypeOK
  <2>4. QED
    BY <2>1, <2>2, <2>3 DEF ReplicaNext
<1>3. QED
  BY <1>1, <1>2, PTL DEF ReplicaSpec

(***************************************************************************)
(* A handler's step keeps AvailableMeansPromoted: only PollConfirms        *)
(* (app.py:112-122) answers db_available, on a look at the instance that   *)
(* shows it detached.                                                      *)
(***************************************************************************)
LEMMA HandlerStepAvailable ==
    ASSUME ReplicaTypeOK, AvailableMeansPromoted,
           NEW e \in Executions,
           InvokeReplicaHandler(e) \/ ReplicaHandlerStep(e)
    PROVE  AvailableMeansPromoted'
<1> SUFFICES ASSUME NEW f \in Executions,
                    rfh'[f].pc = "returned",
                    rfh'[f].report.db_available
             PROVE  ~db'.source
  BY DEF AvailableMeansPromoted
<1>1. db'.source = db.source
  BY HandlerStepType
<1> SUFFICES ~db.source
  BY <1>1
<1> USE DEF AvailableMeansPromoted, ReplicaTypeOK, Invocation, Report
<1>2. CASE f # e
  BY <1>2, HandlerStepLocal
<1>3. CASE f = e /\ PollConfirms(e)
  BY <1>3 DEF PollConfirms, StableAfter, PromotionComplete
<1>4. CASE f = e /\ ~PollConfirms(e)
  <2>1. CASE DescribeNotReady(e) \/ PromoteErrored(e) \/ PollTimesOut(e)
    <3>1. PICK ready, started :
            Return(e, ReportOf(ready, started, FALSE))
      BY <2>1 DEF DescribeNotReady, PromoteErrored, PollTimesOut
    <3>2. rfh'[e].report.db_available = FALSE
      BY <3>1 DEF Return, ReportOf
    <3>3. QED
      BY <1>4, <3>2
  <2>2. CASE PromoteAccepted(e) \/ PromoteRefused(e)
    <3>1. StartPolling(e)
      BY <2>2 DEF PromoteAccepted, PromoteRefused
    <3>2. rfh'[e].pc = "polling"
      BY <3>1 DEF StartPolling
    <3>3. QED
      BY <1>4, <3>2
  <2>3. CASE InvokeReplicaHandler(e) \/ DescribeReady(e)
               \/ DescribeRaises(e) \/ ReplicaHandlerKilled(e)
    BY <1>4, <2>3 DEF InvokeReplicaHandler, DescribeReady, DescribeRaises,
                      ReplicaHandlerKilled
  <2>4. CASE PollWaits(e)
    <3>1. rfh'[e].pc = rfh[e].pc
      BY <2>4 DEF PollWaits
    <3>2. QED
      BY <1>4, <2>4, <3>1 DEF PollWaits
  <2>5. QED
    BY <1>4, <2>1, <2>2, <2>3, <2>4 DEF ReplicaHandlerStep
<1>5. QED
  BY <1>2, <1>3, <1>4

(***************************************************************************)
(* An answer db_available = true is only given for a detached database,    *)
(* and stays true of it.                                                   *)
(***************************************************************************)
THEOREM AvailableCorrect == ReplicaSpec => []AvailableMeansPromoted
<1>1. ReplicaInit => AvailableMeansPromoted
  BY DEF ReplicaInit, ReplicaHandlerInit, AvailableMeansPromoted
<1>2. ReplicaTypeOK /\ AvailableMeansPromoted /\ [ReplicaNext]_replicaVars
        => AvailableMeansPromoted'
  <2> SUFFICES ASSUME ReplicaTypeOK, AvailableMeansPromoted,
                      [ReplicaNext]_replicaVars
               PROVE  AvailableMeansPromoted'
    OBVIOUS
  <2>1. ASSUME NEW e \in Executions,
               InvokeReplicaHandler(e) \/ ReplicaHandlerStep(e)
        PROVE  AvailableMeansPromoted'
    BY <2>1, HandlerStepAvailable
  <2>2. CASE RdsNext /\ UNCHANGED rfh
    BY <2>2, RdsStep DEF ReplicaTypeOK, AvailableMeansPromoted
  <2>3. CASE UNCHANGED replicaVars
    BY <2>3 DEF replicaVars, dbVars, AvailableMeansPromoted
  <2>4. QED
    BY <2>1, <2>2, <2>3 DEF ReplicaNext
<1>3. QED
  BY <1>1, <1>2, ReplicaTypeCorrect, PTL DEF ReplicaSpec

(***************************************************************************)
(* Why an undisturbed handler waits only for a promotion.  An attached     *)
(* instance that was seen available stays so until a promotion is accepted *)
(* (app.py:29-62), so a refusal means that one was.                        *)
(***************************************************************************)
AttachedInv == db.source /\ ~db.promoting => db.status # "modifying"

PromoterInv ==
    \A e \in Executions : rfh[e].pc = "promote" => db.status # "creating"

UndisturbedInv ==
    disturbances = 0 => AttachedInv /\ PromoterInv /\ PollingMeansPromotion

(***************************************************************************)
(* What a step of a handler does to the instance (app.py:62): nothing, or  *)
(* it has a promotion accepted.                                            *)
(***************************************************************************)
LEMMA HandlerStepDb ==
    ASSUME ReplicaTypeOK,
           NEW e \in Executions,
           InvokeReplicaHandler(e) \/ ReplicaHandlerStep(e)
    PROVE  /\ disturbances' = disturbances
           /\ db'.source = db.source
           /\ db'.status = db.status
           /\ db.promoting => db'.promoting
           /\ db'.promoting = db.promoting \/ CanPromote(db)
<1> USE DEF ReplicaTypeOK, EnvTypeOK, DbTypeOK, Instance
<1>1. UNCHANGED db \/ PromotionAccepted
  BY DEF InvokeReplicaHandler, ReplicaHandlerStep, DescribeNotReady,
         DescribeReady, PromoteAccepted, PromoteRefused, PromoteErrored,
         PollConfirms, PollWaits, PollTimesOut, DescribeRaises,
         ReplicaHandlerKilled, dbVars
<1>2. disturbances' = disturbances
  BY DEF InvokeReplicaHandler, ReplicaHandlerStep, DescribeNotReady,
         DescribeReady, PromoteAccepted, PromoteRefused, PromoteErrored,
         PollConfirms, PollWaits, PollTimesOut, DescribeRaises,
         ReplicaHandlerKilled, Fault, dbVars, envVars
<1>3. QED
  BY <1>1, <1>2 DEF PromotionAccepted

(***************************************************************************)
(* Where the handler of an execution is after a step: about to promote     *)
(* only after a look at an available instance, polling only after the      *)
(* call, or still.                                                         *)
(***************************************************************************)
LEMMA HandlerStepPlace ==
    ASSUME ReplicaTypeOK,
           NEW e \in Executions,
           InvokeReplicaHandler(e) \/ ReplicaHandlerStep(e)
    PROVE  /\ rfh'[e].pc = "promote" => db.status = "available"
           /\ rfh'[e].pc = "polling" =>
                \/ rfh[e].pc = "polling"
                \/ db'.promoting
                \/ rfh[e].pc = "promote" /\ ~CanPromote(db)
<1> USE DEF ReplicaTypeOK, DbTypeOK, Instance, Invocation
<1>1. CASE InvokeReplicaHandler(e)
  BY <1>1 DEF InvokeReplicaHandler
<1>2. CASE DescribeNotReady(e) \/ PromoteErrored(e) \/ PollConfirms(e) \/ PollTimesOut(e)
  <2>1. PICK report : Return(e, report)
    BY <1>2, Zenon DEF DescribeNotReady, PromoteErrored, PollConfirms, PollTimesOut
  <2>2. QED
    BY <2>1 DEF Return
<1>3. CASE DescribeReady(e)
  BY <1>3 DEF DescribeReady, NotReady
<1>4. CASE PromoteAccepted(e)
  <2>1. db'.promoting
    BY <1>4 DEF PromoteAccepted, PromotionAccepted
  <2>2. rfh'[e].pc = "polling"
    BY <1>4 DEF PromoteAccepted, StartPolling
  <2>3. QED
    BY <2>1, <2>2
<1>5. CASE PromoteRefused(e)
  <2>1. rfh'[e].pc = "polling"
    BY <1>5 DEF PromoteRefused, StartPolling
  <2>2. QED
    BY <1>5, <2>1 DEF PromoteRefused
<1>6. CASE PollWaits(e)
  <2>1. rfh'[e].pc = rfh[e].pc /\ rfh[e].pc = "polling"
    BY <1>6 DEF PollWaits
  <2>2. QED
    BY <2>1
<1>7. CASE DescribeRaises(e) \/ ReplicaHandlerKilled(e)
  BY <1>7 DEF DescribeRaises, ReplicaHandlerKilled
<1>8. QED
  BY <1>1, <1>2, <1>3, <1>4, <1>5, <1>6, <1>7 DEF ReplicaHandlerStep

(***************************************************************************)
(* A handler's step keeps the invariant: a refused promotion (app.py:63)   *)
(* of an instance that is attached and not being created is one that was   *)
(* accepted before.                                                        *)
(***************************************************************************)
LEMMA HandlerStepUndisturbed ==
    ASSUME ReplicaTypeOK, UndisturbedInv,
           NEW e \in Executions,
           InvokeReplicaHandler(e) \/ ReplicaHandlerStep(e)
    PROVE  UndisturbedInv'
<1> SUFFICES ASSUME disturbances' = 0
             PROVE  AttachedInv' /\ PromoterInv' /\ PollingMeansPromotion'
  BY DEF UndisturbedInv
<1>1. AttachedInv /\ PromoterInv /\ PollingMeansPromotion
  BY HandlerStepDb DEF UndisturbedInv
<1>2. AttachedInv'
  <2>1. db'.source = db.source /\ db'.status = db.status /\ (db.promoting => db'.promoting)
    BY HandlerStepDb
  <2>2. QED
    BY <1>1, <2>1 DEF AttachedInv
<1>3. PromoterInv'
  <2> SUFFICES ASSUME NEW f \in Executions, rfh'[f].pc = "promote"
               PROVE  db'.status # "creating"
    BY DEF PromoterInv
  <2>1. db'.status = db.status
    BY HandlerStepDb
  <2>2. CASE f = e
    BY <2>1, <2>2, HandlerStepPlace
  <2>3. CASE f # e
    BY <1>1, <2>1, <2>3, HandlerStepLocal DEF PromoterInv
  <2>4. QED
    BY <2>2, <2>3
<1>4. PollingMeansPromotion'
  <2> SUFFICES ASSUME NEW f \in Executions, rfh'[f].pc = "polling"
               PROVE  db'.promoting \/ ~db'.source
    BY DEF PollingMeansPromotion
  <2>1. (db.promoting => db'.promoting) /\ db'.source = db.source
    BY HandlerStepDb
  <2>2. CASE rfh[f].pc = "polling"
    BY <1>1, <2>1, <2>2 DEF PollingMeansPromotion
  <2>3. CASE f # e
    <3>1. rfh[f].pc = "polling"
      BY <2>3, HandlerStepLocal
    <3>2. QED
      BY <2>2, <3>1
  <2>4. CASE f = e /\ rfh[e].pc = "promote" /\ ~CanPromote(db)
    <3>1. db.status # "creating"
      BY <1>1, <2>4 DEF PromoterInv
    <3>2. db.status \in {"creating", "available", "modifying"}
      BY DEF ReplicaTypeOK, DbTypeOK, Instance
    <3>3. db.promoting \/ ~db.source
      BY <1>1, <2>4, <3>1, <3>2 DEF AttachedInv, CanPromote
    <3>4. QED
      BY <2>1, <3>3
  <2>5. QED
    BY <2>2, <2>3, <2>4, HandlerStepPlace
<1>5. QED
  BY <1>2, <1>3, <1>4

(***************************************************************************)
(* What RDS does of its own, short of a disturbance, keeps the invariant:  *)
(* it modifies an instance only to promote it, or after that.              *)
(***************************************************************************)
LEMMA RdsStepUndisturbed ==
    ASSUME ReplicaTypeOK, UndisturbedInv, RdsNext, UNCHANGED rfh
    PROVE  UndisturbedInv'
<1> SUFFICES ASSUME disturbances' = 0
             PROVE  AttachedInv' /\ PromoterInv' /\ PollingMeansPromotion'
  BY DEF UndisturbedInv
<1>1. ~DbDisturbed
  <2>1. DbDisturbed => Disturbance
    BY Zenon DEF DbDisturbed
  <2>2. disturbances \in Nat
    BY DEF ReplicaTypeOK, EnvTypeOK
  <2>3. QED
    BY <2>1, <2>2 DEF Disturbance
<1>2. disturbances = 0
  BY <1>1 DEF RdsNext, DbCreated, PromotionBegins, PromotionEnds, DbSettles, LagChanges, envVars
<1>3. AttachedInv /\ PromoterInv /\ PollingMeansPromotion
  BY <1>2 DEF UndisturbedInv
<1>4. /\ AttachedInv'
      /\ db.status # "creating" => db'.status # "creating"
      /\ db.promoting \/ ~db.source => db'.promoting \/ ~db'.source
  <2> USE DEF ReplicaTypeOK, DbTypeOK, Instance, AttachedInv
  <2>1. CASE DbCreated
    BY <2>1 DEF DbCreated
  <2>2. CASE PromotionBegins
    BY <2>2 DEF PromotionBegins
  <2>3. CASE PromotionEnds
    BY <2>3 DEF PromotionEnds
  <2>4. CASE DbSettles
    BY <2>4 DEF DbSettles
  <2>5. CASE LagChanges
    BY <1>3, <2>5 DEF LagChanges
  <2>6. QED
    BY <1>1, <2>1, <2>2, <2>3, <2>4, <2>5 DEF RdsNext
<1>5. QED
  BY <1>3, <1>4 DEF PromoterInv, PollingMeansPromotion

(***************************************************************************)
(* On an instance that RDS leaves alone, an invocation that polls waits    *)
(* for a promotion that is under way or over (app.py:60-85), however many  *)
(* invocations overlap and wherever they fail.                             *)
(***************************************************************************)
THEOREM UndisturbedCorrect == ReplicaSpec => []UndisturbedPolling
<1>1. ReplicaInit => UndisturbedInv
  <2> SUFFICES ASSUME ReplicaInit
               PROVE  AttachedInv /\ PromoterInv /\ PollingMeansPromotion
    BY DEF UndisturbedInv
  <2>1. AttachedInv
    BY DEF ReplicaInit, DbInit, AttachedInv
  <2>2. PromoterInv /\ PollingMeansPromotion
    BY DEF ReplicaInit, ReplicaHandlerInit, PromoterInv, PollingMeansPromotion
  <2>3. QED
    BY <2>1, <2>2
<1>2. ReplicaTypeOK /\ UndisturbedInv /\ [ReplicaNext]_replicaVars => UndisturbedInv'
  <2> SUFFICES ASSUME ReplicaTypeOK, UndisturbedInv, [ReplicaNext]_replicaVars
               PROVE  UndisturbedInv'
    OBVIOUS
  <2>1. ASSUME NEW e \in Executions,
               InvokeReplicaHandler(e) \/ ReplicaHandlerStep(e)
        PROVE  UndisturbedInv'
    BY <2>1, HandlerStepUndisturbed
  <2>2. CASE RdsNext /\ UNCHANGED rfh
    BY <2>2, RdsStepUndisturbed
  <2>3. CASE UNCHANGED replicaVars
    BY <2>3 DEF replicaVars, dbVars, envVars, UndisturbedInv, AttachedInv, PromoterInv,
                PollingMeansPromotion
  <2>4. QED
    BY <2>1, <2>2, <2>3 DEF ReplicaNext
<1>3. UndisturbedInv => UndisturbedPolling
  BY DEF UndisturbedInv, UndisturbedPolling
<1>4. QED
  BY <1>1, <1>2, <1>3, ReplicaTypeCorrect, PTL DEF ReplicaSpec

-----------------------------------------------------------------------------
(* ValidateDbWritable.                                                     *)

(***************************************************************************)
(* What a validation that has got so far knows.  The connection shows that *)
(* the secret is good, the table and the row that the instance takes       *)
(* writes; none of it is undone while the validation runs.                 *)
(***************************************************************************)
Passed == {e \in Executions : vdw[e].writable}

KnowsInv ==
    \A e \in Executions :
        /\ vdw[e].pc \in {"table", "insert"} => secret = "current"
        /\ vdw[e].pc = "insert" => ~db.source /\ schema.table
        /\ vdw[e].writable => /\ vdw[e].pc = "returned"
                              /\ ~db.source
                              /\ secret = "current"
                              /\ schema.table

RowsInv == Cardinality(Passed) <= schema.rows

DbInv == ValidateDbTypeOK /\ KnowsInv /\ RowsInv

(***************************************************************************)
(* What a statement does to the schema: the table is never dropped and     *)
(* rows are never deleted.                                                 *)
(***************************************************************************)
LEMMA StatementGrows ==
    ASSUME schema \in [table : BOOLEAN, rows : Nat],
           CreateTableIfNotExists \/ CommitRow \/ UNCHANGED schema
    PROVE  /\ schema' \in [table : BOOLEAN, rows : Nat]
           /\ schema.table => schema'.table
           /\ schema'.rows >= schema.rows
<1>1. CASE CreateTableIfNotExists
  <2>1. schema'.table = TRUE /\ schema'.rows = schema.rows
    BY <1>1 DEF CreateTableIfNotExists
  <2>2. schema' \in [table : BOOLEAN, rows : Nat]
    BY <1>1 DEF CreateTableIfNotExists
  <2>3. schema.rows >= schema.rows
    OBVIOUS
  <2>4. QED
    BY <2>1, <2>2, <2>3
<1>2. CASE CommitRow
  <2>1. schema' = [schema EXCEPT !.rows = schema.rows + 1]
    BY <1>2 DEF CommitRow
  <2>2. schema.rows + 1 \in Nat /\ schema.rows + 1 >= schema.rows
    OBVIOUS
  <2>3. schema'.rows = schema.rows + 1 /\ schema'.table = schema.table
    BY <2>1
  <2>4. schema' \in [table : BOOLEAN, rows : Nat]
    BY <2>1, <2>2
  <2>5. QED
    BY <2>2, <2>3, <2>4
<1>3. CASE UNCHANGED schema
  BY <1>3
<1>4. QED
  BY <1>1, <1>2, <1>3

(***************************************************************************)
(* A step of a validation (app.py:38-89) keeps the types, and leaves the   *)
(* instance and the secret alone.                                          *)
(***************************************************************************)
LEMMA ValidateDbStepType ==
    ASSUME ValidateDbTypeOK,
           NEW e \in Executions,
           InvokeDbValidator(e) \/ ValidateDbStep(e)
    PROVE  /\ ValidateDbTypeOK'
           /\ UNCHANGED <<db, secret>>
<1> USE DEF ValidateDbTypeOK, EnvTypeOK, DbTypeOK, Validation, dbVars, envVars
<1>1. CASE InvokeDbValidator(e)
  BY <1>1 DEF InvokeDbValidator, Advance
<1>2. CASE Connect(e)
  BY <1>2 DEF Connect, Advance
<1>3. CASE ConnectRefused(e)
  BY <1>3 DEF ConnectRefused, NotWritable, Advance
<1>4. CASE EnsureTable(e)
  BY <1>4, StatementGrows DEF EnsureTable, Advance
<1>5. CASE InsertRow(e)
  BY <1>5, StatementGrows DEF InsertRow
<1>6. CASE WriteRefused(e)
  BY <1>6 DEF WriteRefused, NotWritable, Advance
<1>7. CASE StatementFails(e) \/ DbValidatorKilled(e)
  <2>1. EnvTypeOK' /\ UNCHANGED <<db, secret>>
    BY <1>7 DEF StatementFails, DbValidatorKilled, Fault
  <2>2. vdw' \in [Executions -> Validation]
    BY <1>7 DEF StatementFails, DbValidatorKilled, NotWritable, Advance
  <2>3. schema' \in [table : BOOLEAN, rows : Nat]
    BY <1>7, StatementGrows DEF StatementFails, DbValidatorKilled, PerhapsExecuted
  <2>4. QED
    BY <2>1, <2>2, <2>3
<1>8. QED
  BY <1>1, <1>2, <1>3, <1>4, <1>5, <1>6, <1>7 DEF ValidateDbStep

(***************************************************************************)
(* A step of a validation is one of an invocation that is at work, and     *)
(* leaves the other invocations alone.                                     *)
(***************************************************************************)
LEMMA ValidateDbStepLocal ==
    ASSUME ValidateDbTypeOK,
           NEW e \in Executions
    PROVE  /\ ValidateDbStep(e) => vdw[e].pc \in {"connect", "table", "insert"}
           /\ InvokeDbValidator(e) => vdw'[e].pc = "connect"
           /\ InvokeDbValidator(e) \/ ValidateDbStep(e)
                => \A f \in Executions \ {e} : vdw'[f] = vdw[f]
<1>1. ValidateDbStep(e) => vdw[e].pc \in {"connect", "table", "insert"}
  BY DEF ValidateDbStep, Connect, ConnectRefused, EnsureTable, InsertRow,
         WriteRefused, StatementFails, DbValidatorKilled, PerhapsExecuted
<1>2. InvokeDbValidator(e) => vdw'[e].pc = "connect"
  BY DEF InvokeDbValidator, Advance, ValidateDbTypeOK, Validation
<1>3. InvokeDbValidator(e) \/ ValidateDbStep(e)
        => \E x : vdw' = [vdw EXCEPT ![e] = x]
  BY DEF InvokeDbValidator, ValidateDbStep, Connect, ConnectRefused,
         EnsureTable, InsertRow, WriteRefused, StatementFails,
         DbValidatorKilled, PerhapsExecuted, NotWritable, Advance
<1>4. ASSUME NEW x, vdw' = [vdw EXCEPT ![e] = x]
      PROVE  \A f \in Executions \ {e} : vdw'[f] = vdw[f]
  BY <1>4 DEF ValidateDbTypeOK
<1>5. QED
  BY <1>1, <1>2, <1>3, <1>4

(***************************************************************************)
(* So it is for a step of a validation.                                    *)
(***************************************************************************)
LEMMA SchemaGrows ==
    ASSUME ValidateDbTypeOK,
           NEW e \in Executions,
           InvokeDbValidator(e) \/ ValidateDbStep(e)
    PROVE  /\ schema.table => schema'.table
           /\ schema'.rows >= schema.rows
<1>1. CreateTableIfNotExists \/ CommitRow \/ UNCHANGED schema
  BY DEF InvokeDbValidator, ValidateDbStep, Connect, ConnectRefused,
         EnsureTable, InsertRow, WriteRefused, StatementFails,
         DbValidatorKilled, PerhapsExecuted
<1>2. QED
  BY <1>1, StatementGrows DEF ValidateDbTypeOK

(***************************************************************************)
(* What a validation knows stays known, and it learns only what is so.     *)
(***************************************************************************)
LEMMA ValidationKnows ==
    ASSUME ValidateDbTypeOK, KnowsInv,
           NEW e \in Executions,
           InvokeDbValidator(e) \/ ValidateDbStep(e)
    PROVE  KnowsInv'
<1>1. UNCHANGED <<db, secret>> /\ (schema.table => schema'.table)
  BY ValidateDbStepType, SchemaGrows
<1>2. SUFFICES ASSUME NEW f \in Executions
               PROVE  /\ vdw'[f].pc \in {"table", "insert"}
                           => secret = "current"
                      /\ vdw'[f].pc = "insert" => ~db.source /\ schema'.table
                      /\ vdw'[f].writable => /\ vdw'[f].pc = "returned"
                                             /\ ~db.source
                                             /\ secret = "current"
                                             /\ schema'.table
  BY <1>1 DEF KnowsInv
<1> USE DEF ValidateDbTypeOK, Validation, KnowsInv
<1>3. CASE InvokeDbValidator(e)
  BY <1>1, <1>3 DEF InvokeDbValidator, Advance
<1>4. CASE Connect(e)
  BY <1>1, <1>4 DEF Connect, Connectable, Advance
<1>5. CASE ConnectRefused(e)
  BY <1>1, <1>5 DEF ConnectRefused, NotWritable, Advance
<1>6. CASE EnsureTable(e)
  BY <1>1, <1>6 DEF EnsureTable, CreateTableIfNotExists, Advance
<1>7. CASE InsertRow(e)
  BY <1>1, <1>7 DEF InsertRow, CommitRow
<1>8. CASE WriteRefused(e)
  BY <1>1, <1>8 DEF WriteRefused, NotWritable, Advance
<1>9. CASE StatementFails(e)
  BY <1>1, <1>9 DEF StatementFails, PerhapsExecuted, NotWritable, Advance
<1>10. CASE DbValidatorKilled(e)
  BY <1>1, <1>10 DEF DbValidatorKilled, PerhapsExecuted, Advance
<1>11. QED
  BY <1>3, <1>4, <1>5, <1>6, <1>7, <1>8, <1>9, <1>10 DEF ValidateDbStep

(***************************************************************************)
(* Only InsertRow (app.py:72-79) lets an execution pass, and it adds the   *)
(* row.                                                                    *)
(***************************************************************************)
LEMMA ValidationCounts ==
    ASSUME DbInv,
           NEW e \in Executions,
           InvokeDbValidator(e) \/ ValidateDbStep(e)
    PROVE  RowsInv'
<1> USE DEF DbInv, ValidateDbTypeOK, Validation
<1>1. IsFiniteSet(Passed) /\ Cardinality(Passed) \in Nat
  BY EnvironmentAssumption, FS_Subset, FS_CardinalityType DEF Passed
<1>2. CASE InsertRow(e)
  <2>1. e \notin Passed
    BY <1>2 DEF InsertRow, Passed, KnowsInv
  <2>2. Passed' = Passed \cup {e}
    BY <1>2 DEF InsertRow, Passed
  <2>3. Cardinality(Passed') = Cardinality(Passed) + 1
    BY <1>1, <2>1, <2>2, FS_AddElement
  <2>4. schema'.rows = schema.rows + 1
    BY <1>2 DEF InsertRow, CommitRow
  <2>5. QED
    BY <1>1, <2>3, <2>4 DEF RowsInv
<1>3. CASE ~InsertRow(e)
  <2>1. \A f \in Executions : vdw'[f].writable = vdw[f].writable
    BY <1>3 DEF InvokeDbValidator, ValidateDbStep, Connect, ConnectRefused,
                EnsureTable, WriteRefused, StatementFails, DbValidatorKilled, PerhapsExecuted,
                NotWritable, Advance
  <2>2. Passed' = Passed
    BY <2>1 DEF Passed
  <2>3. schema'.rows >= schema.rows /\ schema'.rows \in Nat
    BY SchemaGrows, ValidateDbStepType
  <2>4. QED
    BY <1>1, <2>2, <2>3 DEF RowsInv
<1>4. QED
  BY <1>2, <1>3

(***************************************************************************)
(* The instance may be promoted or disturbed at any moment: no validation  *)
(* unlearns anything.                                                      *)
(***************************************************************************)
LEMMA InstanceKeepsDbInv ==
    ASSUME DbInv,
           RdsNext \/ (PromotionAccepted /\ UNCHANGED envVars),
           UNCHANGED <<vdw, secret, schema>>
    PROVE  DbInv'
<1>1. EnvTypeOK' /\ DbTypeOK' /\ (~db.source => ~db'.source)
  BY RdsStep, PromotionStep DEF DbInv, ValidateDbTypeOK, EnvTypeOK, envVars
<1>2. ValidateDbTypeOK'
  BY <1>1 DEF DbInv, ValidateDbTypeOK
<1>3. KnowsInv'
  BY <1>1 DEF DbInv, KnowsInv
<1>4. RowsInv'
  BY DEF DbInv, RowsInv, Passed
<1>5. QED
  BY <1>2, <1>3, <1>4 DEF DbInv

(***************************************************************************)
(* The three parts are inductive together.                                 *)
(***************************************************************************)
THEOREM DbInvariant == ValidateDbSpec => []DbInv
<1>1. ValidateDbInit => DbInv
  <2> SUFFICES ASSUME ValidateDbInit
               PROVE  DbInv
    OBVIOUS
  <2> USE DEF ValidateDbInit, EnvInit, DbInit, DbValidatorInit
  <2>1. ValidateDbTypeOK
    BY DEF ValidateDbTypeOK, EnvTypeOK, DbTypeOK, Instance, Validation
  <2>2. KnowsInv
    BY DEF KnowsInv
  <2>3. Passed = {}
    BY DEF Passed
  <2>4. RowsInv
    BY <2>3, FS_EmptySet DEF RowsInv
  <2>5. QED
    BY <2>1, <2>2, <2>4 DEF DbInv
<1>2. DbInv /\ [ValidateDbNext]_validateDbVars => DbInv'
  <2> SUFFICES ASSUME DbInv, [ValidateDbNext]_validateDbVars
               PROVE  DbInv'
    OBVIOUS
  <2>1. ASSUME NEW e \in Executions,
               InvokeDbValidator(e) \/ ValidateDbStep(e)
        PROVE  DbInv'
    BY <2>1, ValidateDbStepType, ValidationKnows, ValidationCounts DEF DbInv
  <2>2. CASE RdsNext /\ UNCHANGED <<vdw, secret, schema>>
    BY <2>2, InstanceKeepsDbInv
  <2>3. CASE PromotionAccepted /\ UNCHANGED <<envVars, vdw, secret, schema>>
    BY <2>3, InstanceKeepsDbInv
  <2>4. CASE UNCHANGED validateDbVars
    BY <2>4 DEF validateDbVars, dbVars, envVars, DbInv, ValidateDbTypeOK,
                EnvTypeOK, DbTypeOK, KnowsInv, RowsInv, Passed
  <2>5. QED
    BY <2>1, <2>2, <2>3, <2>4 DEF ValidateDbNext
<1>3. QED
  BY <1>1, <1>2, PTL DEF ValidateDbSpec

(***************************************************************************)
(* Each answer db_writable = true stands for a committed row of its own.   *)
(***************************************************************************)
THEOREM CommittedRowCorrect == ValidateDbSpec => []WritableMeansCommittedRow
<1>1. DbInv => WritableMeansCommittedRow
  BY DEF DbInv, RowsInv, Passed, WritableMeansCommittedRow
<1>2. QED
  BY <1>1, DbInvariant, PTL

(***************************************************************************)
(* An answer db_writable = true means a promoted database that the DR      *)
(* secret opens.                                                           *)
(***************************************************************************)
THEOREM UsableCorrect == ValidateDbSpec => []WritableMeansUsable
<1>1. DbInv => WritableMeansUsable
  BY DEF DbInv, KnowsInv, WritableMeansUsable
<1>2. QED
  BY <1>1, DbInvariant, PTL
=============================================================================
