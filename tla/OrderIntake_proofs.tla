------------------------ MODULE OrderIntake_proofs ------------------------
(***************************************************************************)
(* Proofs about OrderIntake, for any set of orders, any number of          *)
(* deliveries of each message, any number of crashes and any quantity.     *)
(*                                                                         *)
(* What makes the intake correct is the lock that OrderStateManager holds  *)
(* on the number of an order whose coroutine runs (LockInv): it is taken   *)
(* in the same step that starts the coroutine, no busy message takes it    *)
(* away, and markAsFinished replaces it by the terminal state before the   *)
(* finally block would release it.                                         *)
(***************************************************************************)
EXTENDS OrderIntake, TLAPS

(* What the stage of a coroutine says about the state of its order.        *)
LockInv ==
    \A o \in Order :
        /\ stage[o] \notin {"none", "closingServed", "ending"} => InProcessing(o)
        /\ stage[o] # "none" => InProcessing(o) \/ InTerminalState(o)

(* A finished order is in its terminal state, and its coroutine is over or *)
(* only winds up.                                                          *)
FinishedInv ==
    \A o \in finished :
        /\ InTerminalState(o)
        /\ stage[o] \in {"none", "closingServed", "ending"}

(* How many sausages were handed over when.                                *)
ProgressInv ==
    \A o \in Order :
        stage[o] \in {"waiting", "free", "delivering", "picking", "acting"} =>
            done[o] < Quantity

(* An order that is not on record, nor about to be, was handed over once   *)
(* per crash at most; recording it allows for once more.                   *)
CompletionInv ==
    \A o \in Order :
        completions[o] =<
            crashes + (IF o \in finished \/ stage[o] = "served" THEN 1 ELSE 0)

IntakeInv ==
    /\ IntakeTypeOK
    /\ LockInv
    /\ FinishedInv
    /\ ProgressInv
    /\ CompletionInv
    /\ ArmStatusHasOwner

-----------------------------------------------------------------------------
LEMMA InitIntakeInv == IntakeInit => IntakeInv
  BY OrderAssumption DEF IntakeInit, IntakeInv, IntakeTypeOK, LockInv,
     FinishedInv, ProgressInv, CompletionInv, ArmStatusHasOwner, Stage, AlgorithmState, Operating, Maintenance,
     Working, Busy, Processing, InProcessing, InTerminalState

(* A message for an order preserves the invariant.                         *)
LEMMA ReceiveKeepsInv ==
  ASSUME IntakeInv, NEW o \in Order, Receive(o)
  PROVE  IntakeInv'
<1> USE OrderAssumption DEF IntakeInv, InProcessing, InTerminalState, Busy,
        Processing, Operating, Maintenance, Working, DeviceBusy
<1>0. /\ UNCHANGED <<finished, unwritten, moveStatus, algorithm, movement,
                     completions, crashes>>
      /\ deliveries' \in [Order -> Nat]
      /\ \A p \in Order : deliveries'[p] =< MaxDeliveries[p]
  <2>1. UNCHANGED <<finished, unwritten, moveStatus, algorithm, movement,
                    completions, crashes>>
    BY DEF Receive, algorithmVars
  <2>2. /\ deliveries[o] < MaxDeliveries[o]
        /\ deliveries' = [deliveries EXCEPT ![o] = @ + 1]
    BY DEF Receive
  <2> QED
    BY <2>1, <2>2 DEF IntakeTypeOK
<1>1. CASE RecordBusyIgnored(o)
  <2>1. IntakeTypeOK'
    BY <1>0, <1>1
       DEF RecordBusyIgnored, coroutineVars, statusVars, IntakeTypeOK,
           Stage, AlgorithmState, ProgressInv
  <2>2. LockInv' /\ FinishedInv' /\ ProgressInv' /\ CompletionInv'
    BY <1>0, <1>1
       DEF RecordBusyIgnored, coroutineVars, statusVars, IntakeTypeOK,
           LockInv, FinishedInv, ProgressInv, CompletionInv
  <2>3. ArmStatusHasOwner'
    BY <1>0, <1>1
       DEF RecordBusyIgnored, coroutineVars, statusVars, IntakeTypeOK,
           ArmStatusHasOwner
  <2> QED BY <2>1, <2>2, <2>3
<1>2. CASE RefuseDuplicate(o)
  <2>1. IntakeTypeOK'
    BY <1>0, <1>2
       DEF RefuseDuplicate, coroutineVars, statusVars, IntakeTypeOK,
           Stage, AlgorithmState, ProgressInv
  <2>2. LockInv' /\ FinishedInv' /\ ProgressInv' /\ CompletionInv'
    BY <1>0, <1>2
       DEF RefuseDuplicate, coroutineVars, statusVars, IntakeTypeOK,
           LockInv, FinishedInv, ProgressInv, CompletionInv
  <2>3. ArmStatusHasOwner'
    BY <1>0, <1>2
       DEF RefuseDuplicate, coroutineVars, statusVars, IntakeTypeOK,
           ArmStatusHasOwner
  <2> QED BY <2>1, <2>2, <2>3
<1>3. CASE AcceptOrder(o)
  <2>1. IntakeTypeOK'
    BY <1>0, <1>3
       DEF AcceptOrder, coroutineVars, statusVars, IntakeTypeOK, Stage,
           AlgorithmState, ProgressInv
  <2>2. LockInv' /\ FinishedInv' /\ ProgressInv' /\ CompletionInv'
    BY <1>0, <1>3
       DEF AcceptOrder, coroutineVars, statusVars, IntakeTypeOK,
           LockInv, FinishedInv, ProgressInv, CompletionInv
  <2>3. ArmStatusHasOwner'
    BY <1>0, <1>3
       DEF AcceptOrder, coroutineVars, statusVars, IntakeTypeOK,
           ArmStatusHasOwner
  <2> QED BY <2>1, <2>2, <2>3
<1> QED BY <1>1, <1>2, <1>3 DEF Receive

(* A step of an order's coroutine preserves the invariant.                 *)
LEMMA CoroutineKeepsInv ==
  ASSUME IntakeInv, NEW o \in Order, OrderCoroutine(o)
  PROVE  IntakeInv'
<1> USE OrderAssumption DEF IntakeInv, InProcessing, InTerminalState, Busy,
        Processing, Operating, Maintenance, Working, DeviceBusy
<1> USE DEF Goto, LeaveTakeSausage, orderVars, statusVars, algorithmVars, boundVars
<1>1. CASE SeeArmIdle(o)
  <2>1. IntakeTypeOK'
    BY <1>1 DEF SeeArmIdle, IntakeTypeOK, Stage, AlgorithmState, ProgressInv
  <2>2. LockInv' /\ FinishedInv' /\ ProgressInv' /\ CompletionInv'
    BY <1>1
       DEF SeeArmIdle, IntakeTypeOK, LockInv, FinishedInv, ProgressInv,
           CompletionInv
  <2>3. ArmStatusHasOwner'
    BY <1>1 DEF SeeArmIdle, IntakeTypeOK, ArmStatusHasOwner
  <2> QED BY <2>1, <2>2, <2>3
<1>2. CASE WaitTimesOut(o)
  <2>1. IntakeTypeOK'
    BY <1>2 DEF WaitTimesOut, IntakeTypeOK, Stage, AlgorithmState, ProgressInv
  <2>2. LockInv' /\ FinishedInv' /\ ProgressInv' /\ CompletionInv'
    BY <1>2
       DEF WaitTimesOut, IntakeTypeOK, LockInv, FinishedInv,
           ProgressInv, CompletionInv
  <2>3. ArmStatusHasOwner'
    BY <1>2 DEF WaitTimesOut, IntakeTypeOK, ArmStatusHasOwner
  <2> QED BY <2>1, <2>2, <2>3
<1>3. CASE TakeArm(o)
  <2>1. IntakeTypeOK'
    BY <1>3 DEF TakeArm, IntakeTypeOK, Stage, AlgorithmState, ProgressInv
  <2>2. LockInv' /\ FinishedInv' /\ ProgressInv' /\ CompletionInv'
    BY <1>3
       DEF TakeArm, IntakeTypeOK, LockInv, FinishedInv, ProgressInv,
           CompletionInv
  <2>3. ArmStatusHasOwner'
    BY <1>3 DEF TakeArm, IntakeTypeOK, ArmStatusHasOwner
  <2> QED BY <2>1, <2>2, <2>3
<1>4. CASE StartSausage(o)
  <2>1. IntakeTypeOK'
    BY <1>4 DEF StartSausage, IntakeTypeOK, Stage, AlgorithmState, ProgressInv
  <2>2. LockInv' /\ FinishedInv' /\ ProgressInv' /\ CompletionInv'
    BY <1>4
       DEF StartSausage, IntakeTypeOK, LockInv, FinishedInv,
           ProgressInv, CompletionInv
  <2>3. ArmStatusHasOwner'
    BY <1>4 DEF StartSausage, IntakeTypeOK, ArmStatusHasOwner
  <2> QED BY <2>1, <2>2, <2>3
<1>5. CASE EnterTakeSausage(o)
  <2>1. IntakeTypeOK'
    BY <1>5
       DEF EnterTakeSausage, IntakeTypeOK, Stage, AlgorithmState,
           ProgressInv
  <2>2. LockInv' /\ FinishedInv' /\ ProgressInv' /\ CompletionInv'
    BY <1>5
       DEF EnterTakeSausage, IntakeTypeOK, LockInv, FinishedInv,
           ProgressInv, CompletionInv
  <2>3. ArmStatusHasOwner'
    BY <1>5 DEF EnterTakeSausage, IntakeTypeOK, ArmStatusHasOwner
  <2> QED BY <2>1, <2>2, <2>3
<1>6. CASE SausageHandedOver(o)
  <2>1. IntakeTypeOK'
    BY <1>6
       DEF SausageHandedOver, IntakeTypeOK, Stage, AlgorithmState,
           ProgressInv
  <2>2. LockInv' /\ FinishedInv' /\ ProgressInv' /\ CompletionInv'
    BY <1>6
       DEF SausageHandedOver, IntakeTypeOK, LockInv, FinishedInv,
           ProgressInv, CompletionInv
  <2>3. ArmStatusHasOwner'
    BY <1>6 DEF SausageHandedOver, IntakeTypeOK, ArmStatusHasOwner
  <2> QED BY <2>1, <2>2, <2>3
<1>7. CASE SausageFails(o)
  <2>1. IntakeTypeOK'
    <3>1. CASE Goto(o, "acting", "broken") /\ LeaveTakeSausage(o)
      BY <1>7, <3>1
         DEF SausageFails, IntakeTypeOK, Stage, AlgorithmState,
             ProgressInv
    <3>2. CASE Goto(o, "picking", "broken") /\ UNCHANGED <<moveStatus, acquired>>
      BY <1>7, <3>2
         DEF SausageFails, IntakeTypeOK, Stage, AlgorithmState,
             ProgressInv
    <3> QED BY <1>7, <3>1, <3>2 DEF SausageFails
  <2>2. LockInv' /\ FinishedInv' /\ ProgressInv' /\ CompletionInv'
    BY <1>7
       DEF SausageFails, IntakeTypeOK, LockInv, FinishedInv,
           ProgressInv, CompletionInv
  <2>3. ArmStatusHasOwner'
    BY <1>7 DEF SausageFails, IntakeTypeOK, ArmStatusHasOwner
  <2> QED BY <2>1, <2>2, <2>3
<1>8. CASE ReportBroken(o)
  <2>1. IntakeTypeOK'
    BY <1>8 DEF ReportBroken, IntakeTypeOK, Stage, AlgorithmState, ProgressInv
  <2>2. LockInv' /\ FinishedInv' /\ ProgressInv' /\ CompletionInv'
    BY <1>8
       DEF ReportBroken, IntakeTypeOK, LockInv, FinishedInv,
           ProgressInv, CompletionInv
  <2>3. ArmStatusHasOwner'
    BY <1>8 DEF ReportBroken, IntakeTypeOK, ArmStatusHasOwner
  <2> QED BY <2>1, <2>2, <2>3
<1>9. CASE ReleaseArm(o)
  <2>1. IntakeTypeOK'
    BY <1>9 DEF ReleaseArm, IntakeTypeOK, Stage, AlgorithmState, ProgressInv
  <2>2. LockInv' /\ FinishedInv' /\ ProgressInv' /\ CompletionInv'
    BY <1>9
       DEF ReleaseArm, IntakeTypeOK, LockInv, FinishedInv, ProgressInv,
           CompletionInv
  <2>3. ArmStatusHasOwner'
    BY <1>9 DEF ReleaseArm, IntakeTypeOK, ArmStatusHasOwner
  <2> QED BY <2>1, <2>2, <2>3
<1>10. CASE WindUp(o)
  <2>1. IntakeTypeOK'
    BY <1>10 DEF WindUp, IntakeTypeOK, Stage, AlgorithmState, ProgressInv
  <2>2. LockInv' /\ FinishedInv' /\ ProgressInv' /\ CompletionInv'
    BY <1>10
       DEF WindUp, IntakeTypeOK, LockInv, FinishedInv, ProgressInv,
           CompletionInv
  <2>3. ArmStatusHasOwner'
    BY <1>10 DEF WindUp, IntakeTypeOK, ArmStatusHasOwner
  <2> QED BY <2>1, <2>2, <2>3
<1>11. CASE EndCoroutine(o)
  <2>1. IntakeTypeOK'
    BY <1>11
       DEF EndCoroutine, IntakeTypeOK, Stage, AlgorithmState,
           ProgressInv
  <2>2. LockInv' /\ FinishedInv' /\ ProgressInv' /\ CompletionInv'
    BY <1>11
       DEF EndCoroutine, IntakeTypeOK, LockInv, FinishedInv,
           ProgressInv, CompletionInv
  <2>3. ArmStatusHasOwner'
    BY <1>11 DEF EndCoroutine, IntakeTypeOK, ArmStatusHasOwner
  <2> QED BY <2>1, <2>2, <2>3
<1> QED
  BY <1>1, <1>2, <1>3, <1>4, <1>5, <1>6, <1>7, <1>8, <1>9, <1>10, <1>11
     DEF OrderCoroutine

(* The scheduler, the page, the back office and a crash preserve it.       *)
LEMMA OthersKeepInv ==
  ASSUME IntakeInv,
         Algorithm \/ HumanRecovers \/ MergeRemoteConfig \/ WriteToDisk \/ Crash
  PROVE  IntakeInv'
<1> USE OrderAssumption DEF IntakeInv, InProcessing, InTerminalState, Busy,
        Processing, Operating, Maintenance, Working, DeviceBusy
<1> USE DEF AlgorithmStep, orderVars, statusVars, coroutineVars, algorithmVars, boundVars
<1>1. CASE MovementSeesArmIdle
  <2>1. IntakeTypeOK'
    BY <1>1
       DEF MovementSeesArmIdle, IntakeTypeOK, Stage, AlgorithmState,
           ProgressInv
  <2>2. LockInv' /\ FinishedInv' /\ ProgressInv' /\ CompletionInv'
    BY <1>1
       DEF MovementSeesArmIdle, IntakeTypeOK, LockInv, FinishedInv,
           ProgressInv, CompletionInv
  <2>3. ArmStatusHasOwner'
    BY <1>1 DEF MovementSeesArmIdle, IntakeTypeOK, ArmStatusHasOwner
  <2> QED BY <2>1, <2>2, <2>3
<1>2. CASE SupplyDeferred
  <2>1. IntakeTypeOK'
    BY <1>2
       DEF SupplyDeferred, IntakeTypeOK, Stage, AlgorithmState,
           ProgressInv
  <2>2. LockInv' /\ FinishedInv' /\ ProgressInv' /\ CompletionInv'
    BY <1>2
       DEF SupplyDeferred, IntakeTypeOK, LockInv, FinishedInv,
           ProgressInv, CompletionInv
  <2>3. ArmStatusHasOwner'
    BY <1>2 DEF SupplyDeferred, IntakeTypeOK, ArmStatusHasOwner
  <2> QED BY <2>1, <2>2, <2>3
<1>3. CASE MovementTakesArm
  <2>1. IntakeTypeOK'
    BY <1>3
       DEF MovementTakesArm, IntakeTypeOK, Stage, AlgorithmState,
           ProgressInv
  <2>2. LockInv' /\ FinishedInv' /\ ProgressInv' /\ CompletionInv'
    BY <1>3
       DEF MovementTakesArm, IntakeTypeOK, LockInv, FinishedInv,
           ProgressInv, CompletionInv
  <2>3. ArmStatusHasOwner'
    BY <1>3 DEF MovementTakesArm, IntakeTypeOK, ArmStatusHasOwner
  <2> QED BY <2>1, <2>2, <2>3
<1>4. CASE MovementEnds
  <2>1. IntakeTypeOK'
    BY <1>4 DEF MovementEnds, IntakeTypeOK, Stage, AlgorithmState, ProgressInv
  <2>2. LockInv' /\ FinishedInv' /\ ProgressInv' /\ CompletionInv'
    BY <1>4
       DEF MovementEnds, IntakeTypeOK, LockInv, FinishedInv,
           ProgressInv, CompletionInv
  <2>3. ArmStatusHasOwner'
    BY <1>4 DEF MovementEnds, IntakeTypeOK, ArmStatusHasOwner
  <2> QED BY <2>1, <2>2, <2>3
<1>5. CASE MovementReportsFault
  <2>1. IntakeTypeOK'
    BY <1>5
       DEF MovementReportsFault, IntakeTypeOK, Stage, AlgorithmState,
           ProgressInv
  <2>2. LockInv' /\ FinishedInv' /\ ProgressInv' /\ CompletionInv'
    BY <1>5
       DEF MovementReportsFault, IntakeTypeOK, LockInv, FinishedInv,
           ProgressInv, CompletionInv
  <2>3. ArmStatusHasOwner'
    BY <1>5 DEF MovementReportsFault, IntakeTypeOK, ArmStatusHasOwner
  <2> QED BY <2>1, <2>2, <2>3
<1>6. CASE MovementResumes
  <2>1. IntakeTypeOK'
    BY <1>6
       DEF MovementResumes, IntakeTypeOK, Stage, AlgorithmState,
           ProgressInv
  <2>2. LockInv' /\ FinishedInv' /\ ProgressInv' /\ CompletionInv'
    BY <1>6
       DEF MovementResumes, IntakeTypeOK, LockInv, FinishedInv,
           ProgressInv, CompletionInv
  <2>3. ArmStatusHasOwner'
    BY <1>6 DEF MovementResumes, IntakeTypeOK, ArmStatusHasOwner
  <2> QED BY <2>1, <2>2, <2>3
<1>7. CASE HumanRecovers
  <2>1. IntakeTypeOK'
    BY <1>7
       DEF HumanRecovers, IntakeTypeOK, Stage, AlgorithmState,
           ProgressInv
  <2>2. LockInv' /\ FinishedInv' /\ ProgressInv' /\ CompletionInv'
    BY <1>7
       DEF HumanRecovers, IntakeTypeOK, LockInv, FinishedInv,
           ProgressInv, CompletionInv
  <2>3. ArmStatusHasOwner'
    BY <1>7 DEF HumanRecovers, IntakeTypeOK, ArmStatusHasOwner
  <2> QED BY <2>1, <2>2, <2>3
<1>8. CASE MergeRemoteConfig
  <2>1. IntakeTypeOK'
    BY <1>8
       DEF MergeRemoteConfig, IntakeTypeOK, Stage, AlgorithmState,
           ProgressInv
  <2>2. LockInv' /\ FinishedInv' /\ ProgressInv' /\ CompletionInv'
    BY <1>8
       DEF MergeRemoteConfig, IntakeTypeOK, LockInv, FinishedInv,
           ProgressInv, CompletionInv
  <2>3. ArmStatusHasOwner'
    BY <1>8 DEF MergeRemoteConfig, IntakeTypeOK, ArmStatusHasOwner
  <2> QED BY <2>1, <2>2, <2>3
<1>9. CASE Crash
  <2>1. IntakeTypeOK'
    BY <1>9 DEF Crash, IntakeTypeOK, Stage, AlgorithmState, ProgressInv
  <2>2. LockInv' /\ FinishedInv' /\ ProgressInv' /\ CompletionInv'
    BY <1>9
       DEF Crash, IntakeTypeOK, LockInv, FinishedInv, ProgressInv,
           CompletionInv
  <2>3. ArmStatusHasOwner'
    BY <1>9 DEF Crash, IntakeTypeOK, ArmStatusHasOwner
  <2> QED BY <2>1, <2>2, <2>3
<1>10. CASE WriteToDisk
  <2>1. IntakeTypeOK'
    BY <1>10 DEF WriteToDisk, IntakeTypeOK, Stage, AlgorithmState, ProgressInv
  <2>2. LockInv' /\ FinishedInv' /\ ProgressInv' /\ CompletionInv'
    BY <1>10
       DEF WriteToDisk, IntakeTypeOK, LockInv, FinishedInv, ProgressInv,
           CompletionInv
  <2>3. ArmStatusHasOwner'
    BY <1>10 DEF WriteToDisk, IntakeTypeOK, ArmStatusHasOwner
  <2> QED BY <2>1, <2>2, <2>3
<1> QED
  BY <1>1, <1>2, <1>3, <1>4, <1>5, <1>6, <1>7, <1>8, <1>9, <1>10
     DEF Algorithm

(* Every step preserves the invariant.                                     *)
LEMMA StepKeepsInv ==
  ASSUME IntakeInv, [IntakeNext]_intakeVars
  PROVE  IntakeInv'
<1>1. ASSUME NEW o \in Order, Receive(o) PROVE IntakeInv'
  BY <1>1, ReceiveKeepsInv
<1>2. ASSUME NEW o \in Order, OrderCoroutine(o) PROVE IntakeInv'
  BY <1>2, CoroutineKeepsInv
<1>3. CASE Algorithm \/ HumanRecovers \/ MergeRemoteConfig \/ WriteToDisk \/ Crash
  BY <1>3, OthersKeepInv
<1>4. CASE UNCHANGED intakeVars
  BY <1>4 DEF IntakeInv, IntakeTypeOK, LockInv, FinishedInv, ProgressInv,
     CompletionInv, ArmStatusHasOwner, InProcessing, InTerminalState,
     intakeVars, orderVars, statusVars, coroutineVars, algorithmVars, boundVars
<1> QED
  BY <1>1, <1>2, <1>3, <1>4 DEF IntakeNext

LEMMA IntakeInvariant == IntakeSpec => []IntakeInv
<1>1. IntakeInv /\ [IntakeNext]_intakeVars => IntakeInv'
  BY StepKeepsInv
<1> QED
  BY InitIntakeInv, <1>1, PTL DEF IntakeSpec

-----------------------------------------------------------------------------
(* The types of OrderIntake hold, with the order of every stage.           *)
THEOREM IntakeTypeCorrect == IntakeSpec => []IntakeTypeOK
<1>1. IntakeInv => IntakeTypeOK
  BY DEF IntakeInv
<1> QED
  BY IntakeInvariant, <1>1, PTL

(* checkAndAcceptOrder never lets an order run that is recorded as         *)
(* finished, whatever messages arrive and however often the app is killed. *)
THEOREM FinishedStaysFinished == IntakeSpec => []FinishedNeverRunsAgain
<1>1. IntakeInv => FinishedNeverRunsAgain
  BY DEF IntakeInv, FinishedInv, FinishedNeverRunsAgain
<1> QED
  BY IntakeInvariant, <1>1, PTL

(* For each time more that an order is handed over the app was killed: its *)
(* number stays locked until it is recorded, and a record is only lost by a *)
(* kill.                                                                   *)
THEOREM ServedOnce == IntakeSpec => []ServedOncePerStart
<1>1. IntakeInv => ServedOncePerStart
  BY DEF IntakeInv, IntakeTypeOK, CompletionInv, ServedOncePerStart
<1> QED
  BY IntakeInvariant, <1>1, PTL

(* moveStatus never stays busy without a coroutine or a movement that will *)
(* release it, although orders and movements overwrite each other's.       *)
THEOREM ArmStatusOwned == IntakeSpec => []ArmStatusHasOwner
<1>1. IntakeInv => ArmStatusHasOwner
  BY DEF IntakeInv
<1> QED
  BY IntakeInvariant, <1>1, PTL

(* No message starts a coroutine for an order that has one.                *)
THEOREM OneCoroutinePerOrder == IntakeSpec => NoSecondCoroutine
<1>1. ASSUME IntakeInv, NEW o \in Order, AcceptOrder(o)
      PROVE  stage[o] = "none"
  BY <1>1 DEF IntakeInv, LockInv, AcceptOrder
<1>2. IntakeInv => [\A o \in Order : AcceptOrder(o) => stage[o] = "none"]_intakeVars
  BY <1>1
<1> QED
  BY IntakeInvariant, <1>2, PTL DEF IntakeSpec, NoSecondCoroutine

-----------------------------------------------------------------------------
(* OrderIntake implements OrderService.                                    *)

(* A step that changes nobody's status is a stutter of the service.        *)
LEMMA SameStatusStutters ==
  ASSUME \A p \in Order : ServiceStatus(p)' = ServiceStatus(p),
         UNCHANGED <<completions, crashes>>
  PROVE  UNCHANGED Service!serviceVars
<1>1. [p \in Order |-> ServiceStatus(p)]' = [p \in Order |-> ServiceStatus(p)]
  OBVIOUS
<1> QED
  BY <1>1 DEF Service!serviceVars

(* A step of one order that takes its status from a to b is the change of  *)
(* the service.                                                            *)
LEMMA OneStatusChanges ==
  ASSUME NEW o \in Order, NEW a, NEW b,
         ServiceStatus(o) = a, ServiceStatus(o)' = b,
         \A p \in Order \ {o} : ServiceStatus(p)' = ServiceStatus(p)
  PROVE  Service!Change(o, a, b)
<1> DEFINE map == [p \in Order |-> ServiceStatus(p)]
<1>1. map' = [map EXCEPT ![o] = b]
  OBVIOUS
<1>2. map[o] = a
  OBVIOUS
<1> QED
  BY <1>1, <1>2 DEF Service!Change

(* A message begins an order or changes nothing.                           *)
LEMMA ReceiveRefines ==
  ASSUME IntakeInv, NEW o \in Order, Receive(o)
  PROVE  Service!Begin(o) \/ UNCHANGED Service!serviceVars
<1>1. UNCHANGED <<finished, unwritten, completions, crashes>>
  BY DEF Receive
<1>2. CASE RecordBusyIgnored(o) \/ RefuseDuplicate(o)
  <2>1. stage' = stage
    BY <1>2 DEF RecordBusyIgnored, RefuseDuplicate, coroutineVars
  <2>2. \A p \in Order : ServiceStatus(p)' = ServiceStatus(p)
    BY <1>1, <2>1 DEF ServiceStatus
  <2> QED
    BY <1>1, <2>2, SameStatusStutters
<1>3. CASE AcceptOrder(o)
  <2>1. stage[o] = "none" /\ o \notin finished /\ o \notin unwritten
    BY <1>3 DEF AcceptOrder, IntakeInv, LockInv, FinishedInv, IntakeTypeOK
  <2>2. stage' = [stage EXCEPT ![o] = "waiting"] /\ stage \in [Order -> Stage]
    BY <1>3 DEF AcceptOrder, IntakeInv, IntakeTypeOK
  <2>3. ServiceStatus(o) = "open" /\ ServiceStatus(o)' = "running"
    BY <1>1, <2>1, <2>2 DEF ServiceStatus
  <2>4. \A p \in Order \ {o} : ServiceStatus(p)' = ServiceStatus(p)
    BY <1>1, <2>2 DEF ServiceStatus
  <2>5. Service!Change(o, "open", "running")
    BY <2>3, <2>4, OneStatusChanges
  <2> QED
    BY <1>1, <2>5 DEF Service!Begin
<1> QED
  BY <1>2, <1>3 DEF Receive

(* A coroutine hands its order over, gives it up or changes nothing.       *)
LEMMA CoroutineRefines ==
  ASSUME IntakeInv, NEW o \in Order, OrderCoroutine(o)
  PROVE  \/ Service!HandOver(o) \/ Service!GiveUp(o)
         \/ UNCHANGED Service!serviceVars
<1> USE DEF Goto, orderVars, boundVars
<1>1. stage \in [Order -> Stage] /\ unwritten \subseteq finished
  BY DEF IntakeInv, IntakeTypeOK
<1>2. UNCHANGED crashes
  BY DEF OrderCoroutine, SeeArmIdle, WaitTimesOut, TakeArm, StartSausage,
     EnterTakeSausage, SausageHandedOver, SausageFails, ReportBroken, ReleaseArm,
     WindUp, EndCoroutine
<1>3. \A p \in Order \ {o} : ServiceStatus(p)' = ServiceStatus(p)
  <2>1. \A p \in Order \ {o} :
          /\ stage'[p] = stage[p]
          /\ p \in finished' <=> p \in finished
          /\ p \in unwritten' <=> p \in unwritten
    BY <1>1
       DEF OrderCoroutine, SeeArmIdle, WaitTimesOut, TakeArm, StartSausage,
           EnterTakeSausage, SausageHandedOver, SausageFails, ReportBroken,
           ReleaseArm, WindUp, EndCoroutine
  <2> QED
    BY <2>1 DEF ServiceStatus
<1>4. CASE \/ SeeArmIdle(o) \/ WaitTimesOut(o) \/ TakeArm(o) \/ StartSausage(o)
           \/ EnterTakeSausage(o) \/ SausageFails(o) \/ ReportBroken(o)
           \/ WindUp(o)
  <2>1. /\ UNCHANGED <<finished, unwritten, completions>>
        /\ stage[o] \notin {"none", "served"} /\ stage'[o] \notin {"none", "served"}
    BY <1>1, <1>4
       DEF SeeArmIdle, WaitTimesOut, TakeArm, StartSausage, EnterTakeSausage,
           SausageFails, ReportBroken, WindUp
  <2>2. ServiceStatus(o)' = ServiceStatus(o)
    BY <2>1 DEF ServiceStatus
  <2> QED
    BY <1>2, <1>3, <2>1, <2>2, SameStatusStutters
<1>5. CASE SausageHandedOver(o) /\ done[o] + 1 # Quantity
  <2>1. /\ UNCHANGED <<finished, unwritten>>
        /\ stage[o] = "acting" /\ stage'[o] = "delivering"
    BY <1>1, <1>5 DEF SausageHandedOver
  <2>2. completions' = completions
    BY <1>5 DEF SausageHandedOver, IntakeInv, IntakeTypeOK
  <2>3. ServiceStatus(o)' = ServiceStatus(o)
    BY <2>1 DEF ServiceStatus
  <2> QED
    BY <1>2, <1>3, <2>2, <2>3, SameStatusStutters
<1>6. CASE SausageHandedOver(o) /\ done[o] + 1 = Quantity
  <2>1. /\ UNCHANGED <<finished, unwritten>>
        /\ stage[o] = "acting" /\ stage'[o] = "served"
    BY <1>1, <1>6 DEF SausageHandedOver
  <2>2. completions' = [completions EXCEPT ![o] = @ + 1]
    BY <1>6 DEF SausageHandedOver
  <2>3. o \notin finished /\ o \notin unwritten
    BY <1>1, <2>1 DEF IntakeInv, FinishedInv
  <2>4. ServiceStatus(o) = "running" /\ ServiceStatus(o)' = "handed"
    BY <2>1, <2>3 DEF ServiceStatus
  <2>5. Service!Change(o, "running", "handed")
    BY <1>3, <2>4, OneStatusChanges
  <2> QED
    BY <1>2, <2>2, <2>5 DEF Service!HandOver
<1>7. CASE ReleaseArm(o)
  <2>1. ServiceStatus(o)' = ServiceStatus(o) /\ completions' = completions
    <3>1. CASE stage[o] = "served"
      BY <1>1, <1>7, <3>1 DEF ReleaseArm, ServiceStatus
    <3>2. CASE stage[o] = "unserved"
      BY <1>1, <1>7, <3>2 DEF ReleaseArm, ServiceStatus
    <3> QED
      BY <1>7, <3>1, <3>2 DEF ReleaseArm
  <2> QED
    BY <1>2, <1>3, <2>1, SameStatusStutters
<1>8. CASE EndCoroutine(o)
  <2>1. /\ UNCHANGED <<finished, unwritten, completions>>
        /\ stage[o] = "ending" /\ stage'[o] = "none"
    BY <1>1, <1>8 DEF EndCoroutine
  <2>2. CASE o \in finished
    <3>1. ServiceStatus(o)' = ServiceStatus(o)
      BY <2>1, <2>2 DEF ServiceStatus
    <3> QED
      BY <1>2, <1>3, <2>1, <3>1, SameStatusStutters
  <2>3. CASE o \notin finished
    <3>1. ServiceStatus(o) = "running" /\ ServiceStatus(o)' = "open"
      BY <1>1, <2>1, <2>3 DEF ServiceStatus
    <3>2. Service!Change(o, "running", "open")
      BY <1>3, <3>1, OneStatusChanges
    <3> QED
      BY <1>2, <2>1, <3>2 DEF Service!GiveUp
  <2> QED
    BY <2>2, <2>3
<1> QED
  BY <1>4, <1>5, <1>6, <1>7, <1>8 DEF OrderCoroutine

(* A crash is a restart, and what arrives on the disk is finished.         *)
LEMMA OthersRefine ==
  ASSUME IntakeInv,
         Algorithm \/ HumanRecovers \/ MergeRemoteConfig \/ WriteToDisk \/ Crash
  PROVE  Service!Finish \/ Service!Restart \/ UNCHANGED Service!serviceVars
<1> USE DEF orderVars, coroutineVars, boundVars
<1> DEFINE map == [p \in Order |-> ServiceStatus(p)]
<1>1. CASE Algorithm \/ HumanRecovers \/ MergeRemoteConfig
  <2>1. UNCHANGED <<stage, finished, unwritten, completions, crashes>>
    BY <1>1
       DEF Algorithm, MovementSeesArmIdle, SupplyDeferred, MovementTakesArm,
           MovementEnds, MovementReportsFault, MovementResumes, AlgorithmStep,
           HumanRecovers, MergeRemoteConfig
  <2>2. \A p \in Order : ServiceStatus(p)' = ServiceStatus(p)
    BY <2>1 DEF ServiceStatus
  <2> QED
    BY <2>1, <2>2, SameStatusStutters
<1>2. CASE WriteToDisk
  <2>1. UNCHANGED <<stage, finished, completions, crashes>> /\ unwritten' = {}
    BY <1>2 DEF WriteToDisk
  <2>2. unwritten \in SUBSET {p \in Order : map[p] = "handed"}
    BY DEF IntakeInv, IntakeTypeOK, ServiceStatus
  <2>3. \A p \in Order : ServiceStatus(p)' = IF p \in unwritten THEN "finished"
                                             ELSE ServiceStatus(p)
    BY <2>1 DEF IntakeInv, IntakeTypeOK, FinishedInv, ServiceStatus
  <2>4. map' = [p \in Order |-> IF p \in unwritten THEN "finished" ELSE map[p]]
    BY <2>3
  <2> QED
    BY <2>1, <2>2, <2>4 DEF Service!Finish
<1>3. CASE Crash
  <2>1. /\ stage' = [p \in Order |-> "none"]
        /\ finished' = finished \ unwritten /\ unwritten' = {}
        /\ crashes' = crashes + 1 /\ completions' = completions
    BY <1>3 DEF Crash
  <2>2. \A p \in Order :
          ServiceStatus(p)' = IF ServiceStatus(p) = "finished" THEN "finished"
                              ELSE "open"
    BY <2>1 DEF IntakeInv, IntakeTypeOK, FinishedInv, ServiceStatus
  <2>3. map' = [p \in Order |-> IF map[p] = "finished" THEN "finished" ELSE "open"]
    BY <2>2
  <2> QED
    BY <2>1, <2>3 DEF Service!Restart
<1> QED
  BY <1>1, <1>2, <1>3

(* OrderIntake implements OrderService, for any set of orders and any      *)
(* number of messages and kills: initial states and steps.                 *)
THEOREM RefinesService == IntakeSpec => RefinesOrderService
<1>1. IntakeInit => Service!ServiceInit
  BY DEF IntakeInit, Service!ServiceInit, ServiceStatus
<1>2. ASSUME IntakeInv, [IntakeNext]_intakeVars
      PROVE  [Service!ServiceNext]_(Service!serviceVars)
  <2>1. ASSUME NEW o \in Order, Receive(o) \/ OrderCoroutine(o)
        PROVE  [Service!ServiceNext]_(Service!serviceVars)
    BY <1>2, <2>1, ReceiveRefines, CoroutineRefines DEF Service!ServiceNext
  <2>2. CASE Algorithm \/ HumanRecovers \/ MergeRemoteConfig \/ WriteToDisk \/ Crash
    BY <1>2, <2>2, OthersRefine DEF Service!ServiceNext
  <2>3. CASE UNCHANGED intakeVars
    <3>1. UNCHANGED <<stage, finished, unwritten, completions, crashes>>
      BY <2>3 DEF intakeVars, orderVars, coroutineVars, boundVars
    <3>2. \A p \in Order : ServiceStatus(p)' = ServiceStatus(p)
      BY <3>1 DEF ServiceStatus
    <3> QED
      BY <3>1, <3>2, SameStatusStutters
  <2> QED
    BY <1>2, <2>1, <2>2, <2>3 DEF IntakeNext
<1> QED
  BY <1>1, <1>2, IntakeInvariant, PTL
     DEF IntakeSpec, RefinesOrderService, Service!ServiceSpec
=============================================================================
