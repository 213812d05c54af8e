---------------------------- MODULE OrderIntake -----------------------------
(***************************************************************************)
(* From an MQTT order message to the sausages at the window: the handler   *)
(* of MainActivity on the main thread, the states of OrderStateManager,    *)
(* one coroutine per accepted order (OrderActivity.purchaseOrder), and the *)
(* local arm status moveStatus that the orders share with the scheduler's  *)
(* own movements.                                                          *)
(*                                                                         *)
(* Messages may arrive more than once and the app may be killed.  An entry *)
(* of OrderStateManager is forgotten after 3 hours (memory) or 24 hours    *)
(* (finished): runs of this model are shorter than that.  A final state is *)
(* read back at once, but SharedPreferences.apply writes it to the disk    *)
(* later: a kill in between loses it.                                      *)
(***************************************************************************)
EXTENDS Naturals, FiniteSets

CONSTANTS
    Order,          \* order numbers
    Movement,       \* what the scheduler does with the arm: 1, 3, 4
    Quantity,       \* sausages in an order
    MaxDeliveries,  \* how often the message of each order may arrive
    MaxCrashes      \* how often the app may be killed

ASSUME OrderAssumption ==
    /\ Movement \subseteq {1, 3, 4}
    /\ Quantity \in Nat \ {0}
    /\ MaxDeliveries \in [Order -> Nat]
    /\ MaxCrashes \in Nat

VARIABLES
    memoryStates,   \* OrderStateManager.memoryStates
    finished,       \* orders recorded as STATE_FINISHED
    unwritten,      \* those of them that apply has not written to the disk
    moveStatus,     \* 0 idle, 1 supply, 2 order, 3 pan move, 4 discard
    onlineStatus,   \* 1 operating, 3 maintenance, 4 working
    errorStatus,    \* 0 normal, 2 fault
    stage,          \* where the coroutine of each order is
    done,           \* completedCount of that coroutine
    acquired,       \* takeSausageResult took the arm itself
    algorithm,      \* where the scheduler coroutine is
    movement,       \* the movement it is about, or 0
    deliveries,     \* messages that arrived, per order
    crashes,
    completions     \* history: how often all its sausages were handed over

orderVars == <<memoryStates, finished, unwritten>>
statusVars == <<onlineStatus, errorStatus>>
coroutineVars == <<stage, done, acquired>>
algorithmVars == <<algorithm, movement>>
boundVars == <<deliveries, crashes>>
intakeVars == <<orderVars, moveStatus, statusVars, coroutineVars,
                algorithmVars, completions, boundVars>>

Operating == 1
Maintenance == 3
Working == 4

Busy == "RECEIVED_BUT_BUSY"
Processing == "ACCEPTED_PROCESSING"

\* none: no coroutine; waiting: for the arm; free: read moveStatus = 0;
\* delivering: before the next sausage; picking: reported, going for it;
\* acting: the arm moves; broken: the item threw; unserved, served: all items
\* are done with; closing...: moveStatus was released; ending: only the
\* finally block is left.
Stage == {"none", "waiting", "free", "delivering", "picking", "acting",
          "broken", "unserved", "served", "closingUnserved", "closingServed",
          "ending"}

\* The scheduler runs its movements one after the other.
AlgorithmState == {"idle", "free", "acting", "faulty", "pausing"}

IntakeTypeOK ==
    /\ memoryStates \in [Order -> {"none", Busy, Processing}]
    /\ finished \subseteq Order /\ unwritten \subseteq finished
    /\ moveStatus \in 0..4
    /\ onlineStatus \in {Operating, Maintenance, Working}
    /\ errorStatus \in {0, 2}
    /\ stage \in [Order -> Stage]
    /\ done \in [Order -> 0..Quantity]
    /\ acquired \in [Order -> BOOLEAN]
    /\ algorithm \in AlgorithmState
    /\ movement \in {0} \cup Movement
    /\ deliveries \in [Order -> Nat]
    /\ \A o \in Order : deliveries[o] =< MaxDeliveries[o]
    /\ crashes \in 0..MaxCrashes
    /\ completions \in [Order -> Nat]

IntakeInit ==
    /\ memoryStates = [o \in Order |-> "none"]
    /\ finished = {} /\ unwritten = {}
    /\ moveStatus = 0
    /\ onlineStatus = Operating
    /\ errorStatus = 0
    /\ stage = [o \in Order |-> "none"]
    /\ done = [o \in Order |-> 0]
    /\ acquired = [o \in Order |-> FALSE]
    /\ algorithm = "idle" /\ movement = 0
    /\ deliveries = [o \in Order |-> 0]
    /\ crashes = 0
    /\ completions = [o \in Order |-> 0]

-----------------------------------------------------------------------------
(* The handler of an order message.                                        *)

DeviceBusy == moveStatus = 2 \/ onlineStatus = Working

\* getOrderState: memory first, then what was persisted.
InProcessing(o) == memoryStates[o] = Processing
InTerminalState(o) == memoryStates[o] = "none" /\ o \in finished

\* recordBusyIgnored: never a step back from processing or finished.
RecordBusyIgnored(o) ==
    /\ DeviceBusy
    /\ memoryStates' = IF InProcessing(o) \/ InTerminalState(o)
                       THEN memoryStates
                       ELSE [memoryStates EXCEPT ![o] = Busy]
    /\ UNCHANGED <<statusVars, coroutineVars>>

\* checkAndAcceptOrder refuses what is being processed or finished.
RefuseDuplicate(o) ==
    /\ ~DeviceBusy
    /\ InProcessing(o) \/ InTerminalState(o)
    /\ UNCHANGED <<memoryStates, statusVars, coroutineVars>>

\* Fault: only a finished order is refused.
AcceptUnfinishedOrder(o) ==
    /\ ~DeviceBusy
    /\ ~InTerminalState(o)
    /\ memoryStates' = [memoryStates EXCEPT ![o] = Processing]
    /\ onlineStatus' = Working
    /\ stage' = [stage EXCEPT ![o] = "waiting"]
    /\ done' = [done EXCEPT ![o] = 0]
    /\ UNCHANGED <<errorStatus, acquired>>

\* checkAndAcceptOrder accepts, the device goes to work, the coroutine starts.
AcceptOrder(o) ==
    /\ ~DeviceBusy
    /\ ~InProcessing(o) /\ ~InTerminalState(o)
    /\ memoryStates' = [memoryStates EXCEPT ![o] = Processing]
    /\ onlineStatus' = Working
    /\ stage' = [stage EXCEPT ![o] = "waiting"]
    /\ done' = [done EXCEPT ![o] = 0]
    /\ UNCHANGED <<errorStatus, acquired>>

Receive(o) ==
    /\ deliveries[o] < MaxDeliveries[o]
    /\ deliveries' = [deliveries EXCEPT ![o] = @ + 1]
    /\ RecordBusyIgnored(o) \/ RefuseDuplicate(o) \/ AcceptOrder(o)
    /\ UNCHANGED <<finished, unwritten, moveStatus, algorithmVars, completions,
                   crashes>>

-----------------------------------------------------------------------------
(* The coroutine of an order.                                              *)

Goto(o, from, to) == stage[o] = from /\ stage' = [stage EXCEPT ![o] = to]

SeeArmIdle(o) ==
    /\ moveStatus = 0
    /\ Goto(o, "waiting", "free")
    /\ UNCHANGED <<orderVars, moveStatus, statusVars, done, acquired,
                   algorithmVars, completions, boundVars>>

\* After 240 seconds: the code says it gives up, and goes on to the items.
WaitTimesOut(o) ==
    /\ moveStatus # 0
    /\ Goto(o, "waiting", "delivering")
    /\ UNCHANGED <<orderVars, moveStatus, statusVars, done, acquired, algorithmVars,
                   completions, boundVars>>

TakeArm(o) ==
    /\ Goto(o, "free", "delivering")
    /\ moveStatus' = 2
    /\ UNCHANGED <<orderVars, statusVars, done, acquired, algorithmVars,
                   completions, boundVars>>

\* handleOrderItemDelivery: only with moveStatus = 2.
StartSausage(o) ==
    /\ IF moveStatus = 2
         THEN Goto(o, "delivering", "picking")
         ELSE Goto(o, "delivering", "unserved")
    /\ UNCHANGED <<orderVars, moveStatus, statusVars, done, acquired,
                   algorithmVars, completions, boundVars>>

\* takeSausageResult: waits for 1, 3 and 4, takes a free arm, joins at 2.
EnterTakeSausage(o) ==
    /\ moveStatus \in {0, 2}
    /\ Goto(o, "picking", "acting")
    /\ acquired' = [acquired EXCEPT ![o] = (moveStatus = 0)]
    /\ moveStatus' = 2
    /\ UNCHANGED <<orderVars, statusVars, done, algorithmVars, completions,
                   boundVars>>

\* The finally block of takeSausageResult.
LeaveTakeSausage(o) ==
    /\ moveStatus' = IF acquired[o] THEN 0 ELSE moveStatus
    /\ acquired' = [acquired EXCEPT ![o] = FALSE]

\* Taken by the customer, or discarded after the time to take it.
SausageHandedOver(o) ==
    /\ Goto(o, "acting",
            IF done[o] + 1 = Quantity THEN "served" ELSE "delivering")
    /\ LeaveTakeSausage(o)
    /\ done' = [done EXCEPT ![o] = @ + 1]
    /\ completions' = [completions EXCEPT
                         ![o] = IF done[o] + 1 = Quantity THEN @ + 1 ELSE @]
    /\ UNCHANGED <<orderVars, statusVars, algorithmVars, boundVars>>

\* Not confirmed, an error of the arm, or a link that stays down.
SausageFails(o) ==
    /\ \/ Goto(o, "acting", "broken") /\ LeaveTakeSausage(o)
       \/ Goto(o, "picking", "broken") /\ UNCHANGED <<moveStatus, acquired>>
    /\ UNCHANGED <<orderVars, statusVars, done, algorithmVars, completions,
                   boundVars>>

\* The catch block, on the main thread: maintenance, and the order is over.
ReportBroken(o) ==
    /\ Goto(o, "broken", "unserved")
    /\ errorStatus' = 2
    /\ onlineStatus' = Maintenance
    /\ UNCHANGED <<orderVars, moveStatus, done, acquired, algorithmVars,
                   completions, boundVars>>

\* Fault: a served order is not marked as finished.
ReleaseArmOnly(o) ==
    /\ Goto(o, "served", "closingServed") \/ Goto(o, "unserved", "closingUnserved")
    /\ moveStatus' = 0
    /\ UNCHANGED <<orderVars, statusVars, done, acquired, algorithmVars,
                   completions, boundVars>>

\* markAsFinished for a served order, then moveStatus = 0 for any order.
ReleaseArm(o) ==
    /\ \/ /\ Goto(o, "served", "closingServed")
          /\ finished' = finished \cup {o}
          /\ unwritten' = unwritten \cup {o}
          /\ memoryStates' = [memoryStates EXCEPT ![o] = "none"]
       \/ /\ Goto(o, "unserved", "closingUnserved")
          /\ UNCHANGED orderVars
    /\ moveStatus' = 0
    /\ UNCHANGED <<statusVars, done, acquired, algorithmVars, completions,
                   boundVars>>

\* On the main thread: the status working is wound up.
WindUp(o) ==
    /\ Goto(o, "closingServed", "ending") \/ Goto(o, "closingUnserved", "ending")
    /\ onlineStatus' =
         IF onlineStatus # Working THEN onlineStatus
         ELSE IF stage[o] = "closingServed" /\ errorStatus = 0 THEN Operating
         ELSE Maintenance
    /\ UNCHANGED <<orderVars, moveStatus, errorStatus, done, acquired,
                   algorithmVars, completions, boundVars>>

\* The finally block: releaseProcessing.
EndCoroutine(o) ==
    /\ Goto(o, "ending", "none")
    /\ memoryStates' = IF InProcessing(o)
                       THEN [memoryStates EXCEPT ![o] = "none"]
                       ELSE memoryStates
    /\ UNCHANGED <<finished, unwritten, moveStatus, statusVars, done, acquired,
                   algorithmVars, completions, boundVars>>

-----------------------------------------------------------------------------
(* The scheduler coroutine: supply (1), pan move (3) and discard (4).      *)

AlgorithmStep == UNCHANGED <<orderVars, coroutineVars, completions, boundVars>>

\* The movement waited for moveStatus = 0; a supply may now have to wait for
\* the guard window after a sale before it goes on.
MovementSeesArmIdle ==
    /\ algorithm = "idle" /\ moveStatus = 0
    /\ onlineStatus \in {Operating, Working}
    /\ algorithm' = "free" /\ movement' \in Movement
    /\ UNCHANGED <<moveStatus, statusVars>>
    /\ AlgorithmStep

\* deferPostSellAutoSupplement: the window did not become idle in time.
SupplyDeferred ==
    /\ algorithm = "free" /\ movement = 1
    /\ algorithm' = "idle" /\ movement' = 0
    /\ UNCHANGED <<moveStatus, statusVars>>
    /\ AlgorithmStep

MovementTakesArm ==
    /\ algorithm = "free"
    /\ algorithm' = "acting"
    /\ moveStatus' = movement
    /\ UNCHANGED <<movement, statusVars>>
    /\ AlgorithmStep

\* Fault: a movement that fails keeps the arm.
MovementFailsBusy ==
    /\ algorithm = "acting"
    /\ algorithm' \in {"pausing", "faulty"}
    /\ moveStatus' = IF algorithm' = "faulty" THEN moveStatus ELSE 0
    /\ UNCHANGED <<movement, statusVars>>
    /\ AlgorithmStep

\* The arm is released first, a failure is reported afterwards.
MovementEnds ==
    /\ algorithm = "acting"
    /\ algorithm' \in {"pausing", "faulty"}
    /\ moveStatus' = 0
    /\ UNCHANGED <<movement, statusVars>>
    /\ AlgorithmStep

MovementReportsFault ==
    /\ algorithm = "faulty"
    /\ algorithm' = "pausing"
    /\ errorStatus' = 2
    /\ onlineStatus' = Maintenance
    /\ UNCHANGED <<movement, moveStatus>>
    /\ AlgorithmStep

MovementResumes ==
    /\ algorithm = "pausing" /\ onlineStatus # Working
    /\ algorithm' = "idle" /\ movement' = 0
    /\ UNCHANGED <<moveStatus, statusVars>>
    /\ AlgorithmStep

-----------------------------------------------------------------------------
\* The maintenance page puts the device back in operation.
HumanRecovers ==
    /\ onlineStatus = Maintenance
    /\ onlineStatus' = Operating
    /\ errorStatus' = 0
    /\ UNCHANGED <<orderVars, moveStatus, coroutineVars, algorithmVars,
                   completions, boundVars>>

\* refreshRemoteDeviceState or a runtime control: what the back office holds,
\* however old, is written over whatever the device does meanwhile.  (0 and 2
\* are out of service too, as Maintenance is.)
MergeRemoteConfig ==
    /\ onlineStatus' \in {Operating, Maintenance, Working}
    /\ errorStatus' \in {0, 2}
    /\ UNCHANGED <<orderVars, moveStatus, coroutineVars, algorithmVars,
                   completions, boundVars>>

\* The write that apply has queued.
WriteToDisk ==
    /\ unwritten # {}
    /\ unwritten' = {}
    /\ UNCHANGED <<memoryStates, finished, moveStatus, statusVars, coroutineVars,
                   algorithmVars, completions, boundVars>>

\* Fault: the finished orders are kept in memory only.
CrashForgetsAll ==
    /\ crashes < MaxCrashes
    /\ crashes' = crashes + 1
    /\ memoryStates' = [o \in Order |-> "none"]
    /\ finished' = {} /\ unwritten' = {}
    /\ stage' = [o \in Order |-> "none"]
    /\ done' = [o \in Order |-> 0]
    /\ acquired' = [o \in Order |-> FALSE]
    /\ algorithm' = "idle" /\ movement' = 0
    /\ moveStatus' = 0
    /\ UNCHANGED <<statusVars, completions, deliveries>>

\* Killed and started again: only the persisted state is left, and runServer
\* resets moveStatus.
Crash ==
    /\ crashes < MaxCrashes
    /\ crashes' = crashes + 1
    /\ memoryStates' = [o \in Order |-> "none"]
    /\ finished' = finished \ unwritten /\ unwritten' = {}
    /\ stage' = [o \in Order |-> "none"]
    /\ done' = [o \in Order |-> 0]
    /\ acquired' = [o \in Order |-> FALSE]
    /\ algorithm' = "idle" /\ movement' = 0
    /\ moveStatus' = 0
    /\ UNCHANGED <<statusVars, completions, deliveries>>

OrderCoroutine(o) ==
    \/ SeeArmIdle(o) \/ WaitTimesOut(o) \/ TakeArm(o)
    \/ StartSausage(o) \/ EnterTakeSausage(o)
    \/ SausageHandedOver(o) \/ SausageFails(o) \/ ReportBroken(o)
    \/ ReleaseArm(o) \/ WindUp(o) \/ EndCoroutine(o)

Algorithm ==
    \/ MovementSeesArmIdle \/ SupplyDeferred \/ MovementTakesArm
    \/ MovementEnds \/ MovementReportsFault \/ MovementResumes

IntakeNext ==
    \/ \E o \in Order : Receive(o) \/ OrderCoroutine(o)
    \/ Algorithm
    \/ HumanRecovers \/ MergeRemoteConfig \/ WriteToDisk \/ Crash

IntakeSpec == IntakeInit /\ [][IntakeNext]_intakeVars

\* A coroutine that can go on does, and a movement under way ends.  Waiting in
\* takeSausageResult is polling every two seconds: between two cycles of the
\* scheduler (ten seconds) a poll finds the arm idle.
FairIntakeSpec ==
    /\ IntakeSpec
    /\ \A o \in Order :
          /\ WF_intakeVars(stage[o] # "picking" /\ OrderCoroutine(o))
          /\ SF_intakeVars(EnterTakeSausage(o))
    /\ WF_intakeVars(MovementTakesArm \/ MovementEnds \/ MovementReportsFault)

-----------------------------------------------------------------------------
(* Properties that hold.                                                   *)

(* No message, however often and whenever it arrives, starts a second      *)
(* coroutine for an order while the first is still running.                *)
NoSecondCoroutine ==
    [][\A o \in Order : AcceptOrder(o) => stage[o] = "none"]_intakeVars

(* An order that is recorded as finished does not go for a sausage again   *)
(* as long as the record lasts.                                            *)
FinishedNeverRunsAgain ==
    \A o \in finished :
        stage[o] \in {"none", "closingServed", "ending"}

(* A repeated message alone never has an order served twice: for each time *)
(* more the app must have been killed.                                     *)
ServedOncePerStart ==
    \A o \in Order : completions[o] =< 1 + crashes

(* What the messages of an order, the orders beside it and the kills can   *)
(* do to it is what OrderService allows: among other things an order whose *)
(* final state is on the disk never runs again, and one that was handed    *)
(* over but is not yet there runs again only if the app was killed.        *)
ServiceStatus(o) ==
    IF stage[o] = "served" \/ o \in unwritten THEN "handed"
    ELSE IF o \in finished THEN "finished"
    ELSE IF stage[o] = "none" THEN "open"
    ELSE "running"

Service == INSTANCE OrderService
             WITH status <- [o \in Order |-> ServiceStatus(o)],
                  served <- completions, restarts <- crashes

RefinesOrderService == Service!ServiceSpec

(* A busy arm status belongs to somebody who will release it: none is left *)
(* behind, whoever overwrote whose.                                        *)
ArmStatusHasOwner ==
    /\ moveStatus = 2 =>
          \E o \in Order : stage[o] \in {"delivering", "picking", "acting",
                                         "broken", "unserved", "served"}
    /\ moveStatus \in Movement => algorithm = "acting" /\ movement = moveStatus

(* Every order that was accepted comes to its end, with the arm released.  *)
EveryOrderEnds == \A o \in Order : stage[o] # "none" ~> stage[o] = "none"

-----------------------------------------------------------------------------
(* A statement of a comment that does not hold.                            *)

(* "The same order number is never executed twice": but an order that     *)
(* failed is released, and its next message executes it from the first     *)
(* sausage, also one of which sausages were handed over.                   *)
NeverExecutedTwice ==
    [][\A o \in Order : AcceptOrder(o) => done[o] = 0]_intakeVars
=============================================================================
