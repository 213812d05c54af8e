----------------------------- MODULE SerialLink -----------------------------
(***************************************************************************)
(* How the controller finds its lower board: VMModbusHelper's connection,  *)
(* the recovery policy that asks for attempts, the half-minute patrol of   *)
(* ConnectManageHelper and the check before a delivery that ask for them   *)
(* too, and the serial port the board answers on, which may change when    *)
(* the USB adapter is enumerated again.                                    *)
(***************************************************************************)
EXTENDS ModbusRecovery

VARIABLES
    board,       \* silent, or answering: here (on the port the fast attempt
                 \* tries) or elsewhere (only a full rediscovery looks there)
    master,      \* modbusMaster # null, opened on the configured port
    inFlight,    \* strategy of the connect attempt in flight, or NoAttempt
    waiting,     \* whose callbacks are in pendingConnectCallbacks
    sample,      \* what the monitor's probe returned, until it is applied
    inspection   \* inspectionMode

connectionVars == <<master, inFlight, waiting>>
linkVars == <<recoveryVars, board, connectionVars, sample, inspection>>

Silent == "silent"
Here == "here"
Elsewhere == "elsewhere"
Requester == {"monitor", "patrol", "delivery"}

\* connectStatus: the open port is probed.
ConnectStatus == master /\ board = Here

LinkTypeOK ==
    /\ RecoveryTypeOK
    /\ board \in {Silent, Here, Elsewhere}
    /\ master \in BOOLEAN
    /\ inFlight \in Strategy
    /\ waiting \subseteq Requester
    /\ waiting # {} => inFlight # NoAttempt
    /\ sample \in {"none", "up", "down"}
    /\ inspection \in BOOLEAN

LinkInit ==
    /\ RecoveryInit
    /\ board \in {Silent, Here, Elsewhere}
    /\ master = FALSE
    /\ inFlight = NoAttempt
    /\ waiting = {}
    /\ sample = "none"
    /\ inspection = FALSE

-----------------------------------------------------------------------------
\* connectModbus: a live connection is confirmed at once; an attempt already
\* in flight is joined, whatever its strategy; otherwise one is started.
ConnectModbus(who, strategy) ==
    IF ConnectStatus
      THEN UNCHANGED connectionVars
      ELSE /\ waiting' = waiting \cup {who}
           /\ inFlight' = IF inFlight = NoAttempt THEN strategy ELSE inFlight
           /\ UNCHANGED master

\* connectModbusInternal gives up the old port before it tries any other.
DropOldMaster ==
    /\ inFlight # NoAttempt /\ master
    /\ master' = FALSE
    /\ UNCHANGED <<recoveryVars, board, inFlight, waiting, sample, inspection>>

\* Fault: the callbacks stay pending.
FinishWithoutCallbacks ==
    /\ inFlight # NoAttempt /\ ~master
    /\ LET found == board = Here \/ (board = Elsewhere /\ inFlight = Full)
       IN /\ master' = found
          /\ board' = IF found THEN Here ELSE board
    /\ inFlight' = NoAttempt
    /\ UNCHANGED <<recoveryVars, waiting, sample, inspection>>

\* Fault: a full rediscovery tries the old port only.
FinishOnOldPort ==
    /\ inFlight # NoAttempt /\ ~master
    /\ master' = (board = Here)
    /\ inFlight' = NoAttempt
    /\ waiting' = {}
    /\ UNCHANGED <<recoveryVars, board, sample, inspection>>

\* ... and ends: the port that answered is opened and written to the
\* configuration, everybody who waits is called back.
FinishAttempt ==
    /\ inFlight # NoAttempt /\ ~master
    /\ LET found == board = Here \/ (board = Elsewhere /\ inFlight = Full)
       IN /\ master' = found
          /\ board' = IF found THEN Here ELSE board
    /\ inFlight' = NoAttempt
    /\ waiting' = {}
    /\ UNCHANGED <<recoveryVars, sample, inspection>>

\* handleReadFailure: a read that fails for good closes the connection.
ReadFails ==
    /\ master /\ board # Here
    /\ master' = FALSE
    /\ UNCHANGED <<recoveryVars, board, inFlight, waiting, sample, inspection>>

-----------------------------------------------------------------------------
(* startModbusStateMonitor: the probe takes its time, then the round is    *)
(* decided on its result.                                                  *)

Probe ==
    /\ sample = "none"
    /\ sample' = IF ConnectStatus THEN "up" ELSE "down"
    /\ UNCHANGED <<recoveryVars, board, connectionVars, inspection>>

\* Inspection freezes the policy and its attempts.
RoundInInspection ==
    /\ sample # "none" /\ inspection
    /\ ResetToNormal
    /\ UNCHANGED connectionVars

RoundUp(d) ==
    /\ sample = "up" /\ ~inspection
    /\ OnConnected(d)
    /\ UNCHANGED connectionVars

\* An attempt the policy asks for is skipped while another is in flight.
RoundDown(d) ==
    /\ sample = "down" /\ ~inspection
    /\ OnDisconnected(d)
    /\ IF decision'.attempt # NoAttempt /\ inFlight = NoAttempt
         THEN ConnectModbus("monitor", decision'.attempt)
         ELSE UNCHANGED connectionVars

Round ==
    /\ \E d \in 1..MaxRound : RoundInInspection \/ RoundUp(d) \/ RoundDown(d)
    /\ sample' = "none"
    /\ UNCHANGED <<board, inspection>>

\* ConnectManageHelper.lunStatus, every thirty seconds.
Patrol ==
    /\ ConnectModbus("patrol", Full)
    /\ UNCHANGED <<recoveryVars, board, sample, inspection>>

\* ensureModbusReadyForDelivery, before a sausage of an order.
EnsureReadyForDelivery ==
    /\ ~ConnectStatus
    /\ ConnectModbus("delivery", Full)
    /\ UNCHANGED <<recoveryVars, board, sample, inspection>>

\* The maintenance page, which refuses without a connection.
ResetByHuman ==
    /\ ConnectStatus
    /\ ResetToNormal
    /\ UNCHANGED <<board, connectionVars, sample, inspection>>

ToggleInspection ==
    /\ inspection' = ~inspection
    /\ UNCHANGED <<recoveryVars, board, connectionVars, sample>>

BoardChanges ==
    /\ board' \in {Silent, Here, Elsewhere} \ {board}
    /\ UNCHANGED <<recoveryVars, connectionVars, sample, inspection>>

Attempt == DropOldMaster \/ FinishAttempt
Monitor == Probe \/ Round

LinkNext ==
    \/ Attempt \/ ReadFails \/ Monitor \/ Patrol \/ EnsureReadyForDelivery
    \/ ResetByHuman \/ ToggleInspection \/ BoardChanges

LinkSpec == LinkInit /\ [][LinkNext]_linkVars

\* The loops go round and an attempt ends; nothing is owed to the world.
FairLinkSpec ==
    /\ LinkSpec
    /\ WF_linkVars(Attempt)
    /\ WF_linkVars(Monitor)
    /\ WF_linkVars(Patrol)

-----------------------------------------------------------------------------
(* Once the board stays where it is and answers, on whatever port, and     *)
(* nobody switches the inspection any more, it is connected and stays      *)
(* connected: attempts that only look at the old port, or requests that    *)
(* join one that does, cannot keep it out for ever.                        *)
BoardFoundAgain ==
    <>[][~BoardChanges /\ ~ToggleInspection]_linkVars =>
        <>[](board = Silent \/ ConnectStatus)

(* Whoever asked for a connection is called back, although only the first  *)
(* of several requests starts an attempt.                                  *)
EveryCallbackRuns ==
    \A who \in Requester : who \in waiting ~> who \notin waiting
=============================================================================
