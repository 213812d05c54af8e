---------------------------- MODULE SellPlatform -----------------------------
(***************************************************************************)
(* The sell platform after the arm has put a sausage there                 *)
(* (KaoChangOperate.resolveSellPlatformOutcomeAfterMechanicalDelivery-     *)
(* Legacy and what it calls): pictures tell whether the sausage has        *)
(* arrived and whether the customer took it, then the window is closed,    *)
(* with or without discarding, by an action of the lower board, the pan is *)
(* cleared and the order learns the outcome.                               *)
(*                                                                         *)
(* The customer, the camera and the board act as they like: pictures fail  *)
(* or misread, the customer takes the sausage or does not, the app may be  *)
(* killed.  The fifteen seconds until the deadline are a choice.           *)
(***************************************************************************)
EXTENDS ActionExecution

CONSTANTS
    PresenceShots,  \* first pictures: 1 + SELL_PLATFORM_PRESENCE_RETRY_DELAYS_MS
    Tolerance,      \* SELL_PLATFORM_CAPTURE_FAILURE_TOLERANCE
    EmptyRounds     \* SELL_PLATFORM_EMPTY_MONITOR_CONFIRM_ROUNDS_BEFORE_...

ASSUME SellAssumption ==
    /\ PresenceShots \in Nat \ {0}
    /\ Tolerance \in Nat \ {0}
    /\ EmptyRounds \in Nat \ {0}

VARIABLES
    sale,         \* where resolveSellPlatformOutcome... is
    shots,        \* presenceResults.size
    someVision,   \* presenceResults holds a result that is not null
    detected,     \* detectedSausage
    failures,     \* consecutiveCaptureFailures
    empties,      \* pendingEmptyRoundsBeforeArrival
    outcome,      \* TakeSausageResult
    panFull,      \* isHasSausage of the pan it came from
    errorStatus,  \* 0 normal, 2 fault
    window,       \* of the machine
    sausage,      \* rolling: on the platform, not yet where it is recognised
    misread       \* history: a picture showed what was not there, or missed it

watchVars == <<sale, shots, someVision, detected, failures, empties>>
worldVars == <<window, sausage>>
sellVars == <<actionVars, watchVars, outcome, panFull, errorStatus,
              worldVars, misread>>

\* What captureSellPlatform returns: null, code 1, code 2.
Null == "null"
Empty == "empty"
Sausage == "sausage"

Unclosed == {"rolling", "there"}

SellTypeOK ==
    /\ ActionTypeOK
    /\ sale \in {"presence", "monitor", "noVision", "closing", "discarding",
                 "rescuing", "returned", "done", "crashed"}
    /\ shots \in 0..PresenceShots
    /\ failures \in 0..Tolerance /\ empties \in 0..EmptyRounds
    /\ someVision \in BOOLEAN /\ detected \in BOOLEAN
    /\ outcome \in {"none", "TAKEN_BY_USER", "DISCARDED",
                    "DELIVERY_NOT_CONFIRMED", "ERROR"}
    /\ panFull \in BOOLEAN /\ errorStatus \in {0, 2}
    /\ window \in {"open", "closed"}
    /\ sausage \in {"rolling", "there", "taken", "wasted", "lost"}
    /\ misread \in BOOLEAN

\* The linked delivery succeeded; the sausage may have fallen off the arm.
SellInit ==
    /\ ActionInit
    /\ sale = "presence" /\ shots = 0 /\ someVision = FALSE
    /\ detected = FALSE /\ failures = 0 /\ empties = 0
    /\ outcome = "none"
    /\ panFull = TRUE /\ errorStatus = 0
    /\ window = "open" /\ sausage \in {"rolling", "lost"}
    /\ misread = FALSE

-----------------------------------------------------------------------------
(* Pictures.                                                               *)

Picture(r) ==
    misread' = (misread \/ (r = Sausage /\ sausage # "there")
                        \/ (r = Empty /\ sausage = "there"))

Watched == UNCHANGED <<outcome, panFull, errorStatus, worldVars>>

\* SellPlatformConfirmPolicy.evaluateInitialConfirmation.
InitialConfirmation(sausageSeen, anyVision) ==
    IF sausageSeen THEN "monitor" ELSE IF anyVision THEN "monitor" ELSE "noVision"

\* captureSellPlatformPresenceSequence: until a sausage is seen, or no more.
PresenceShot(r) ==
    /\ sale = "presence"
    /\ Picture(r)
    /\ shots' = shots + 1
    /\ someVision' = (someVision \/ r # Null)
    /\ detected' = (r = Sausage)
    /\ sale' = IF r = Sausage \/ shots' = PresenceShots
               THEN InitialConfirmation(detected', someVision') ELSE sale
    /\ UNCHANGED <<failures, empties, actionVars>>
    /\ Watched

\* Fault: a picture that failed counts as an empty window.
MonitorFailureIsEmpty ==
    /\ sale = "monitor"
    /\ Picture(Null)
    /\ sale' = "closing" /\ ExecuteAction(Close)
    /\ UNCHANGED <<shots, someVision, detected, failures, empties>>
    /\ Watched

\* A picture fails: too often in a row, and the window is closed as an error.
MonitorFailure ==
    /\ sale = "monitor"
    /\ Picture(Null)
    /\ failures' = failures + 1
    /\ \/ /\ failures' >= Tolerance
          /\ sale' = "rescuing" /\ ExecuteAction(Close)
       \/ /\ failures' < Tolerance
          /\ UNCHANGED <<sale, actionVars>>
    /\ UNCHANGED <<shots, someVision, detected, empties>>
    /\ Watched

\* The sausage is (still) there.
MonitorSausage ==
    /\ sale = "monitor"
    /\ Picture(Sausage)
    /\ failures' = 0 /\ detected' = TRUE /\ empties' = 0
    /\ UNCHANGED <<sale, shots, someVision, actionVars>>
    /\ Watched

\* Nothing there: it was taken, or it has to arrive yet for a few rounds.
MonitorEmpty ==
    /\ sale = "monitor"
    /\ Picture(Empty)
    /\ empties' = IF detected THEN empties ELSE empties + 1
    /\ \/ /\ detected \/ empties' >= EmptyRounds
          /\ sale' = "closing" /\ ExecuteAction(Close)
       \/ /\ ~detected /\ empties' < EmptyRounds
          /\ UNCHANGED <<sale, actionVars>>
    /\ UNCHANGED <<shots, someVision, detected, failures>>
    /\ Watched

\* Fifteen seconds are over: discardSellPlatformAfterTimeout.
MonitorDeadline ==
    /\ sale = "monitor"
    /\ sale' = "discarding" /\ ExecuteAction(Discard)
    /\ UNCHANGED <<shots, someVision, detected, failures, empties, misread>>
    /\ Watched

\* waitForUserTakeWhenVisionUnavailable.
NoVisionShot(r) ==
    /\ sale = "noVision"
    /\ Picture(r)
    /\ \/ r = Null /\ UNCHANGED <<sale, detected, actionVars>>
       \/ r = Sausage /\ sale' = "monitor" /\ detected' = TRUE /\ UNCHANGED actionVars
       \/ r = Empty /\ sale' = "closing" /\ ExecuteAction(Close) /\ UNCHANGED detected
    /\ UNCHANGED <<shots, someVision, failures, empties>>
    /\ Watched

\* Fault: no deadline without vision.
NoVisionWaits ==
    /\ sale = "noVision"
    /\ UNCHANGED sellVars

NoVisionDeadline ==
    /\ sale = "noVision"
    /\ sale' = "closing" /\ ExecuteAction(Close)
    /\ UNCHANGED <<shots, someVision, detected, failures, empties, misread>>
    /\ Watched

Shot ==
    \/ \E r \in {Null, Empty, Sausage} : PresenceShot(r) \/ NoVisionShot(r)
    \/ MonitorFailure \/ MonitorSausage \/ MonitorEmpty

Deadline == MonitorDeadline \/ NoVisionDeadline

-----------------------------------------------------------------------------
(* The end.                                                                *)

InCall == sale \in {"closing", "discarding", "rescuing"}

Acting(step) ==
    /\ step
    /\ UNCHANGED <<watchVars, outcome, panFull, errorStatus, misread>>

Call == InCall /\ Acting(CallStep) /\ UNCHANGED worldVars
CallTimeout == InCall /\ Acting(RunningTimeout) /\ UNCHANGED worldVars

\* closeSellPlatformAfterUserTake.
OutcomeOfClose(ok) ==
    IF ~ok THEN "ERROR"
    ELSE IF detected THEN "TAKEN_BY_USER" ELSE "DELIVERY_NOT_CONFIRMED"

\* The action is over; an action that failed, and a camera that did, is a
\* fault.  finalizePanAfterMechanicalSell clears the pan in any case.
SaleReturns ==
    /\ InCall /\ call = "none"
    /\ LET ok == result = "SUCCESS"
       IN outcome' = CASE sale = "closing" -> OutcomeOfClose(ok)
                       [] sale = "discarding" -> IF ok THEN "DISCARDED" ELSE "ERROR"
                       [] sale = "rescuing" -> "ERROR"
    /\ errorStatus' = IF outcome' = "ERROR" THEN 2 ELSE errorStatus
    /\ panFull' = FALSE
    /\ sale' = "returned"
    /\ UNCHANGED <<shots, someVision, detected, failures, empties, actionVars,
                   worldVars, misread>>

\* Fault: the order goes on after a delivery that was not confirmed.
OrderIgnoresOutcome ==
    /\ sale = "returned"
    /\ sale' = "done"
    /\ UNCHANGED <<shots, someVision, detected, failures, empties, actionVars,
                   outcome, panFull, worldVars, misread, errorStatus>>

\* handleOrderItemDelivery: taken and discarded are done, the rest is a fault.
OrderTakesOutcome ==
    /\ sale = "returned"
    /\ sale' = "done"
    /\ errorStatus' = IF outcome \in {"DELIVERY_NOT_CONFIRMED", "ERROR"}
                      THEN 2 ELSE errorStatus
    /\ UNCHANGED <<shots, someVision, detected, failures, empties, actionVars,
                   outcome, panFull, worldVars, misread>>

-----------------------------------------------------------------------------
(* The world.                                                              *)

World == UNCHANGED <<actionVars, watchVars, outcome, panFull, errorStatus, misread>>

SausageArrives ==
    /\ sausage = "rolling"
    /\ sausage' = "there"
    /\ UNCHANGED window
    /\ World

UserTakes ==
    /\ window = "open" /\ sausage \in Unclosed
    /\ sausage' = "taken"
    /\ UNCHANGED window
    /\ World

\* The board closes the window, and sweeps it first if told to.
WindowMoves ==
    /\ Acting(BoardEnds)
    /\ window' = "closed"
    /\ sausage' = IF running = Discard /\ sausage \in Unclosed
                  THEN "wasted" ELSE sausage

Board ==
    \/ WindowMoves
    \/ Acting(BoardBegins) /\ UNCHANGED worldVars
    \/ Acting(BoardRests) /\ UNCHANGED worldVars

\* The app is killed: the pan is what was persisted, nobody watches.
Crash ==
    /\ sale \notin {"done", "crashed"}
    /\ sale' = "crashed" /\ call' = "none"
    /\ UNCHANGED <<shots, someVision, detected, failures, empties, command,
                   busyRetry, result, boardVars, executed, late, outcome,
                   panFull, errorStatus, worldVars, misread>>

SellNext ==
    \/ Shot \/ Deadline \/ Call \/ CallTimeout
    \/ SaleReturns \/ OrderTakesOutcome
    \/ SausageArrives \/ UserTakes \/ Board
    \/ Crash

SellSpec == SellInit /\ [][SellNext]_sellVars

\* The host goes on, and its clock passes every deadline; nothing is owed to
\* the camera, the board or the customer: a picture is a picture of anything,
\* and may fail for ever.
FairSellSpec ==
    /\ SellSpec
    /\ WF_sellVars(\E r \in {Null, Empty, Sausage} : PresenceShot(r))
    /\ WF_sellVars(Deadline)
    /\ WF_sellVars(Call) /\ WF_sellVars(CallTimeout)
    /\ WF_sellVars(SaleReturns) /\ WF_sellVars(OrderTakesOutcome)

-----------------------------------------------------------------------------
(* Properties.                                                             *)

(* Any outcome but an error closed the window, however busy the board was  *)
(* and however often the command had to be issued, unless the board was    *)
(* slower to begin than the host to poll.                                  *)
OutcomeClosesWindow ==
    outcome \in {"TAKEN_BY_USER", "DISCARDED", "DELIVERY_NOT_CONFIRMED"} /\ ~late
        => window = "closed"

(* A sale counts as taken only if the customer has the sausage: neither    *)
(* failing pictures nor a window empty from the start count as a sale.     *)
TakenMeansTaken ==
    outcome = "TAKEN_BY_USER" /\ ~misread => sausage = "taken"

(* Wherever the watch ended, a sausage that still lies on the platform     *)
(* takes the device out of service.                                        *)
LeftSausageIsFault ==
    sale = "done" /\ sausage \in Unclosed /\ ~misread /\ ~late => errorStatus = 2

(* BUSY means not accepted: repeating the command never makes the board    *)
(* carry it out twice.                                                     *)
CarriedOutOnce == executed =< 1

(* Every sale comes to an outcome, with the camera or the board silent too.*)
EverySaleEnds == <>(sale \in {"done", "crashed"})
=============================================================================
