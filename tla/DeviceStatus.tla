---------------------------- MODULE DeviceStatus ----------------------------
(***************************************************************************)
(* The business status of the machine (AppConfigBean.onlineStatus and      *)
(* errorStatus, one shared object) and everybody who writes it: the link   *)
(* monitor and the ten-second poll of KaoChangAlgorithm, the order         *)
(* coroutine of OrderActivity, the mechanical actions of KaoChangOperate,  *)
(* the maintenance page, and a restart of the app.  None of them takes a   *)
(* lock: every read of a shared field that somebody else's write may       *)
(* follow, and every write, is a step of its own.                          *)
(*                                                                         *)
(* The recovery policy is its promise, CommunicationState.  Writes by the  *)
(* back office (mergeRemoteConfig, applyRemoteRuntimeControl) are left     *)
(* out: config.status is 1 throughout.  So are isEnable and                *)
(* restStatusSource: whether a rest may end by itself is a choice.         *)
(***************************************************************************)
EXTENDS CommunicationState, Naturals, FiniteSets

CONSTANT
    MaxBusy  \* a thread begins only while fewer are in the middle of something

ASSUME DeviceAssumption == MaxBusy \in Nat

VARIABLES
    connected,        \* VMModbusHelper.connectStatus() would return true
    open,             \* isWithinBusinessHours(now)
    onlineStatus,     \* 0..4
    errorStatus,      \* 0 normal, 2 fault
    inspection,       \* inspectionMode
    lastRecoverableOnlineStatus,
    order,      \* an order coroutine is alive
    doing,      \* what each thread does next
    target,     \* the status it has decided to write
    wasDisabled, \* history: disabled when this run of the app last saw it
                 \* out of maintenance
    worked,      \* history: at work at some time since the last reset of the
                 \* recovery policy
    overtaken,   \* history: the threads about to put the device in service
                 \* when another took it out of service
    late         \* history: the status in force was written by one of these,
                 \* or was restored with a fault or an order it ignores

configVars == <<onlineStatus, errorStatus>>
orderVars == <<order>>
threadVars == <<doing, target>>
worldVars == <<connected, open, inspection>>
historyVars == <<wasDisabled, worked, late>>
deviceVars == <<commVars, configVars, lastRecoverableOnlineStatus, orderVars,
                threadVars, worldVars, historyVars, overtaken>>

Disabled == 0
Operating == 1
Resting == 2
Maintenance == 3
Working == 4

\* The monitor and the poll are coroutines of algorithmScope; handlers, the page
\* and the end of an order share the main thread; a mechanical action runs in
\* the coroutine of the scheduler, of an order or of the page, so that it may
\* fail beside any of the others.
Thread == {"monitor", "poll", "main", "action"}

\* What a thread may be about to do: a step is named for the read or the write
\* it makes next.
Steps(t) ==
    CASE t = "monitor" -> {"idle", "leave", "remember", "fault", "clear", "write"}
      [] t = "poll" -> {"idle", "closing", "opening", "resting", "starting", "switch"}
      [] t = "main" -> {"idle", "fault", "clear", "write", "reset", "windUp", "end"}
      [] t = "action" -> {"idle", "fault", "write"}

DeviceTypeOK ==
    /\ CommunicationTypeOK
    /\ connected \in BOOLEAN /\ open \in BOOLEAN /\ inspection \in BOOLEAN
    /\ onlineStatus \in 0..4
    /\ errorStatus \in {0, 2}
    /\ lastRecoverableOnlineStatus \in 0..2
    /\ order \in BOOLEAN
    /\ doing = [t \in Thread |-> doing[t]] /\ target \in [Thread -> 0..3]
    /\ \A t \in Thread : doing[t] \in Steps(t)
    /\ wasDisabled \in BOOLEAN /\ worked \in BOOLEAN /\ late \in BOOLEAN
    /\ overtaken \subseteq Thread

-----------------------------------------------------------------------------
Idle(t) == doing[t] = "idle"
Busy == {t \in Thread : ~Idle(t)}
MayBegin == Cardinality(Busy) < MaxBusy

\* Thread t is about to put the device in service, on what it has read.
Deciding(t) ==
    \/ doing[t] \in {"resting", "starting", "windUp"}
    \/ doing[t] \in {"clear", "write", "switch", "end"} /\ target[t] # Maintenance
Deciders == {t \in Thread : Deciding(t)}

Goto(t, step, online) ==
    /\ doing' = [doing EXCEPT ![t] = step]
    /\ target' = [target EXCEPT ![t] = online]

Continue(t, step, online) == Goto(t, step, online) /\ UNCHANGED overtaken

Finish(t) == Goto(t, "idle", 0) /\ overtaken' = overtaken \ {t}

\* Thread t writes onlineStatus.  Whoever takes the device out of service
\* overtakes the others; a fresh decision ("write") is late only if overtaken
\* itself, one that builds on the status in force also if that was.
Save(t, online) ==
    /\ onlineStatus' = online
    /\ wasDisabled' = (online = Disabled \/ (wasDisabled /\ online = Maintenance))
    /\ worked' = (worked \/ online = Working)
    /\ late' = /\ online \in 0..2
               /\ t \in overtaken \/ (late /\ doing[t] # "write")
    /\ overtaken' = (IF online \in {Disabled, Maintenance}
                       THEN overtaken \cup Deciders ELSE overtaken) \ {t}

KeepConfig == UNCHANGED <<configVars, historyVars>>

\* rememberRecoverableOnlineStatus: what lastRecoverableOnlineStatus becomes.
Remembered(online) ==
    IF online \in 0..2 THEN online ELSE lastRecoverableOnlineStatus

\* Fault: only a rest is remembered.
RecoveredFromRest(last) ==
    IF last = Resting THEN last ELSE IF open THEN Operating ELSE Resting

\* resolveRecoveredOnlineStatus, with last the remembered status.
RecoveredOnlineStatus(last) ==
    IF last \in {Disabled, Resting} THEN last
    ELSE IF open THEN Operating ELSE Resting

DeviceInit ==
    /\ CommunicationInit
    /\ connected = FALSE /\ open \in BOOLEAN /\ inspection = FALSE
    /\ onlineStatus \in {Disabled, Operating, Resting}
    /\ errorStatus = 0
    /\ lastRecoverableOnlineStatus = onlineStatus
    /\ order = FALSE
    /\ doing = [t \in Thread |-> "idle"] /\ target = [t \in Thread |-> 0]
    /\ wasDisabled = (onlineStatus = Disabled)
    /\ worked = FALSE /\ late = FALSE
    /\ overtaken = {}

-----------------------------------------------------------------------------
(* The writes, whoever they belong to.  A fault is markDeviceErrorAndUpload *)
(* or the same two lines elsewhere; a recovery clears the fault first.     *)

RaiseFault(t) ==
    /\ doing[t] = "fault"
    /\ errorStatus' = 2
    /\ Goto(t, "write", target[t])
    /\ overtaken' = overtaken \cup Deciders
    /\ UNCHANGED <<commVars, onlineStatus, lastRecoverableOnlineStatus, orderVars,
                   worldVars, historyVars>>

ClearFault(t) ==
    /\ doing[t] = "clear"
    /\ errorStatus' = 0
    /\ Continue(t, "write", target[t])
    /\ UNCHANGED <<commVars, onlineStatus, lastRecoverableOnlineStatus, orderVars,
                   worldVars, historyVars>>

\* A recovery by the page is followed by the reset of the policy.
WriteOnlineStatus(t) ==
    /\ doing[t] \in {"write", "switch"}
    /\ Save(t, target[t])
    /\ Goto(t, IF t = "main" /\ target[t] # Maintenance THEN "reset" ELSE "idle", 0)
    /\ UNCHANGED <<commVars, errorStatus, lastRecoverableOnlineStatus, orderVars,
                   worldVars>>

\* A mechanical action fails, or clearing the pans after the closing does.
ActionFails ==
    /\ Idle("action") /\ MayBegin
    /\ Continue("action", "fault", Maintenance)
    /\ KeepConfig
    /\ UNCHANGED <<commVars, lastRecoverableOnlineStatus, orderVars, worldVars>>

-----------------------------------------------------------------------------
(* One round of startModbusStateMonitor.                                   *)

RoundInInspection ==
    /\ inspection
    /\ ResetToNormal
    /\ worked' = (onlineStatus = Working)
    /\ UNCHANGED <<threadVars, overtaken, configVars, wasDisabled, late,
                   lastRecoverableOnlineStatus>>

RoundAnswered ==
    /\ ~inspection /\ connected
    /\ HearAnswer
    /\ lastRecoverableOnlineStatus' = Remembered(onlineStatus)
    /\ KeepConfig
    /\ UNCHANGED <<threadVars, overtaken>>

\* The policy trusts the link again: the fault will be cleared, whatever it
\* was, and what is restored depends on the status read here.
RoundRecovers ==
    /\ ~inspection /\ connected
    /\ AutoRecover /\ MayBegin
    /\ LET restored == RecoveredOnlineStatus(Remembered(onlineStatus))
       IN /\ Continue("monitor", "clear", restored)
          /\ lastRecoverableOnlineStatus' = restored
    /\ KeepConfig

RoundSilent ==
    /\ ~inspection /\ ~connected
    /\ HearSilence
    /\ KeepConfig
    /\ UNCHANGED <<threadVars, overtaken, lastRecoverableOnlineStatus>>

\* The policy gives up.
RoundGivesUp ==
    /\ ~inspection /\ ~connected
    /\ GiveUp /\ MayBegin
    /\ Continue("monitor", "leave", 0)
    /\ KeepConfig
    /\ UNCHANGED lastRecoverableOnlineStatus

MonitorRound ==
    /\ Idle("monitor")
    /\ \/ RoundInInspection \/ RoundAnswered \/ RoundRecovers
       \/ RoundSilent \/ RoundGivesUp
    /\ UNCHANGED <<orderVars, worldVars>>

\* Fault: only a device in operation is taken out of service.
LeaveOperation ==
    /\ doing["monitor"] = "leave"
    /\ IF onlineStatus = Operating
         THEN Continue("monitor", "remember", 0)
         ELSE Finish("monitor")
    /\ KeepConfig
    /\ UNCHANGED <<commVars, lastRecoverableOnlineStatus, orderVars, worldVars>>

\* A device at work keeps its status when the link is given up.
LeaveService ==
    /\ doing["monitor"] = "leave"
    /\ IF onlineStatus \in 0..2
         THEN Continue("monitor", "remember", 0)
         ELSE Finish("monitor")
    /\ KeepConfig
    /\ UNCHANGED <<commVars, lastRecoverableOnlineStatus, orderVars, worldVars>>

RememberAndFail ==
    /\ doing["monitor"] = "remember"
    /\ lastRecoverableOnlineStatus' = Remembered(onlineStatus)
    /\ Continue("monitor", "fault", Maintenance)
    /\ KeepConfig
    /\ UNCHANGED <<commVars, orderVars, worldVars>>

-----------------------------------------------------------------------------
(* The business hours, as pollKaoPanStatus applies them.                   *)

PollStep ==
    /\ KeepConfig
    /\ UNCHANGED <<commVars, lastRecoverableOnlineStatus, orderVars, worldVars>>

\* Fault: the poll skips a device under inspection.
EndBusinessHoursOutsideInspection ==
    /\ Idle("poll") /\ MayBegin /\ ~open /\ onlineStatus = Operating /\ ~inspection
    /\ Continue("poll", "closing", 0)
    /\ PollStep

EndBusinessHours ==
    /\ Idle("poll") /\ MayBegin /\ ~open /\ onlineStatus = Operating
    /\ Continue("poll", "closing", 0)
    /\ PollStep

\* The source of the rest decides whether it ends by itself.
StartBusinessHours ==
    /\ Idle("poll") /\ MayBegin /\ open /\ onlineStatus = Resting
    /\ Continue("poll", "opening", 0)
    /\ PollStep

\* endBusinessHours, startBusinessHours: a device with a fault neither rests
\* nor opens.  What was read before does not matter otherwise.
LookForFault ==
    /\ doing["poll"] \in {"closing", "opening"}
    /\ IF errorStatus # 0
         THEN Continue("poll", "switch", Maintenance)
         ELSE Continue("poll", IF doing["poll"] = "closing" THEN "resting"
                               ELSE "starting", 0)
    /\ PollStep

\* The status is read again: only a device in operation is put to rest, only a
\* resting one opens.
SwitchHours ==
    \/ /\ doing["poll"] = "resting" /\ onlineStatus = Operating
       /\ Continue("poll", "switch", Resting)
       /\ PollStep
    \/ /\ doing["poll"] = "starting" /\ onlineStatus = Resting
       /\ Continue("poll", "switch", Operating)
       /\ PollStep
    \/ /\ \/ doing["poll"] = "resting" /\ onlineStatus # Operating
          \/ doing["poll"] = "starting" /\ onlineStatus # Resting
       /\ Finish("poll")
       /\ PollStep

-----------------------------------------------------------------------------
(* The maintenance page: btnErroStatus, refused without a connection.      *)

ClickRecover ==
    /\ Idle("main") /\ MayBegin /\ connected
    /\ Continue("main", "clear", IF open THEN Operating ELSE Resting)
    /\ KeepConfig
    /\ UNCHANGED <<commVars, lastRecoverableOnlineStatus, orderVars, worldVars>>

\* resetModbusRecoveryState.
ResetRecoveryState ==
    /\ doing["main"] = "reset"
    /\ ResetToNormal
    /\ worked' = (onlineStatus = Working)
    /\ Finish("main")
    /\ UNCHANGED <<configVars, lastRecoverableOnlineStatus, orderVars, worldVars,
                   wasDisabled, late>>

\* swInspectionMode.
ToggleInspection ==
    /\ Idle("main")
    /\ inspection' = ~inspection
    /\ UNCHANGED <<commVars, configVars, lastRecoverableOnlineStatus, orderVars,
                   threadVars, overtaken, connected, open, historyVars>>

-----------------------------------------------------------------------------
(* Orders: mqttMessage, purchaseOrder and handleOrderItemDelivery.  The    *)
(* arm and the order numbers are the subject of OrderIntake.               *)

OrderStep == UNCHANGED <<commVars, errorStatus, lastRecoverableOnlineStatus, worldVars>>

\* The handler finds the device not at work, and writes that it is: one step,
\* because nobody else writes Working in between.
AcceptOrder ==
    /\ Idle("main") /\ ~order /\ onlineStatus # Working
    /\ order' = TRUE
    /\ Save("main", Working)
    /\ UNCHANGED threadVars
    /\ OrderStep

\* The link or an action failed: the item throws, the main thread reports it.
FailItem ==
    /\ order /\ Idle("main") /\ MayBegin
    /\ Continue("main", "fault", Maintenance)
    /\ UNCHANGED <<order, onlineStatus, historyVars>>
    /\ OrderStep

\* The coroutine ends on the main thread, also without a fault when it gave
\* the order up.  Only a device still at work is wound up.
EndOrder ==
    /\ order /\ Idle("main") /\ MayBegin
    /\ IF onlineStatus = Working
         THEN Continue("main", "windUp", 0) /\ UNCHANGED order
         ELSE UNCHANGED <<threadVars, overtaken>> /\ order' = FALSE
    /\ UNCHANGED <<onlineStatus, historyVars>>
    /\ OrderStep

\* Fault: a completed order returns to operation whatever was reported meanwhile.
WindUpBlindly ==
    /\ doing["main"] = "windUp"
    /\ \E orderCompleted \in BOOLEAN :
         Continue("main", "end", IF orderCompleted THEN Operating ELSE Maintenance)
    /\ UNCHANGED <<order, onlineStatus, historyVars>>
    /\ OrderStep

\* Fault: no branch for a completed order on a device with a fault.
WindUpWithoutElse ==
    /\ doing["main"] = "windUp"
    /\ \E orderCompleted \in BOOLEAN :
         IF orderCompleted /\ errorStatus # 0
           THEN Finish("main") /\ order' = FALSE
           ELSE /\ Continue("main", "end",
                            IF orderCompleted THEN Operating ELSE Maintenance)
                /\ UNCHANGED order
    /\ UNCHANGED <<onlineStatus, historyVars>>
    /\ OrderStep

\* The order coroutine knows whether the order was completed.
WindUp ==
    /\ doing["main"] = "windUp"
    /\ \E orderCompleted \in BOOLEAN :
         Continue("main", "end",
                  IF orderCompleted /\ errorStatus = 0 THEN Operating ELSE Maintenance)
    /\ UNCHANGED <<order, onlineStatus, historyVars>>
    /\ OrderStep

WriteEnd ==
    /\ doing["main"] = "end"
    /\ Save("main", target["main"])
    /\ Goto("main", "idle", 0)
    /\ order' = FALSE
    /\ OrderStep

-----------------------------------------------------------------------------
\* The app is killed and started again: a configuration is read back, the
\* opening is caught up with, and runServer judges what it finds.  Saving is
\* asynchronous (apply), and every pair of the two fields occurs, if only
\* between two writes: any of them may be the last to have reached the disk.
\* What the threads were doing is forgotten with them, so that a kill in the
\* middle of something leads where this one does.
Restart ==
    /\ Busy = {}
    /\ errorStatus' \in {0, 2}
    /\ \E online \in 0..4 :
         \/ onlineStatus' = online
         \/ /\ open /\ online = Resting
            /\ onlineStatus' = IF errorStatus' # 0 THEN Maintenance ELSE Operating
    /\ wasDisabled' = (onlineStatus' = Disabled)
    /\ worked' = (onlineStatus' = Working)
    /\ late' = (onlineStatus' = Working \/ (errorStatus' = 2 /\ onlineStatus' \in 0..2))
    /\ lastRecoverableOnlineStatus' =
         IF onlineStatus' \in 0..2 THEN onlineStatus' ELSE Operating
    /\ IF onlineStatus' = Maintenance /\ errorStatus' = 2
         THEN MarkDisconnectedAtStartup
         ELSE ResetToNormal
    /\ connected' = FALSE
    /\ order' = FALSE
    /\ doing' = [t \in Thread |-> "idle"] /\ target' = [t \in Thread |-> 0]
    /\ overtaken' = {}
    /\ UNCHANGED <<open, inspection>>

\* The board answers or falls silent, the port is opened or lost.
LinkChanges ==
    /\ connected' = ~connected
    /\ UNCHANGED <<commVars, configVars, lastRecoverableOnlineStatus, orderVars,
                   threadVars, overtaken, open, inspection, historyVars>>

HoursChange ==
    /\ open' = ~open
    /\ UNCHANGED <<commVars, configVars, lastRecoverableOnlineStatus, orderVars,
                   threadVars, overtaken, connected, inspection, historyVars>>

Write(t) == RaiseFault(t) \/ ClearFault(t) \/ WriteOnlineStatus(t)
Leave == LeaveService \/ RememberAndFail
Poll == EndBusinessHours \/ StartBusinessHours
Hours == LookForFault \/ SwitchHours
Human == ClickRecover \/ ResetRecoveryState \/ ToggleInspection
OrderCoroutine ==
    \/ AcceptOrder \/ FailItem
    \/ EndOrder \/ WindUp \/ WriteEnd
World == LinkChanges \/ HoursChange \/ Restart

DeviceNext ==
    \/ \E t \in Thread : Write(t)
    \/ ActionFails \/ MonitorRound \/ Leave \/ Poll \/ Hours \/ Human \/ OrderCoroutine \/ World

DeviceSpec == DeviceInit /\ [][DeviceNext]_deviceVars

\* The loops go round, the policy gives a silent link up, a thread that has
\* begun something goes on with it, and the app runs on at last.  The fairness
\* is strong where the bound on busy threads may get in the way again and again.
FairDeviceSpec ==
    /\ DeviceSpec
    /\ WF_deviceVars(MonitorRound)
    /\ SF_deviceVars(MonitorRound /\ GiveUp)
    /\ SF_deviceVars(Poll)
    /\ WF_deviceVars(Write("monitor") \/ Leave)
    /\ WF_deviceVars(Write("poll") \/ Hours)
    /\ WF_deviceVars(Write("main") \/ ResetRecoveryState \/ WindUp \/ WriteEnd)
    /\ WF_deviceVars(Write("action"))
    /\ <>[][~Restart]_deviceVars

-----------------------------------------------------------------------------
(* Properties that hold.                                                   *)

\* A recovery of the page is written but the policy not reset yet.
Clicking == doing["main"] = "reset"

(* A device that waits for a human is in maintenance once the monitor has  *)
(* written so, whatever the hours, the faults, the restarts and the writes *)
(* beside it: the page is the only way out.  Two exceptions are needed.    *)
(* Giving the link up leaves a device at work alone, and an order that     *)
(* outlives the outage ends in operation.  And a thread that had decided   *)
(* to put the device in service before it was taken out of it still does   *)
(* (late): a closing, an opening or an end of an order caught between its  *)
(* check and its write.                                                    *)
MaintenanceWhileWaiting ==
    /\ state = WaitManual /\ Idle("monitor") /\ ~Clicking
    /\ ~worked /\ ~late
    => onlineStatus = Maintenance

(* Once a fault is reported, by both of its writes, the device is in       *)
(* maintenance or at work on an order, whatever the other writers decide   *)
(* from then on.  What escapes is late: a write decided before the fault   *)
(* and carried out after it, or a kill between the two writes.             *)
FaultNotInService ==
    errorStatus = 2 /\ ~late =>
        \/ onlineStatus \in {Maintenance, Working}
        \/ \E t \in Thread : doing[t] = "write" /\ target[t] = Maintenance

(* A device at work has an order whose coroutine will wind the status up,  *)
(* whoever else wrote the status meanwhile, unless the app was killed at   *)
(* work: a restored status 4 has nobody to end it (late).                  *)
WorkHasOrder == onlineStatus = Working /\ ~late => order

(* The automatic recovery never puts a device in operation that was        *)
(* disabled before its maintenance, as long as the app keeps running: only *)
(* the page, an order the back office lets through, or a write decided     *)
(* before the device was disabled (late) does.                             *)
DisabledStaysDisabled ==
    [][wasDisabled /\ ~wasDisabled' =>
          WriteOnlineStatus("main") \/ AcceptOrder \/ Restart \/ late']_deviceVars

(* A board that stays silent takes a device without orders out of service, *)
(* unless an overtaken write keeps bringing it back.                       *)
SilentBoardLeavesService ==
    <>[](~connected /\ ~inspection /\ ~worked /\ ~late) =>
        <>[](onlineStatus = Maintenance)

(* After hours a device without orders does not stay in operation, under   *)
(* inspection or not, and no recovery brings it back.                      *)
ClosedDeviceStopsSelling ==
    <>[](~open /\ ~order) => <>[](onlineStatus # Operating)
=============================================================================
