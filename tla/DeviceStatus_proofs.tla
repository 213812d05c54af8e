------------------------- MODULE DeviceStatus_proofs -------------------------
(***************************************************************************)
(* Proofs about DeviceStatus, for any bound on the busy threads and any    *)
(* number of restarts.  Every read and every write of the two fields is a  *)
(* step of its own, so an invariant must say what a thread in the middle   *)
(* of something may still rely on.                                         *)
(***************************************************************************)
EXTENDS DeviceStatus, TLAPS

(* A device that was disabled is still disabled or in maintenance, and is  *)
(* remembered as disabled, so that a recovery restores just that.          *)
DisabledInv ==
    /\ onlineStatus = Disabled => wasDisabled
    /\ wasDisabled =>
          /\ onlineStatus \in {Disabled, Maintenance}
          /\ lastRecoverableOnlineStatus = Disabled
    /\ doing["monitor"] \in {"clear", "write"} /\ target["monitor"] # Maintenance
          => target["monitor"] = lastRecoverableOnlineStatus

(* Who is about to report a fault will write that it is maintenance.       *)
FaultTarget ==
    \A t \in Thread : doing[t] = "fault" => target[t] = Maintenance

(* Only the monitor restores the status of a disabled device.              *)
OnlyMonitorDisables ==
    \A t \in Thread \ {"monitor"} :
        doing[t] \in {"clear", "write", "switch", "end"} => target[t] # Disabled

(* Thread t has looked at the errorStatus its decision rests on.           *)
SawNoFault(t) ==
    \/ doing[t] \in {"resting", "starting"}
    \/ doing[t] \in {"write", "switch", "end"} /\ target[t] # Maintenance

(* Thread t has looked at the onlineStatus its decision rests on.          *)
SawService(t) ==
    \/ doing[t] = "windUp"
    \/ doing[t] \in {"switch", "end"} /\ target[t] # Maintenance

InService == onlineStatus \in {Operating, Resting, Working} /\ ~wasDisabled

(* What a thread has seen is still so, unless it was overtaken.            *)
DecisionInv ==
    \A t \in Thread : t \notin overtaken =>
        /\ SawNoFault(t) => errorStatus = 0
        /\ SawService(t) => InService

(* The part of the type invariant that is better left to Zenon.            *)
BooleansOK ==
    /\ down \in BOOLEAN /\ connected \in BOOLEAN /\ open \in BOOLEAN
    /\ inspection \in BOOLEAN /\ order \in BOOLEAN
    /\ wasDisabled \in BOOLEAN /\ worked \in BOOLEAN /\ late \in BOOLEAN

(* The part of it about the threads.                                       *)
ThreadsOK ==
    /\ doing = [t \in Thread |-> doing[t]] /\ target \in [Thread -> 0..3]
    /\ \A t \in Thread : doing[t] \in Steps(t)

DeviceInv ==
    /\ DeviceTypeOK
    /\ DisabledInv
    /\ FaultTarget
    /\ OnlyMonitorDisables
    /\ DecisionInv
    /\ FaultNotInService
    /\ WorkHasOrder

-----------------------------------------------------------------------------
LEMMA InitDeviceInv == DeviceInit => DeviceInv
<1> SUFFICES ASSUME DeviceInit PROVE DeviceInv
  OBVIOUS
<1> USE DEF DeviceInit, CommunicationInit, Disabled, Operating, Resting, Maintenance,
        Working
<1>1. BooleansOK
  BY Zenon DEF BooleansOK
<1>2. DeviceTypeOK
  BY <1>1 DEF BooleansOK, DeviceTypeOK, CommunicationTypeOK, Normal, Nothing, Steps,
     Thread
<1>3. FaultTarget /\ OnlyMonitorDisables /\ WorkHasOrder
  BY DEF FaultTarget, OnlyMonitorDisables, WorkHasOrder
<1>6. DisabledInv
  <2>1. wasDisabled <=> onlineStatus = Disabled
    BY Zenon
  <2>2. doing["monitor"] = "idle"
    BY DEF Thread
  <2> QED
    BY <2>1, <2>2 DEF DisabledInv
<1>4. FaultNotInService
  BY DEF FaultNotInService
<1>5. DecisionInv
  BY DEF DecisionInv, SawNoFault, SawService, Thread
<1> QED
  BY <1>2, <1>3, <1>4, <1>5, <1>6 DEF DeviceInv

(* A thread goes on, the others stay where they are.                       *)
LEMMA GotoFacts ==
  ASSUME ThreadsOK, NEW t \in Thread, NEW step \in Steps(t), NEW online \in 0..3,
         Goto(t, step, online)
  PROVE  /\ ThreadsOK'
         /\ doing'[t] = step /\ target'[t] = online
         /\ \A u \in Thread : u # t => doing'[u] = doing[u] /\ target'[u] = target[u]
<1>1. /\ doing'[t] = step /\ target'[t] = online
      /\ \A u \in Thread : u # t => doing'[u] = doing[u] /\ target'[u] = target[u]
      /\ doing' = [u \in Thread |-> doing'[u]] /\ target' \in [Thread -> 0..3]
  BY DEF ThreadsOK, Goto
<1>2. ASSUME NEW u \in Thread PROVE doing'[u] \in Steps(u)
  <2>1. doing[u] \in Steps(u)
    BY DEF ThreadsOK
  <2> QED
    BY <1>1, <2>1
<1>3. ASSUME NEW u \in Thread PROVE (doing[u] \in Steps(u))' <=> doing'[u] \in Steps(u)
  BY DEF Steps
<1> QED
  BY <1>1, <1>2, <1>3 DEF ThreadsOK

(* What saveAppConfig leaves behind, free of Boolean equations.            *)
LEMMA SaveFacts ==
  ASSUME NEW t \in Thread, NEW online \in 0..4, Save(t, online),
         wasDisabled \in BOOLEAN, worked \in BOOLEAN, late \in BOOLEAN
  PROVE  /\ onlineStatus' = online
         /\ wasDisabled' \in BOOLEAN /\ worked' \in BOOLEAN /\ late' \in BOOLEAN
         /\ online = Disabled => wasDisabled'
         /\ online = Maintenance /\ wasDisabled => wasDisabled'
         /\ wasDisabled' => online = Disabled \/ (wasDisabled /\ online = Maintenance)
         /\ worked \/ online = Working => worked'
         /\ late' => online \in 0..2
         /\ online \in 0..2 /\ t \in overtaken => late'
         /\ online \in 0..2 /\ late /\ doing[t] # "write" => late'
         /\ online \in {Disabled, Maintenance} =>
              overtaken' = (overtaken \cup Deciders) \ {t}
         /\ online \notin {Disabled, Maintenance} => overtaken' = overtaken \ {t}
BY Zenon DEF Save

(* A write of onlineStatus overtakes, or leaves true, what others rely on. *)
LEMMA SaveKeepsDecisions ==
  ASSUME DeviceInv, NEW t \in Thread, NEW online \in 0..4, Save(t, online),
         NEW step \in {"idle", "reset"}, NEW value,
         doing' = [doing EXCEPT ![t] = step], target' = [target EXCEPT ![t] = value],
         errorStatus' = errorStatus
  PROVE  DecisionInv'
<1> USE DEF Disabled, Operating, Resting, Maintenance, Working
<1>1. /\ doing = [u \in Thread |-> doing[u]] /\ target \in [Thread -> 0..3]
      /\ DecisionInv
      /\ wasDisabled \in BOOLEAN /\ worked \in BOOLEAN /\ late \in BOOLEAN
  BY DEF DeviceInv, DeviceTypeOK
<1>2. SUFFICES ASSUME NEW u \in Thread, u \notin overtaken'
               PROVE  /\ SawNoFault(u)' => errorStatus' = 0
                      /\ SawService(u)' => InService'
  BY DEF DecisionInv
<1>3. CASE u = t
  <2>1. doing'[u] \in {"idle", "reset"}
    BY <1>1, <1>3
  <2> QED
    BY <2>1 DEF SawNoFault, SawService
<1>4. CASE u # t
  <2>1. doing'[u] = doing[u] /\ target'[u] = target[u]
    BY <1>1, <1>4
  <2>2. (SawNoFault(u)' <=> SawNoFault(u)) /\ (SawService(u)' <=> SawService(u))
    BY <2>1 DEF SawNoFault, SawService
  <2>3. CASE online \in {Disabled, Maintenance}
    <3>1. u \notin Deciders
      BY <1>1, <1>2, <1>4, <2>3, SaveFacts
    <3>2. ~SawNoFault(u) /\ ~SawService(u)
      BY <3>1 DEF Deciders, Deciding, SawNoFault, SawService
    <3> QED
      BY <2>2, <3>2
  <2>4. CASE online \notin {Disabled, Maintenance}
    <3>1. u \notin overtaken
      BY <1>1, <1>2, <1>4, <2>4, SaveFacts
    <3>2. onlineStatus' = online /\ ~wasDisabled'
      BY <1>1, <2>4, SaveFacts
    <3>3. InService'
      BY <2>4, <3>2 DEF InService
    <3> QED
      BY <1>1, <2>2, <3>1, <3>3 DEF DecisionInv
  <2> QED
    BY <2>3, <2>4
<1> QED
  BY <1>3, <1>4

(* The parts of the type invariant.                                        *)
LEMMA TypeParts ==
  /\ DeviceTypeOK <=>
       /\ BooleansOK /\ ThreadsOK
       /\ state \in {Normal, AutoReconnecting, WaitManual}
       /\ told \in {Nothing, Recovered, EnteredWait}
       /\ onlineStatus \in 0..4 /\ errorStatus \in {0, 2}
       /\ lastRecoverableOnlineStatus \in 0..2
       /\ overtaken \subseteq Thread
  /\ DeviceTypeOK' <=>
       /\ BooleansOK' /\ ThreadsOK'
       /\ state' \in {Normal, AutoReconnecting, WaitManual}
       /\ told' \in {Nothing, Recovered, EnteredWait}
       /\ onlineStatus' \in 0..4 /\ errorStatus' \in {0, 2}
       /\ lastRecoverableOnlineStatus' \in 0..2
       /\ overtaken' \subseteq Thread
BY Zenon DEF DeviceTypeOK, CommunicationTypeOK, BooleansOK, ThreadsOK

(* The writes preserve the invariant, whoever they belong to.              *)
LEMMA WritesKeepInv ==
  ASSUME DeviceInv, NEW t \in Thread, Write(t)
  PROVE  DeviceInv'
<1> USE DEF Disabled, Operating, Resting, Maintenance, Working
<1>0. /\ DeviceTypeOK /\ DisabledInv /\ FaultTarget /\ OnlyMonitorDisables
      /\ DecisionInv /\ FaultNotInService /\ WorkHasOrder
      /\ BooleansOK /\ ThreadsOK /\ doing[t] \in Steps(t) /\ target[t] \in 0..3
  BY TypeParts DEF DeviceInv, ThreadsOK
<1>1. CASE RaiseFault(t)
  <2>1. /\ doing[t] = "fault" /\ target[t] = Maintenance
        /\ Goto(t, "write", target[t])
        /\ errorStatus' = 2 /\ overtaken' = overtaken \cup Deciders
        /\ UNCHANGED <<commVars, onlineStatus, lastRecoverableOnlineStatus, orderVars,
                       worldVars, historyVars>>
    BY <1>0, <1>1 DEF RaiseFault, FaultTarget
  <2>2. "write" \in Steps(t)
    BY <1>0, <2>1 DEF Steps, Thread
  <2>3. /\ ThreadsOK'
        /\ doing'[t] = "write" /\ target'[t] = Maintenance
        /\ \A u \in Thread : u # t => doing'[u] = doing[u] /\ target'[u] = target[u]
    BY <1>0, <2>1, <2>2, GotoFacts
  <2>4. BooleansOK'
    BY <1>0, <2>1, Zenon DEF BooleansOK, commVars, orderVars, worldVars, historyVars
  <2>5. DeviceTypeOK'
    BY <1>0, <2>1, <2>3, <2>4, TypeParts DEF commVars, Deciders
  <2>6. DisabledInv' /\ FaultTarget' /\ OnlyMonitorDisables'
    BY <1>0, <2>1, <2>3 DEF DisabledInv, FaultTarget, OnlyMonitorDisables, historyVars,
       Thread
  <2>7. DecisionInv'
    <3> SUFFICES ASSUME NEW u \in Thread, u \notin overtaken'
                 PROVE  ~SawNoFault(u)' /\ ~SawService(u)'
      BY DEF DecisionInv
    <3>1. u \notin Deciders
      BY <2>1
    <3> QED
      BY <2>1, <2>3, <3>1 DEF Deciders, Deciding, SawNoFault, SawService
  <2>8. FaultNotInService'
    BY <2>3 DEF FaultNotInService
  <2>9. WorkHasOrder'
    BY <1>0, <2>1 DEF WorkHasOrder, orderVars, historyVars
  <2> QED
    BY <2>5, <2>6, <2>7, <2>8, <2>9 DEF DeviceInv
<1>2. CASE ClearFault(t)
  <2>1. /\ doing[t] = "clear" /\ Goto(t, "write", target[t])
        /\ errorStatus' = 0 /\ overtaken' = overtaken
        /\ UNCHANGED <<commVars, onlineStatus, lastRecoverableOnlineStatus, orderVars,
                       worldVars, historyVars>>
    BY <1>2 DEF ClearFault, Continue, Goto
  <2>2. "write" \in Steps(t)
    BY <1>0, <2>1 DEF Steps, Thread
  <2>3. /\ ThreadsOK'
        /\ doing'[t] = "write" /\ target'[t] = target[t]
        /\ \A u \in Thread : u # t => doing'[u] = doing[u] /\ target'[u] = target[u]
    BY <1>0, <2>1, <2>2, GotoFacts
  <2>4. BooleansOK'
    BY <1>0, <2>1, Zenon DEF BooleansOK, commVars, orderVars, worldVars, historyVars
  <2>5. DeviceTypeOK'
    BY <1>0, <2>1, <2>3, <2>4, TypeParts DEF commVars
  <2>6. DisabledInv' /\ FaultTarget' /\ OnlyMonitorDisables'
    BY <1>0, <2>1, <2>3 DEF DisabledInv, FaultTarget, OnlyMonitorDisables, historyVars,
       Thread
  <2>7. DecisionInv'
    <3> SUFFICES ASSUME NEW u \in Thread, u \notin overtaken, SawService(u)'
                 PROVE  InService'
      BY <2>1 DEF DecisionInv
    <3>1. SawService(u)
      BY <2>3 DEF SawService
    <3>2. InService
      BY <1>0, <3>1 DEF DecisionInv
    <3> QED
      BY <2>1, <3>2 DEF InService, historyVars
  <2>8. FaultNotInService' /\ WorkHasOrder'
    BY <1>0, <2>1 DEF FaultNotInService, WorkHasOrder, orderVars, historyVars
  <2> QED
    BY <2>5, <2>6, <2>7, <2>8 DEF DeviceInv
<1>3. CASE WriteOnlineStatus(t)
  <2> DEFINE step == IF t = "main" /\ target[t] # Maintenance THEN "reset" ELSE "idle"
  <2>1. /\ doing[t] \in {"write", "switch"} /\ Save(t, target[t]) /\ Goto(t, step, 0)
        /\ step \in {"idle", "reset"} /\ (step = "reset" => t = "main")
        /\ UNCHANGED <<commVars, errorStatus, lastRecoverableOnlineStatus, orderVars,
                       worldVars>>
    BY <1>3 DEF WriteOnlineStatus
  <2> HIDE DEF step
  <2>2. step \in Steps(t)
    BY <2>1 DEF Steps, Thread
  <2>3. /\ ThreadsOK'
        /\ doing'[t] = step /\ target'[t] = 0
        /\ \A u \in Thread : u # t => doing'[u] = doing[u] /\ target'[u] = target[u]
    BY <1>0, <2>1, <2>2, GotoFacts
  <2>4. target[t] \in 0..4 /\ wasDisabled \in BOOLEAN /\ worked \in BOOLEAN
        /\ late \in BOOLEAN
    BY <1>0 DEF BooleansOK
  <2>5. BooleansOK'
    <3>1. wasDisabled' \in BOOLEAN /\ worked' \in BOOLEAN /\ late' \in BOOLEAN
      BY <2>1, <2>4, SaveFacts
    <3> QED
      BY <1>0, <2>1, <3>1, Zenon DEF BooleansOK, commVars, orderVars, worldVars
  <2>6. DeviceTypeOK'
    <3>1. onlineStatus' \in 0..4 /\ overtaken' \subseteq Thread
      BY <1>0, <2>1, <2>4, SaveFacts, TypeParts DEF Deciders
    <3> QED
      BY <1>0, <2>1, <2>3, <2>5, <3>1, TypeParts DEF commVars
  <2>7. DisabledInv'
    <3>1. CASE t = "monitor"
      <4>1. doing[t] = "write" /\ (target[t] # Maintenance =>
               target[t] = lastRecoverableOnlineStatus)
        BY <1>0, <2>1, <3>1 DEF DisabledInv, Steps
      <4>2. doing'["monitor"] = "idle"
        BY <2>1, <2>3, <3>1
      <4> QED
        BY <1>0, <2>1, <2>4, <3>1, <4>1, <4>2, SaveFacts DEF DisabledInv
    <3>2. CASE t # "monitor"
      <4>1. doing'["monitor"] = doing["monitor"] /\ target'["monitor"] = target["monitor"]
        BY <2>3, <3>2 DEF Thread
      <4>2. target[t] # Disabled
        BY <1>0, <2>1, <3>2 DEF OnlyMonitorDisables
      <4> QED
        BY <1>0, <2>1, <2>4, <4>1, <4>2, SaveFacts DEF DisabledInv
    <3> QED
      BY <3>1, <3>2
  <2>8. FaultTarget' /\ OnlyMonitorDisables'
    BY <1>0, <2>1, <2>3 DEF FaultTarget, OnlyMonitorDisables
  <2>9. DecisionInv'
    BY <2>1, <2>4, SaveKeepsDecisions DEF Goto
  <2>10. FaultNotInService'
    <3> SUFFICES ASSUME errorStatus = 2, ~late', target[t] \in 0..2
                 PROVE  FALSE
      BY <1>0, <2>1, <2>4, SaveFacts DEF FaultNotInService
    <3>1. t \notin overtaken
      BY <2>1, <2>4, SaveFacts
    <3> QED
      BY <1>0, <2>1, <3>1 DEF DecisionInv, SawNoFault
  <2>11. WorkHasOrder'
    BY <1>0, <2>1, <2>4, SaveFacts DEF WorkHasOrder
  <2> QED
    BY <2>6, <2>7, <2>8, <2>9, <2>10, <2>11 DEF DeviceInv
<1> QED
  BY <1>1, <1>2, <1>3 DEF Write

(* A thread reads and decides: nothing is written, and what it will rely   *)
(* on is so.                                                               *)
LEMMA DecisionsKeepInv ==
  ASSUME DeviceInv, NEW t \in Thread, NEW step \in Steps(t), NEW online \in 0..3,
         Goto(t, step, online), overtaken' \in {overtaken, overtaken \ {t}},
         ~(doing[t] = "write" /\ target[t] = Maintenance),
         UNCHANGED <<configVars, wasDisabled, late>>, worked' \in BOOLEAN,
         UNCHANGED worldVars,
         order' \in BOOLEAN, order' = order \/ onlineStatus # Working,
         down' \in BOOLEAN, state' \in {Normal, AutoReconnecting, WaitManual},
         told' \in {Nothing, Recovered, EnteredWait},
         lastRecoverableOnlineStatus' \in 0..2,
         DisabledInv',
         step = "fault" => online = Maintenance,
         step \in {"clear", "write", "switch", "end"} =>
            t = "monitor" \/ online # Disabled,
         t \notin overtaken' /\ SawNoFault(t)' => errorStatus = 0,
         t \notin overtaken' /\ SawService(t)' => InService
  PROVE  DeviceInv'
<1> USE DEF Disabled, Operating, Resting, Maintenance, Working
<1>0. /\ DeviceTypeOK /\ FaultTarget /\ OnlyMonitorDisables
      /\ DecisionInv /\ FaultNotInService /\ WorkHasOrder
      /\ BooleansOK /\ ThreadsOK
  BY TypeParts DEF DeviceInv
<1>1. /\ ThreadsOK'
      /\ doing'[t] = step /\ target'[t] = online
      /\ \A u \in Thread : u # t => doing'[u] = doing[u] /\ target'[u] = target[u]
  BY <1>0, GotoFacts
<1>2. UNCHANGED <<onlineStatus, errorStatus, wasDisabled, late>>
  BY DEF configVars
<1>3. BooleansOK'
  BY <1>0, <1>2, Zenon DEF BooleansOK, worldVars
<1>4. DeviceTypeOK'
  BY <1>0, <1>1, <1>2, <1>3, TypeParts
<1>5. FaultTarget' /\ OnlyMonitorDisables'
  BY <1>0, <1>1 DEF FaultTarget, OnlyMonitorDisables
<1>6. DecisionInv'
  <2> SUFFICES ASSUME NEW u \in Thread, u \notin overtaken'
               PROVE  /\ SawNoFault(u)' => errorStatus' = 0
                      /\ SawService(u)' => InService'
    BY DEF DecisionInv
  <2>0. InService' <=> InService
    BY <1>2 DEF InService
  <2>1. CASE u = t
    BY <1>2, <2>0, <2>1
  <2>2. CASE u # t
    <3>1. (SawNoFault(u)' <=> SawNoFault(u)) /\ (SawService(u)' <=> SawService(u))
      BY <1>1, <2>2 DEF SawNoFault, SawService
    <3> QED
      BY <1>0, <1>2, <2>0, <2>2, <3>1 DEF DecisionInv
  <2> QED
    BY <2>1, <2>2
<1>7. FaultNotInService'
  BY <1>0, <1>1, <1>2 DEF FaultNotInService
<1>8. WorkHasOrder'
  BY <1>0, <1>2 DEF WorkHasOrder
<1> QED
  BY <1>4, <1>5, <1>6, <1>7, <1>8 DEF DeviceInv

(* Nothing happens to the threads and the configuration.                   *)
LEMMA QuietStepsKeepInv ==
  ASSUME DeviceInv, UNCHANGED threadVars, UNCHANGED overtaken,
         UNCHANGED <<configVars, wasDisabled, late>>, worked' \in BOOLEAN,
         inspection' \in BOOLEAN, connected' \in BOOLEAN, open' \in BOOLEAN,
         order' \in BOOLEAN, order' = order \/ onlineStatus # Working,
         down' \in BOOLEAN, state' \in {Normal, AutoReconnecting, WaitManual},
         told' \in {Nothing, Recovered, EnteredWait},
         lastRecoverableOnlineStatus' \in 0..2, DisabledInv'
  PROVE  DeviceInv'
<1>0. /\ DeviceTypeOK /\ FaultTarget /\ OnlyMonitorDisables
      /\ DecisionInv /\ FaultNotInService /\ WorkHasOrder
      /\ BooleansOK /\ ThreadsOK
  BY TypeParts DEF DeviceInv
<1>1. UNCHANGED <<doing, target, overtaken, onlineStatus, errorStatus, wasDisabled, late>>
  BY DEF threadVars, configVars
<1>2. BooleansOK'
  BY <1>0, <1>1, Zenon DEF BooleansOK
<1>3. DeviceTypeOK'
  <2>1. ThreadsOK'
    BY <1>0, <1>1 DEF ThreadsOK, Steps
  <2> QED
    BY <1>0, <1>1, <1>2, <2>1, TypeParts
<1>4. FaultTarget' /\ OnlyMonitorDisables' /\ DecisionInv'
  BY <1>0, <1>1 DEF FaultTarget, OnlyMonitorDisables, DecisionInv, SawNoFault,
     SawService, InService
<1>5. FaultNotInService' /\ WorkHasOrder'
  BY <1>0, <1>1 DEF FaultNotInService, WorkHasOrder
<1> QED
  BY <1>3, <1>4, <1>5 DEF DeviceInv

(* What every reading step leaves alone.                                   *)
LEMMA KeptTypes ==
  ASSUME DeviceInv
  PROVE  /\ order \in BOOLEAN /\ down \in BOOLEAN /\ worked \in BOOLEAN
         /\ connected \in BOOLEAN /\ open \in BOOLEAN /\ inspection \in BOOLEAN
         /\ state \in {Normal, AutoReconnecting, WaitManual}
         /\ told \in {Nothing, Recovered, EnteredWait}
         /\ lastRecoverableOnlineStatus \in 0..2
         /\ onlineStatus \in 0..4 /\ DisabledInv /\ DecisionInv
BY TypeParts DEF DeviceInv, BooleansOK

(* A round of the link monitor, and what follows from it.                  *)
LEMMA MonitorKeepsInv ==
  ASSUME DeviceInv, MonitorRound \/ Leave
  PROVE  DeviceInv'
<1> USE DEF Disabled, Operating, Resting, Maintenance, Working, Normal,
        AutoReconnecting, WaitManual, Nothing, Recovered, EnteredWait
<1> DEFINE Remembering == Remembered(onlineStatus)
<1>0. /\ order \in BOOLEAN /\ down \in BOOLEAN /\ worked \in BOOLEAN
      /\ connected \in BOOLEAN /\ open \in BOOLEAN /\ inspection \in BOOLEAN
      /\ state \in {Normal, AutoReconnecting, WaitManual}
      /\ told \in {Nothing, Recovered, EnteredWait}
      /\ lastRecoverableOnlineStatus \in 0..2
      /\ onlineStatus \in 0..4 /\ DisabledInv
  BY KeptTypes
<1>1. /\ Remembering \in 0..2
      /\ wasDisabled => Remembering = Disabled
  BY <1>0 DEF Remembered, DisabledInv
<1>2. "monitor" \in Thread /\ Steps("monitor") =
        {"idle", "leave", "remember", "fault", "clear", "write"}
  BY DEF Thread, Steps
<1>3. CASE Idle("monitor") /\ RoundInInspection /\ UNCHANGED <<orderVars, worldVars>>
  <2>1. (onlineStatus = Working) \in BOOLEAN
    OBVIOUS
  <2>2. worked' \in BOOLEAN /\ down' \in BOOLEAN
    BY <1>3, <2>1, Zenon DEF RoundInInspection, ResetToNormal
  <2>3. DisabledInv'
    BY <1>0, <1>3 DEF RoundInInspection, DisabledInv, configVars, threadVars
  <2> QED
    BY <1>0, <1>3, <2>2, <2>3, QuietStepsKeepInv
       DEF RoundInInspection, ResetToNormal, orderVars, worldVars
<1>4. CASE Idle("monitor") /\ (RoundAnswered \/ RoundSilent)
           /\ UNCHANGED <<orderVars, worldVars>>
  <2>1. lastRecoverableOnlineStatus' \in {lastRecoverableOnlineStatus, Remembering}
    BY <1>4 DEF RoundAnswered, RoundSilent
  <2>2. DisabledInv'
    BY <1>0, <1>1, <1>4, <2>1
       DEF RoundAnswered, RoundSilent, DisabledInv, KeepConfig, configVars, historyVars,
           threadVars, Idle
  <2>3. /\ down' \in BOOLEAN /\ state' \in {Normal, AutoReconnecting, WaitManual}
        /\ told' \in {Nothing, Recovered, EnteredWait}
    BY <1>0, <1>4 DEF RoundAnswered, RoundSilent, HearAnswer, HearSilence
  <2> QED
    BY <1>0, <1>1, <1>4, <2>1, <2>2, <2>3, QuietStepsKeepInv
       DEF RoundAnswered, RoundSilent, KeepConfig, historyVars, orderVars, worldVars
<1>5. CASE Idle("monitor") /\ RoundRecovers /\ UNCHANGED <<orderVars, worldVars>>
  <2> DEFINE restored == RecoveredOnlineStatus(Remembering)
  <2>1. restored \in 0..2 /\ (wasDisabled => restored = Disabled)
    BY <1>1 DEF RecoveredOnlineStatus
  <2>2. /\ Goto("monitor", "clear", restored) /\ overtaken' = overtaken
        /\ lastRecoverableOnlineStatus' = restored
        /\ KeepConfig
        /\ down' \in BOOLEAN /\ state' = Normal /\ told' = Recovered
    BY <1>5 DEF RoundRecovers, Continue, AutoRecover
  <2> HIDE DEF restored
  <2>3. doing'["monitor"] = "clear" /\ target'["monitor"] = restored
    BY <1>2, <2>1, <2>2, GotoFacts, TypeParts DEF DeviceInv
  <2>4. DisabledInv'
    BY <1>0, <2>1, <2>2, <2>3 DEF DisabledInv, KeepConfig, configVars, historyVars
  <2>5. ~SawNoFault("monitor")' /\ ~SawService("monitor")'
    BY <2>3 DEF SawNoFault, SawService
  <2> QED
    BY <1>0, <1>2, <1>5, <2>1, <2>2, <2>4, <2>5, DecisionsKeepInv
       DEF Idle, KeepConfig, historyVars, orderVars, worldVars
<1>6. CASE Idle("monitor") /\ RoundGivesUp /\ UNCHANGED <<orderVars, worldVars>>
  <2>1. /\ Goto("monitor", "leave", 0) /\ overtaken' = overtaken
        /\ KeepConfig /\ UNCHANGED lastRecoverableOnlineStatus
        /\ down' \in BOOLEAN /\ state' = WaitManual /\ told' = EnteredWait
    BY <1>6 DEF RoundGivesUp, Continue, GiveUp
  <2>2. doing'["monitor"] = "leave"
    BY <1>2, <2>1, GotoFacts, TypeParts DEF DeviceInv
  <2>3. DisabledInv' /\ ~SawNoFault("monitor")' /\ ~SawService("monitor")'
    BY <1>0, <2>1, <2>2 DEF DisabledInv, KeepConfig, configVars, historyVars, SawNoFault,
       SawService
  <2> QED
    BY <1>0, <1>2, <1>6, <2>1, <2>3, DecisionsKeepInv
       DEF Idle, KeepConfig, historyVars, orderVars, worldVars
<1>7. CASE LeaveService
  <2>1. PICK step \in {"idle", "remember"} :
           Goto("monitor", step, 0) /\ overtaken' \in {overtaken, overtaken \ {"monitor"}}
    BY <1>7 DEF LeaveService, Continue, Finish
  <2>2. doing'["monitor"] = step
    BY <1>2, <2>1, GotoFacts, TypeParts DEF DeviceInv
  <2>3. DisabledInv' /\ ~SawNoFault("monitor")' /\ ~SawService("monitor")'
    BY <1>0, <1>7, <2>1, <2>2 DEF LeaveService, DisabledInv, KeepConfig, configVars,
       historyVars, SawNoFault, SawService
  <2> QED
    BY <1>0, <1>2, <1>7, <2>1, <2>3, DecisionsKeepInv
       DEF LeaveService, KeepConfig, historyVars, orderVars, commVars
<1>8. CASE RememberAndFail
  <2>1. /\ Goto("monitor", "fault", Maintenance) /\ overtaken' = overtaken
        /\ lastRecoverableOnlineStatus' = Remembering
    BY <1>8 DEF RememberAndFail, Continue
  <2>2. doing'["monitor"] = "fault"
    BY <1>2, <2>1, GotoFacts, TypeParts DEF DeviceInv
  <2>3. DisabledInv' /\ ~SawNoFault("monitor")' /\ ~SawService("monitor")'
    BY <1>0, <1>1, <1>8, <2>1, <2>2 DEF RememberAndFail, DisabledInv, KeepConfig,
       configVars, historyVars, SawNoFault, SawService
  <2> QED
    BY <1>0, <1>1, <1>2, <1>8, <2>1, <2>3, DecisionsKeepInv
       DEF RememberAndFail, KeepConfig, historyVars, orderVars, commVars
<1> QED
  BY <1>3, <1>4, <1>5, <1>6, <1>7, <1>8 DEF MonitorRound, Leave

(* The poll: a rest or an opening is decided on a status that still counts. *)
LEMMA HoursKeepInv ==
  ASSUME DeviceInv, Poll \/ Hours
  PROVE  DeviceInv'
<1> USE DEF Disabled, Operating, Resting, Maintenance, Working
<1>0. /\ order \in BOOLEAN /\ down \in BOOLEAN /\ worked \in BOOLEAN
      /\ state \in {Normal, AutoReconnecting, WaitManual}
      /\ told \in {Nothing, Recovered, EnteredWait}
      /\ lastRecoverableOnlineStatus \in 0..2
      /\ DisabledInv /\ DecisionInv
  BY KeptTypes
<1>2. "poll" \in Thread /\ Steps("poll") =
        {"idle", "closing", "opening", "resting", "starting", "switch"}
  BY DEF Thread, Steps
<1>3. PICK step \in Steps("poll"), online \in 1..3 :
        /\ doing["poll"] \in {"idle", "closing", "opening", "resting", "starting"}
        /\ PollStep
        /\ \/ Goto("poll", step, online) /\ step = "switch"
           \/ Goto("poll", step, 0) /\ step # "switch"
        /\ overtaken' \in {overtaken, overtaken \ {"poll"}}
        /\ step \in {"resting", "starting"} => errorStatus = 0
        /\ step = "switch" /\ online # Maintenance =>
              /\ doing["poll"] \in {"resting", "starting"}
              /\ onlineStatus \in {Operating, Resting}
              /\ overtaken' = overtaken
  <2>1. CASE EndBusinessHours \/ StartBusinessHours
    <3>1. CASE EndBusinessHours
      BY <1>2, <3>1 DEF EndBusinessHours, Continue, Idle
    <3>2. CASE StartBusinessHours
      BY <1>2, <3>2 DEF StartBusinessHours, Continue, Idle
    <3> QED
      BY <2>1, <3>1, <3>2
  <2>2. CASE LookForFault
    BY <1>2, <2>2 DEF LookForFault, Continue
  <2>3. CASE SwitchHours
    <3>1. CASE doing["poll"] = "resting" /\ onlineStatus = Operating
               /\ Continue("poll", "switch", Resting) /\ PollStep
      BY <1>2, <3>1 DEF Continue
    <3>2. CASE doing["poll"] = "starting" /\ onlineStatus = Resting
               /\ Continue("poll", "switch", Operating) /\ PollStep
      BY <1>2, <3>2 DEF Continue
    <3>3. CASE doing["poll"] \in {"resting", "starting"} /\ Finish("poll") /\ PollStep
      BY <1>2, <3>3 DEF Finish
    <3> QED
      BY <2>3, <3>1, <3>2, <3>3 DEF SwitchHours
  <2> QED
    BY <2>1, <2>2, <2>3 DEF Poll, Hours
<1> DEFINE value == IF step = "switch" THEN online ELSE 0
<1>4. Goto("poll", step, value) /\ value \in 0..3
  BY <1>3
<1> HIDE DEF value
<1>5. /\ doing'["poll"] = step /\ target'["poll"] = value
      /\ doing'["monitor"] = doing["monitor"] /\ target'["monitor"] = target["monitor"]
  BY <1>2, <1>4, GotoFacts, TypeParts DEF DeviceInv, Thread
<1>6. DisabledInv'
  BY <1>0, <1>3, <1>5 DEF DisabledInv, PollStep, KeepConfig, configVars, historyVars
<1>7. "poll" \notin overtaken' /\ SawNoFault("poll")' => errorStatus = 0
  <2> SUFFICES ASSUME "poll" \notin overtaken', SawNoFault("poll")', step = "switch"
               PROVE  errorStatus = 0
    BY <1>2, <1>3, <1>5 DEF SawNoFault
  <2>1. online # Maintenance
    BY <1>5 DEF SawNoFault, value
  <2>2. SawNoFault("poll") /\ "poll" \notin overtaken
    BY <1>3, <2>1 DEF SawNoFault
  <2> QED
    BY <1>0, <1>2, <2>2 DEF DecisionInv
<1>8. SawService("poll")' => InService
  <2> SUFFICES ASSUME SawService("poll")' PROVE InService
    OBVIOUS
  <2>1. step = "switch" /\ online # Maintenance
    BY <1>2, <1>5 DEF SawService, value
  <2> QED
    BY <1>0, <1>3, <2>1 DEF InService, DisabledInv
<1>9. step = "switch" => value # Disabled
  BY <1>3 DEF value
<1> QED
  BY <1>0, <1>2, <1>3, <1>4, <1>6, <1>7, <1>8, <1>9, DecisionsKeepInv
     DEF PollStep, KeepConfig, historyVars, orderVars, commVars

(* The page, a mechanical action, and the failure of an item.              *)
LEMMA HumanKeepsInv ==
  ASSUME DeviceInv, Human \/ ActionFails \/ FailItem
  PROVE  DeviceInv'
<1> USE DEF Disabled, Operating, Resting, Maintenance, Working, Normal, WaitManual,
        AutoReconnecting, Nothing
<1>0. /\ order \in BOOLEAN /\ down \in BOOLEAN /\ worked \in BOOLEAN
      /\ connected \in BOOLEAN /\ open \in BOOLEAN /\ inspection \in BOOLEAN
      /\ state \in {Normal, AutoReconnecting, WaitManual}
      /\ told \in {Nothing, Recovered, EnteredWait}
      /\ lastRecoverableOnlineStatus \in 0..2
      /\ DisabledInv
  BY KeptTypes
<1>1. {"main", "action"} \subseteq Thread \ {"monitor"} /\ "monitor" \in Thread
      /\ {"idle", "fault"} \subseteq Steps("action")
      /\ {"idle", "fault", "clear"} \subseteq Steps("main")
  BY DEF Thread, Steps
<1>2. ASSUME NEW t \in {"main", "action"}, NEW step \in {"idle", "fault", "clear"},
             NEW online \in 0..3, Goto(t, step, online), step \in Steps(t),
             UNCHANGED <<onlineStatus, wasDisabled, lastRecoverableOnlineStatus>>
      PROVE  DisabledInv' /\ ~SawNoFault(t)' /\ ~SawService(t)'
  <2>1. /\ doing'[t] = step
        /\ doing'["monitor"] = doing["monitor"] /\ target'["monitor"] = target["monitor"]
    BY <1>1, <1>2, GotoFacts, TypeParts DEF DeviceInv
  <2> QED
    BY <1>0, <1>2, <2>1 DEF DisabledInv, SawNoFault, SawService
<1>3. CASE ToggleInspection
  <2>1. DisabledInv'
    BY <1>0, <1>3 DEF ToggleInspection, DisabledInv, configVars, historyVars, threadVars
  <2>2. inspection' \in BOOLEAN
    BY <1>0, <1>3, Zenon DEF ToggleInspection
  <2> QED
    BY <1>0, <1>3, <2>1, <2>2, QuietStepsKeepInv
       DEF ToggleInspection, historyVars, orderVars, commVars
<1>4. CASE ClickRecover
  <2>1. PICK online \in {Operating, Resting} :
           Goto("main", "clear", online) /\ overtaken' = overtaken
    BY <1>4 DEF ClickRecover, Continue
  <2>2. DisabledInv' /\ ~SawNoFault("main")' /\ ~SawService("main")'
    BY <1>1, <1>2, <1>4, <2>1 DEF ClickRecover, KeepConfig, configVars, historyVars
  <2>3. doing["main"] = "idle"
    BY <1>4 DEF ClickRecover, Idle
  <2> QED
    BY <1>0, <1>1, <1>4, <2>1, <2>2, <2>3, DecisionsKeepInv
       DEF ClickRecover, KeepConfig, historyVars, orderVars, commVars
<1>5. CASE ActionFails
  <2>1. Goto("action", "fault", Maintenance) /\ overtaken' = overtaken
    BY <1>5 DEF ActionFails, Continue
  <2>2. DisabledInv' /\ ~SawNoFault("action")' /\ ~SawService("action")'
    BY <1>1, <1>2, <1>5, <2>1 DEF ActionFails, KeepConfig, configVars, historyVars
  <2>3. doing["action"] = "idle"
    BY <1>5 DEF ActionFails, Idle
  <2> QED
    BY <1>0, <1>1, <1>5, <2>1, <2>2, <2>3, DecisionsKeepInv
       DEF ActionFails, KeepConfig, historyVars, orderVars, commVars
<1>6. CASE FailItem
  <2>1. Goto("main", "fault", Maintenance) /\ overtaken' = overtaken
    BY <1>6 DEF FailItem, Continue
  <2>2. DisabledInv' /\ ~SawNoFault("main")' /\ ~SawService("main")'
    BY <1>1, <1>2, <1>6, <2>1 DEF FailItem, OrderStep, historyVars
  <2>3. doing["main"] = "idle"
    BY <1>6 DEF FailItem, Idle
  <2> QED
    BY <1>0, <1>1, <1>6, <2>1, <2>2, <2>3, DecisionsKeepInv
       DEF FailItem, OrderStep, configVars, historyVars, commVars
<1>7. CASE ResetRecoveryState
  <2>1. /\ Goto("main", "idle", 0) /\ overtaken' = overtaken \ {"main"}
        /\ doing["main"] = "reset"
    BY <1>7 DEF ResetRecoveryState, Finish
  <2>2. DisabledInv' /\ ~SawNoFault("main")' /\ ~SawService("main")'
    BY <1>1, <1>2, <1>7, <2>1 DEF ResetRecoveryState, configVars
  <2>3. (onlineStatus = Working) \in BOOLEAN
    OBVIOUS
  <2>4. worked' \in BOOLEAN /\ down' \in BOOLEAN
    BY <1>7, <2>3, Zenon DEF ResetRecoveryState, ResetToNormal
  <2> QED
    BY <1>0, <1>1, <1>7, <2>1, <2>2, <2>4, DecisionsKeepInv
       DEF ResetRecoveryState, ResetToNormal, orderVars
<1> QED
  BY <1>3, <1>4, <1>5, <1>6, <1>7 DEF Human

(* An order: accepted, wound up by what is read last, written at the end.  *)
LEMMA OrderKeepsInv ==
  ASSUME DeviceInv, AcceptOrder \/ EndOrder \/ WindUp \/ WriteEnd
  PROVE  DeviceInv'
<1> USE DEF Disabled, Operating, Resting, Maintenance, Working
<1>0. /\ order \in BOOLEAN /\ down \in BOOLEAN /\ worked \in BOOLEAN
      /\ state \in {Normal, AutoReconnecting, WaitManual}
      /\ told \in {Nothing, Recovered, EnteredWait}
      /\ lastRecoverableOnlineStatus \in 0..2
      /\ DisabledInv /\ DecisionInv
  BY KeptTypes
<1>1. "main" \in Thread \ {"monitor"} /\ "monitor" \in Thread
      /\ Steps("main") = {"idle", "fault", "clear", "write", "reset", "windUp", "end"}
  BY DEF Thread, Steps
<1>2. /\ BooleansOK /\ ThreadsOK /\ DeviceTypeOK /\ FaultTarget /\ OnlyMonitorDisables
      /\ FaultNotInService /\ WorkHasOrder
  BY TypeParts DEF DeviceInv
<1>3. CASE AcceptOrder
  <2>1. /\ Save("main", Working) /\ order' = TRUE /\ doing["main"] = "idle"
        /\ UNCHANGED <<doing, target, commVars, errorStatus, lastRecoverableOnlineStatus,
                       worldVars>>
    BY <1>3 DEF AcceptOrder, OrderStep, threadVars, Idle
  <2>2. /\ onlineStatus' = Working /\ ~late' /\ ~wasDisabled'
        /\ overtaken' = overtaken \ {"main"}
        /\ wasDisabled' \in BOOLEAN /\ worked' \in BOOLEAN /\ late' \in BOOLEAN
    BY <1>1, <1>2, <2>1, SaveFacts DEF BooleansOK
  <2>3. BooleansOK'
    BY <1>2, <2>1, <2>2, Zenon DEF BooleansOK, commVars, worldVars
  <2>4. ThreadsOK'
    BY <1>2, <2>1 DEF ThreadsOK, Steps
  <2>5. DeviceTypeOK'
    BY <1>2, <2>1, <2>2, <2>3, <2>4, TypeParts DEF commVars
  <2>6. DisabledInv' /\ FaultTarget' /\ OnlyMonitorDisables'
    BY <1>0, <1>2, <2>1, <2>2 DEF DisabledInv, FaultTarget, OnlyMonitorDisables
  <2>7. DecisionInv'
    <3>1. /\ doing' = [doing EXCEPT !["main"] = "idle"]
          /\ target' = [target EXCEPT !["main"] = target["main"]]
      BY <1>2, <2>1 DEF ThreadsOK
    <3>2. Working \in 0..4 /\ errorStatus' = errorStatus
      BY <2>1
    <3> HIDE DEF Working
    <3> QED
      BY <1>1, <2>1, <3>1, <3>2, SaveKeepsDecisions
  <2>8. FaultNotInService' /\ WorkHasOrder'
    BY <2>1, <2>2 DEF FaultNotInService, WorkHasOrder
  <2> QED
    BY <2>5, <2>6, <2>7, <2>8 DEF DeviceInv
<1>4. CASE EndOrder
  <2>1. CASE onlineStatus = Working
    <3>1. /\ Goto("main", "windUp", 0) /\ overtaken' = overtaken /\ doing["main"] = "idle"
          /\ UNCHANGED <<order, onlineStatus, historyVars>> /\ OrderStep
      BY <1>4, <2>1 DEF EndOrder, Continue, Idle
    <3>2. /\ doing'["main"] = "windUp"
          /\ doing'["monitor"] = doing["monitor"] /\ target'["monitor"] = target["monitor"]
      BY <1>1, <1>2, <3>1, GotoFacts
    <3>3. DisabledInv' /\ ~SawNoFault("main")' /\ InService
      BY <1>0, <2>1, <3>1, <3>2 DEF DisabledInv, SawNoFault, InService, OrderStep,
         historyVars
    <3> QED
      BY <1>0, <1>1, <3>1, <3>3, DecisionsKeepInv
         DEF OrderStep, configVars, historyVars, commVars
  <2>2. CASE onlineStatus # Working
    <3>1. /\ UNCHANGED <<threadVars, overtaken, onlineStatus, historyVars>>
          /\ order' = FALSE /\ OrderStep
      BY <1>4, <2>2 DEF EndOrder
    <3>2. DisabledInv'
      BY <1>0, <3>1 DEF DisabledInv, OrderStep, historyVars, threadVars
    <3> QED
      BY <1>0, <1>2, <2>2, <3>1, <3>2, QuietStepsKeepInv
         DEF BooleansOK, OrderStep, configVars, historyVars, commVars, worldVars
  <2> QED
    BY <2>1, <2>2
<1>5. CASE WindUp
  <2>1. PICK online \in {Operating, Maintenance} :
          /\ Goto("main", "end", online) /\ overtaken' = overtaken
          /\ online = Operating => errorStatus = 0
    BY <1>5 DEF WindUp, Continue
  <2>2. /\ doing["main"] = "windUp"
        /\ UNCHANGED <<order, onlineStatus, historyVars>> /\ OrderStep
    BY <1>5 DEF WindUp
  <2>3. /\ doing'["main"] = "end" /\ target'["main"] = online
        /\ doing'["monitor"] = doing["monitor"] /\ target'["monitor"] = target["monitor"]
    BY <1>1, <1>2, <2>1, GotoFacts
  <2>4. DisabledInv' /\ (SawNoFault("main")' => errorStatus = 0)
    BY <1>0, <2>1, <2>2, <2>3 DEF DisabledInv, SawNoFault, OrderStep, historyVars
  <2>5. "main" \notin overtaken' => InService
    BY <1>0, <1>1, <2>1, <2>2 DEF DecisionInv, SawService
  <2> QED
    BY <1>0, <1>1, <2>1, <2>2, <2>4, <2>5, DecisionsKeepInv
       DEF OrderStep, configVars, historyVars, commVars
<1>6. CASE WriteEnd
  <2>1. /\ doing["main"] = "end" /\ Save("main", target["main"])
        /\ Goto("main", "idle", 0) /\ order' = FALSE
        /\ UNCHANGED <<commVars, errorStatus, lastRecoverableOnlineStatus, worldVars>>
    BY <1>6 DEF WriteEnd, OrderStep
  <2>2. target["main"] \in 0..4 /\ target["main"] \in 1..3
        /\ wasDisabled \in BOOLEAN /\ worked \in BOOLEAN /\ late \in BOOLEAN
    BY <1>1, <1>2, <2>1 DEF BooleansOK, ThreadsOK, OnlyMonitorDisables
  <2>3. /\ ThreadsOK'
        /\ doing'["main"] = "idle"
        /\ \A u \in Thread : u # "main" => doing'[u] = doing[u] /\ target'[u] = target[u]
    BY <1>1, <1>2, <2>1, GotoFacts
  <2>4. BooleansOK'
    <3>1. wasDisabled' \in BOOLEAN /\ worked' \in BOOLEAN /\ late' \in BOOLEAN
      BY <1>1, <2>1, <2>2, SaveFacts
    <3> QED
      BY <1>2, <2>1, <3>1, Zenon DEF BooleansOK, commVars, worldVars
  <2>5. DeviceTypeOK'
    <3>1. onlineStatus' \in 0..4 /\ overtaken' \subseteq Thread
      BY <1>1, <1>2, <2>1, <2>2, SaveFacts, TypeParts DEF Deciders
    <3> QED
      BY <1>2, <2>1, <2>3, <2>4, <3>1, TypeParts DEF commVars
  <2>6. DisabledInv'
    <3>1. doing'["monitor"] = doing["monitor"] /\ target'["monitor"] = target["monitor"]
      BY <1>1, <2>3
    <3> QED
      BY <1>0, <1>1, <2>1, <2>2, <3>1, SaveFacts DEF DisabledInv
  <2>7. FaultTarget' /\ OnlyMonitorDisables'
    BY <1>2, <2>1, <2>3 DEF FaultTarget, OnlyMonitorDisables
  <2>8. DecisionInv'
    BY <1>1, <2>1, <2>2, SaveKeepsDecisions DEF Goto
  <2>9. FaultNotInService'
    <3> SUFFICES ASSUME errorStatus = 2, ~late', target["main"] \in 0..2
                 PROVE  FALSE
      BY <1>1, <1>2, <2>1, <2>2, SaveFacts DEF FaultNotInService
    <3>1. "main" \notin overtaken
      BY <1>1, <2>1, <2>2, SaveFacts
    <3> QED
      BY <1>0, <1>1, <2>1, <3>1 DEF DecisionInv, SawNoFault
  <2>10. WorkHasOrder'
    BY <1>1, <2>1, <2>2, SaveFacts DEF WorkHasOrder
  <2> QED
    BY <2>5, <2>6, <2>7, <2>8, <2>9, <2>10 DEF DeviceInv
<1> QED
  BY <1>3, <1>4, <1>5, <1>6

(* The world preserves the invariant, a restart included.                  *)
LEMMA WorldKeepsInv ==
  ASSUME DeviceInv, World
  PROVE  DeviceInv'
<1> USE DEF Disabled, Operating, Resting, Maintenance, Working, Normal, WaitManual,
        Nothing
<1>0. /\ order \in BOOLEAN /\ down \in BOOLEAN /\ worked \in BOOLEAN
      /\ connected \in BOOLEAN /\ open \in BOOLEAN /\ inspection \in BOOLEAN
      /\ state \in {Normal, AutoReconnecting, WaitManual}
      /\ told \in {Nothing, Recovered, EnteredWait}
      /\ lastRecoverableOnlineStatus \in 0..2
      /\ DisabledInv
  BY KeptTypes
<1>1. CASE LinkChanges \/ HoursChange
  <2>1. DisabledInv'
    BY <1>0, <1>1 DEF LinkChanges, HoursChange, DisabledInv, configVars, historyVars,
       threadVars
  <2>2. connected' \in BOOLEAN /\ open' \in BOOLEAN
    BY <1>0, <1>1, Zenon DEF LinkChanges, HoursChange
  <2> QED
    BY <1>0, <1>1, <2>1, <2>2, QuietStepsKeepInv
       DEF LinkChanges, HoursChange, historyVars, orderVars, commVars
<1>2. CASE Restart
  <2>1. /\ errorStatus' \in {0, 2} /\ onlineStatus' \in 0..4
        /\ lastRecoverableOnlineStatus' =
             IF onlineStatus' \in 0..2 THEN onlineStatus' ELSE Operating
        /\ state' \in {Normal, WaitManual} /\ told' = Nothing
        /\ doing' = [t \in Thread |-> "idle"] /\ target' = [t \in Thread |-> 0]
        /\ overtaken' = {} /\ order' = FALSE
    BY <1>2 DEF Restart, MarkDisconnectedAtStartup, ResetToNormal
  <2>2. /\ wasDisabled' <=> onlineStatus' = Disabled
        /\ late' <=> \/ onlineStatus' = Working
                     \/ errorStatus' = 2 /\ onlineStatus' \in 0..2
    BY <1>2, Zenon DEF Restart
  <2>3. BooleansOK'
    <3>1. /\ UNCHANGED <<open, inspection>> /\ connected' = FALSE /\ down' = FALSE
          /\ wasDisabled' = (onlineStatus' = Disabled)
          /\ worked' = (onlineStatus' = Working)
          /\ late' = (onlineStatus' = Working \/ (errorStatus' = 2 /\ onlineStatus' \in 0..2))
      BY <1>2, Zenon DEF Restart, MarkDisconnectedAtStartup, ResetToNormal
    <3> QED
      BY <1>0, <2>1, <3>1, Zenon DEF BooleansOK
  <2>4. ThreadsOK'
    BY <2>1 DEF ThreadsOK, Steps, Thread
  <2>5. DeviceTypeOK'
    BY <2>1, <2>3, <2>4, TypeParts
  <2>6. doing'["monitor"] = "idle"
    BY <2>1 DEF Thread
  <2>7. DisabledInv'
    BY <2>1, <2>2, <2>6 DEF DisabledInv
  <2>8. FaultTarget' /\ OnlyMonitorDisables' /\ DecisionInv'
    BY <2>1 DEF FaultTarget, OnlyMonitorDisables, DecisionInv, SawNoFault, SawService
  <2>9. FaultNotInService' /\ WorkHasOrder'
    BY <2>1, <2>2 DEF FaultNotInService, WorkHasOrder
  <2> QED
    BY <2>5, <2>7, <2>8, <2>9 DEF DeviceInv
<1> QED
  BY <1>1, <1>2 DEF World

LEMMA StepKeepsDeviceInv ==
  ASSUME DeviceInv, [DeviceNext]_deviceVars
  PROVE  DeviceInv'
<1>1. CASE UNCHANGED deviceVars
  <2>1. DisabledInv'
    BY <1>1, KeptTypes DEF deviceVars, commVars, configVars, orderVars, threadVars,
       worldVars, historyVars, DisabledInv
  <2> QED
    BY <1>1, <2>1, KeptTypes, QuietStepsKeepInv DEF deviceVars, commVars, configVars,
       orderVars, worldVars, historyVars
<1> QED
  BY <1>1, WritesKeepInv, MonitorKeepsInv, HoursKeepInv, HumanKeepsInv, OrderKeepsInv,
     WorldKeepsInv DEF DeviceNext, OrderCoroutine

LEMMA DeviceInvariant == DeviceSpec => []DeviceInv
  BY InitDeviceInv, StepKeepsDeviceInv, PTL DEF DeviceSpec

-----------------------------------------------------------------------------
(* The types hold: no writer leaves a status or a step that is not one.    *)
THEOREM DeviceTypeCorrect == DeviceSpec => []DeviceTypeOK
<1>1. DeviceInv => DeviceTypeOK
  BY DEF DeviceInv
<1> QED
  BY <1>1, DeviceInvariant, PTL

(* A device with a reported fault is in maintenance or at work, whatever   *)
(* the other threads read and decide afterwards, one read and one write at *)
(* a time; what escapes was decided before the fault.                      *)
THEOREM FaultOutOfService == DeviceSpec => []FaultNotInService
<1>1. DeviceInv => FaultNotInService
  BY DEF DeviceInv
<1> QED
  BY <1>1, DeviceInvariant, PTL

(* A device at work has an order, unless it was killed at work.            *)
THEOREM WorkIsOwned == DeviceSpec => []WorkHasOrder
<1>1. DeviceInv => WorkHasOrder
  BY DEF DeviceInv
<1> QED
  BY <1>1, DeviceInvariant, PTL

-----------------------------------------------------------------------------
(* An action that fails never writes anything but maintenance.             *)
ActionInv == doing["action"] # "idle" => target["action"] = Maintenance

(* A step of thread t alone leaves the others where they are.              *)
LEMMA OthersStay ==
  ASSUME DeviceInv, NEW t \in Thread, NEW step, NEW online, Goto(t, step, online)
  PROVE  /\ doing'[t] = step /\ target'[t] = online
         /\ \A u \in Thread \ {t} : doing'[u] = doing[u] /\ target'[u] = target[u]
BY TypeParts DEF DeviceInv, ThreadsOK, Goto

LEMMA StepKeepsActionInv ==
  ASSUME DeviceInv, ActionInv, [DeviceNext]_deviceVars
  PROVE  ActionInv'
<1> USE DEF Thread
<1>1. CASE \E t \in Thread : Write(t)
  <2>1. PICK t \in Thread : Write(t)
    BY <1>1
  <2>2. PICK step, online :
            Goto(t, step, online) /\ (step = "idle" \/ online = target[t] \/ t = "main")
    BY <2>1 DEF Write, RaiseFault, ClearFault, Continue, WriteOnlineStatus
  <2>3. t = "action" => doing[t] # "idle"
    BY <2>1 DEF Write, RaiseFault, ClearFault, WriteOnlineStatus
  <2> QED
    BY <2>2, <2>3, OthersStay DEF ActionInv
<1>2. CASE ActionFails
  BY <1>2, OthersStay DEF ActionFails, Continue, ActionInv
<1>3. CASE \E t \in Thread \ {"action"} : \E step, online : Goto(t, step, online)
  BY <1>3, OthersStay DEF ActionInv
<1>4. CASE UNCHANGED threadVars
  BY <1>4 DEF threadVars, ActionInv
<1>5. CASE Restart
  BY <1>5 DEF Restart, ActionInv
<1>6. MonitorRound \/ Leave =>
        UNCHANGED threadVars \/ \E step, online : Goto("monitor", step, online)
  BY DEF MonitorRound, RoundInInspection, RoundAnswered, RoundRecovers, RoundSilent,
     RoundGivesUp, Leave, LeaveService, RememberAndFail, Continue, Finish
<1>7. Poll \/ Hours => \E step, online : Goto("poll", step, online)
  BY DEF Poll, Hours, EndBusinessHours, StartBusinessHours, LookForFault, SwitchHours,
     Continue, Finish
<1>8. Human \/ OrderCoroutine =>
        UNCHANGED threadVars \/ \E step, online : Goto("main", step, online)
  BY DEF Human, ClickRecover, ResetRecoveryState, ToggleInspection, OrderCoroutine,
     AcceptOrder, FailItem, EndOrder, WindUp, WriteEnd, Continue, Finish
<1>9. LinkChanges \/ HoursChange \/ UNCHANGED deviceVars => UNCHANGED threadVars
  BY DEF LinkChanges, HoursChange, deviceVars
<1> QED
  BY <1>1, <1>2, <1>3, <1>4, <1>5, <1>6, <1>7, <1>8, <1>9 DEF DeviceNext, World

LEMMA ActionInvariant == DeviceSpec => []ActionInv
<1>1. DeviceInit => ActionInv
  BY DEF DeviceInit, ActionInv, Thread
<1> QED
  BY <1>1, StepKeepsActionInv, DeviceInvariant, PTL DEF DeviceSpec

-----------------------------------------------------------------------------
(* What makes MaintenanceWhileWaiting inductive: worked misses no order,   *)
(* and what the monitor restores belongs to a policy that waits no more.   *)
WaitInv ==
    /\ onlineStatus = Working => worked
    /\ \/ doing["monitor"] = "clear"
       \/ doing["monitor"] = "write" /\ target["monitor"] # Maintenance
       => state = Normal
    /\ MaintenanceWhileWaiting

(* A decision of another thread than the monitor changes nothing of it.    *)
LEMMA DecisionsKeepWaitInv ==
  ASSUME DeviceInv, WaitInv, UNCHANGED <<state, onlineStatus, worked, late>>,
         \/ UNCHANGED threadVars
         \/ \E t \in Thread \ {"monitor"} : \E step, online :
               Goto(t, step, online) /\ (t = "main" => doing["main"] # "reset")
  PROVE  WaitInv'
<1>1. /\ doing'["monitor"] = doing["monitor"] /\ target'["monitor"] = target["monitor"]
      /\ doing["main"] = "reset" => doing'["main"] = "reset"
  <2>1. CASE UNCHANGED threadVars
    BY <2>1 DEF threadVars
  <2>2. CASE \E t \in Thread \ {"monitor"} : \E step, online :
               Goto(t, step, online) /\ (t = "main" => doing["main"] # "reset")
    <3>0. PICK t \in Thread \ {"monitor"} : \E step, online :
               Goto(t, step, online) /\ (t = "main" => doing["main"] # "reset")
      BY <2>2
    <3>1. PICK step, online :
               Goto(t, step, online) /\ (t = "main" => doing["main"] # "reset")
      BY <3>0
    <3>2. \A u \in Thread \ {t} : doing'[u] = doing[u] /\ target'[u] = target[u]
      BY <3>1, OthersStay
    <3> QED
      BY <3>1, <3>2 DEF Thread
  <2> QED
    BY <2>1, <2>2
<1> QED
  BY <1>1 DEF WaitInv, MaintenanceWhileWaiting, Idle, Clicking

(* A write that builds on the status in force finds a device in service,   *)
(* which does not wait, or is late.                                        *)
LEMMA WaitingIsNotInService ==
  ASSUME DeviceInv, WaitInv, NEW t \in Thread, doing[t] \in {"switch", "end"},
         Save(t, target[t]), ~worked', ~late', target[t] # Maintenance,
         state = WaitManual, Idle("monitor"), ~Clicking
  PROVE  FALSE
<1> USE DEF Disabled, Operating, Resting, Maintenance, Working
<1>1. /\ DecisionInv /\ target[t] \in 0..4 /\ target[t] \in 0..2
      /\ wasDisabled \in BOOLEAN /\ worked \in BOOLEAN /\ late \in BOOLEAN
  BY TypeParts DEF DeviceInv, BooleansOK, ThreadsOK
<1>2. t \notin overtaken /\ ~late /\ ~worked
  BY <1>1, SaveFacts
<1>3. InService
  BY <1>1, <1>2 DEF DecisionInv, SawService
<1>4. onlineStatus = Maintenance
  BY <1>2 DEF WaitInv, MaintenanceWhileWaiting
<1> QED
  BY <1>3, <1>4 DEF InService

LEMMA WritesKeepWaitInv ==
  ASSUME DeviceInv, WaitInv, ActionInv, NEW t \in Thread, Write(t)
  PROVE  WaitInv'
<1> USE DEF Disabled, Operating, Resting, Maintenance, Working, Thread
<1>0. /\ FaultTarget /\ doing[t] \in Steps(t) /\ target[t] \in 0..4
      /\ wasDisabled \in BOOLEAN /\ worked \in BOOLEAN /\ late \in BOOLEAN
  BY TypeParts DEF DeviceInv, BooleansOK, ThreadsOK
<1>1. CASE RaiseFault(t) \/ ClearFault(t)
  <2>1. /\ Goto(t, "write", target[t])
        /\ doing[t] \in {"fault", "clear"} /\ (doing[t] = "fault" => target[t] = Maintenance)
        /\ UNCHANGED <<state, onlineStatus, worked, late>>
    BY <1>0, <1>1 DEF RaiseFault, ClearFault, Continue, FaultTarget, commVars, historyVars
  <2>2. CASE t # "monitor"
    BY <2>1, <2>2, DecisionsKeepWaitInv
  <2>3. CASE t = "monitor"
    <3>1. doing'["monitor"] = "write" /\ target'["monitor"] = target["monitor"]
      BY <2>1, <2>3, OthersStay
    <3> QED
      BY <2>1, <2>3, <3>1 DEF WaitInv, MaintenanceWhileWaiting, Idle
  <2> QED
    BY <2>2, <2>3
<1>2. CASE WriteOnlineStatus(t)
  <2> DEFINE step == IF t = "main" /\ target[t] # Maintenance THEN "reset" ELSE "idle"
  <2>1. /\ doing[t] \in {"write", "switch"} /\ Save(t, target[t]) /\ Goto(t, step, 0)
        /\ UNCHANGED state
    BY <1>2 DEF WriteOnlineStatus, commVars
  <2> HIDE DEF step
  <2>2. /\ onlineStatus' = target[t] /\ worked' \in BOOLEAN
        /\ worked \/ target[t] = Working => worked'
    BY <1>0, <2>1, SaveFacts
  <2>3. /\ doing'[t] = step
        /\ \A u \in Thread \ {t} : doing'[u] = doing[u] /\ target'[u] = target[u]
    BY <2>1, OthersStay
  <2>4. CASE target[t] = Maintenance
    <3>1. \/ /\ doing'["monitor"] = doing["monitor"]
             /\ target'["monitor"] = target["monitor"]
          \/ doing'["monitor"] = "idle"
      BY <2>3, <2>4 DEF step
    <3> QED
      BY <2>1, <2>2, <2>4, <3>1 DEF WaitInv, MaintenanceWhileWaiting
  <2>5. CASE target[t] # Maintenance /\ t = "monitor"
    <3>1. state' = Normal
      BY <1>0, <2>1, <2>5 DEF WaitInv, Steps
    <3>2. doing'["monitor"] = "idle"
      BY <2>3, <2>5 DEF step
    <3> QED
      BY <2>2, <3>1, <3>2 DEF WaitInv, MaintenanceWhileWaiting, Normal, WaitManual
  <2>6. CASE target[t] # Maintenance /\ t = "main"
    <3>1. doing'["main"] = "reset"
      BY <2>3, <2>6 DEF step
    <3>2. doing'["monitor"] = doing["monitor"] /\ target'["monitor"] = target["monitor"]
      BY <2>3, <2>6
    <3> QED
      BY <2>1, <2>2, <3>1, <3>2 DEF WaitInv, MaintenanceWhileWaiting, Clicking
  <2>7. CASE target[t] # Maintenance /\ t = "poll"
    <3>1. doing[t] = "switch"
      BY <1>0, <2>1, <2>7 DEF Steps
    <3>2. /\ doing'["monitor"] = doing["monitor"] /\ target'["monitor"] = target["monitor"]
          /\ doing'["main"] = doing["main"]
      BY <2>3, <2>7
    <3>3. MaintenanceWhileWaiting'
      <4> SUFFICES ASSUME state = WaitManual, Idle("monitor"), ~Clicking, ~worked', ~late'
                   PROVE  FALSE
        BY <2>1, <3>2 DEF MaintenanceWhileWaiting, Idle, Clicking
      <4> QED
        BY <2>1, <2>7, <3>1, WaitingIsNotInService
    <3> QED
      BY <2>1, <2>2, <3>2, <3>3 DEF WaitInv
  <2>8. t = "action" => target[t] = Maintenance
    BY <2>1 DEF ActionInv
  <2> QED
    BY <2>4, <2>5, <2>6, <2>7, <2>8
<1> QED
  BY <1>1, <1>2 DEF Write

LEMMA StepKeepsWaitInv ==
  ASSUME DeviceInv, WaitInv, ActionInv, [DeviceNext]_deviceVars
  PROVE  WaitInv'
<1> USE DEF Disabled, Operating, Resting, Maintenance, Working, Normal, WaitManual,
        AutoReconnecting
<1>0. /\ onlineStatus \in 0..4 /\ ThreadsOK
      /\ wasDisabled \in BOOLEAN /\ worked \in BOOLEAN /\ late \in BOOLEAN
  BY TypeParts DEF DeviceInv, BooleansOK
<1>1. CASE \E t \in Thread : Write(t)
  BY <1>1, WritesKeepWaitInv
<1>2. CASE RoundInInspection \/ ResetRecoveryState
  <2>1. state' = Normal /\ (onlineStatus' = Working => worked')
    BY <1>2 DEF RoundInInspection, ResetRecoveryState, ResetToNormal, configVars
  <2> QED
    BY <2>1 DEF WaitInv, MaintenanceWhileWaiting
<1>3. CASE MonitorRound /\ (RoundAnswered \/ RoundSilent)
  <2>1. UNCHANGED <<doing, target, onlineStatus, worked, late>> /\ Idle("monitor")
    BY <1>3 DEF MonitorRound, RoundAnswered, RoundSilent, KeepConfig, configVars,
       historyVars, threadVars
  <2>2. state' = state \/ state' = AutoReconnecting
    BY <1>3 DEF RoundAnswered, RoundSilent, HearAnswer, HearSilence
  <2> QED
    BY <2>1, <2>2 DEF WaitInv, MaintenanceWhileWaiting, Idle, Clicking
<1>4. CASE RoundRecovers
  BY <1>4 DEF RoundRecovers, AutoRecover, KeepConfig, configVars, historyVars, WaitInv,
     MaintenanceWhileWaiting
<1>5. CASE RoundGivesUp \/ RememberAndFail
           \/ (LeaveService /\ Continue("monitor", "remember", 0))
  <2>1. PICK step \in {"leave", "fault", "remember"} :
            \E online : Goto("monitor", step, online)
    BY <1>5 DEF RoundGivesUp, RememberAndFail, Continue
  <2>2. doing'["monitor"] \in {"leave", "fault", "remember"}
    BY <2>1, OthersStay DEF Thread
  <2>3. UNCHANGED <<onlineStatus, worked>>
    BY <1>5 DEF RoundGivesUp, RememberAndFail, LeaveService, KeepConfig, configVars,
       historyVars
  <2> QED
    BY <2>2, <2>3 DEF WaitInv, MaintenanceWhileWaiting, Idle
<1>6. CASE LeaveService /\ Finish("monitor") /\ onlineStatus \notin 0..2
  <2>1. doing'["monitor"] = "idle"
    BY <1>6, OthersStay DEF Finish, Thread
  <2>2. UNCHANGED <<onlineStatus, worked>> /\ onlineStatus \in {Maintenance, Working}
    BY <1>0, <1>6 DEF LeaveService, KeepConfig, configVars, historyVars
  <2> QED
    BY <2>1, <2>2 DEF WaitInv, MaintenanceWhileWaiting
<1>7. CASE Poll \/ Hours
  <2>1. \E step, online : Goto("poll", step, online)
    BY <1>7 DEF Poll, Hours, EndBusinessHours, StartBusinessHours, LookForFault,
       SwitchHours, Continue, Finish
  <2>2. UNCHANGED <<state, onlineStatus, worked, late>>
    BY <1>7 DEF Poll, Hours, EndBusinessHours, StartBusinessHours, LookForFault,
       SwitchHours, PollStep, KeepConfig, commVars, configVars, historyVars
  <2> QED
    BY <2>1, <2>2, DecisionsKeepWaitInv DEF Thread
<1>8. CASE ActionFails
  BY <1>8, DecisionsKeepWaitInv DEF ActionFails, Continue, KeepConfig, commVars,
     configVars, historyVars, Thread
<1>9. CASE ClickRecover \/ FailItem \/ EndOrder \/ WindUp
  <2>1. UNCHANGED <<state, onlineStatus, worked, late>> /\ doing["main"] # "reset"
    BY <1>9 DEF ClickRecover, FailItem, EndOrder, WindUp, OrderStep, KeepConfig, commVars,
       configVars, historyVars, Idle
  <2>2. UNCHANGED threadVars \/ \E step, online : Goto("main", step, online)
    BY <1>9 DEF ClickRecover, FailItem, EndOrder, WindUp, Continue
  <2> QED
    BY <2>1, <2>2, DecisionsKeepWaitInv DEF Thread
<1>10. CASE \/ ToggleInspection \/ LinkChanges \/ HoursChange \/ UNCHANGED deviceVars
  BY <1>10, DecisionsKeepWaitInv DEF ToggleInspection, LinkChanges, HoursChange,
     deviceVars, commVars, configVars, historyVars
<1>11. CASE AcceptOrder
  <2>1. Save("main", Working) /\ UNCHANGED threadVars /\ state' = state
    BY <1>11 DEF AcceptOrder, OrderStep, commVars
  <2>2. worked'
    BY <1>0, <2>1, SaveFacts DEF Thread
  <2> QED
    BY <2>1, <2>2 DEF WaitInv, MaintenanceWhileWaiting, threadVars
<1>12. CASE WriteEnd
  <2>1. /\ doing["main"] = "end" /\ Save("main", target["main"])
        /\ Goto("main", "idle", 0) /\ UNCHANGED state
    BY <1>12 DEF WriteEnd, OrderStep, commVars
  <2>2. target["main"] \in 0..4
    BY <1>0 DEF ThreadsOK, Thread
  <2>3. /\ onlineStatus' = target["main"]
        /\ worked \/ target["main"] = Working => worked'
    BY <1>0, <2>1, <2>2, SaveFacts DEF Thread
  <2>4. doing'["monitor"] = doing["monitor"] /\ target'["monitor"] = target["monitor"]
    BY <2>1, OthersStay DEF Thread
  <2>5. MaintenanceWhileWaiting'
    <3> SUFFICES ASSUME state = WaitManual, Idle("monitor"), ~worked', ~late',
                        target["main"] # Maintenance
                 PROVE  FALSE
      BY <2>1, <2>3, <2>4 DEF MaintenanceWhileWaiting, Idle
    <3>1. ~Clicking
      BY <2>1 DEF Clicking
    <3> QED
      BY <2>1, <3>1, WaitingIsNotInService DEF Thread
  <2> QED
    BY <2>1, <2>3, <2>4, <2>5 DEF WaitInv
<1>13. CASE Restart
  <2>1. /\ doing'["monitor"] = "idle"
        /\ onlineStatus' = Working => worked'
        /\ state' = WaitManual => onlineStatus' = Maintenance
    BY <1>13 DEF Restart, MarkDisconnectedAtStartup, ResetToNormal, Thread
  <2> QED
    BY <2>1 DEF WaitInv, MaintenanceWhileWaiting
<1> QED
  <2>1. LeaveService => \/ Continue("monitor", "remember", 0)
                        \/ Finish("monitor") /\ onlineStatus \notin 0..2
    BY DEF LeaveService
  <2> QED
    BY <1>1, <1>2, <1>3, <1>4, <1>5, <1>6, <1>7, <1>8, <1>9, <1>10, <1>11, <1>12, <1>13,
       <2>1, Zenon
       DEF DeviceNext, MonitorRound, Leave, Human, OrderCoroutine, World

(* A device that waits for a human is in maintenance, unless an order was  *)
(* at work since the last reset or a decision was overtaken.               *)
THEOREM WaitingIsMaintenance == DeviceSpec => []MaintenanceWhileWaiting
<1>1. DeviceInit => WaitInv
  BY DEF DeviceInit, CommunicationInit, WaitInv, MaintenanceWhileWaiting, Normal,
     WaitManual, Disabled, Operating, Resting, Working, Thread
<1>2. WaitInv => MaintenanceWhileWaiting
  BY DEF WaitInv
<1> QED
  BY <1>1, <1>2, StepKeepsWaitInv, ActionInvariant, DeviceInvariant, PTL DEF DeviceSpec

-----------------------------------------------------------------------------
(* No recovery and no opening enables a device that was disabled, unless   *)
(* it was decided before the device was disabled.                          *)
THEOREM RecoveryKeepsDisabled == DeviceSpec => DisabledStaysDisabled
<1>1. ASSUME DeviceInv, ActionInv, [DeviceNext]_deviceVars, wasDisabled
      PROVE  wasDisabled' \/ WriteOnlineStatus("main") \/ AcceptOrder \/ Restart \/ late'
  <2> USE DEF Disabled, Operating, Resting, Maintenance, Working
  <2>0. /\ DisabledInv /\ DecisionInv /\ ThreadsOK /\ OnlyMonitorDisables
        /\ lastRecoverableOnlineStatus = Disabled
        /\ worked \in BOOLEAN /\ late \in BOOLEAN
    BY <1>1, TypeParts DEF DeviceInv, DisabledInv, BooleansOK
  <2>1. ASSUME NEW t \in Thread, Save(t, target[t]),
               \/ doing[t] \in {"switch", "end"}
               \/ doing[t] = "write" /\ t \in {"monitor", "action"}
        PROVE  wasDisabled' \/ late'
    <3>1. target[t] \in 0..3 /\ target[t] \in 0..4
      BY <2>0 DEF ThreadsOK
    <3>2. CASE target[t] = Maintenance
      BY <1>1, <2>0, <2>1, <3>1, <3>2, SaveFacts
    <3>3. CASE target[t] # Maintenance /\ doing[t] \in {"switch", "end"}
      <4>1. SawService(t) /\ ~InService
        BY <1>1, <3>3 DEF SawService, InService
      <4>2. t \in overtaken
        BY <2>0, <4>1 DEF DecisionInv
      <4> QED
        BY <1>1, <2>0, <2>1, <3>1, <3>3, <4>2, SaveFacts
    <3>4. CASE target[t] # Maintenance /\ doing[t] = "write"
      <4>1. t = "monitor"
        BY <1>1, <2>1, <3>4 DEF ActionInv
      <4>2. target[t] = Disabled
        BY <2>0, <3>4, <4>1 DEF DisabledInv
      <4> QED
        BY <1>1, <2>0, <2>1, <3>1, <4>2, SaveFacts
    <3> QED
      BY <2>1, <3>2, <3>3, <3>4
  <2>2. CASE \E t \in Thread : Write(t)
    <3>1. PICK t \in Thread : Write(t)
      BY <2>2
    <3>2. CASE RaiseFault(t) \/ ClearFault(t)
      BY <1>1, <3>2, Zenon DEF RaiseFault, ClearFault, historyVars
    <3>3. CASE WriteOnlineStatus(t) /\ t # "main"
      <4>1. /\ Save(t, target[t]) /\ doing[t] \in {"write", "switch"}
            /\ doing[t] \in Steps(t)
        BY <2>0, <3>3 DEF WriteOnlineStatus, ThreadsOK
      <4>2. doing[t] = "write" => t \in {"monitor", "action"}
        BY <3>3, <4>1 DEF Steps, Thread
      <4> QED
        BY <2>1, <4>1, <4>2
    <3> QED
      BY <3>1, <3>2, <3>3 DEF Write
  <2>3. CASE WriteEnd
    BY <2>1, <2>3 DEF WriteEnd, Thread
  <2>4. CASE MonitorRound \/ Leave \/ ActionFails \/ Poll \/ Hours
    <3>1. UNCHANGED wasDisabled
      BY <2>4, Zenon DEF MonitorRound, RoundInInspection, RoundAnswered, RoundRecovers,
         RoundSilent, RoundGivesUp, Leave, LeaveService, RememberAndFail, ActionFails,
         Poll, Hours, EndBusinessHours, StartBusinessHours, LookForFault, SwitchHours,
         PollStep, KeepConfig, historyVars
    <3> QED
      BY <1>1, <3>1, Zenon
  <2>5. CASE Human \/ FailItem \/ EndOrder \/ WindUp \/ LinkChanges \/ HoursChange
             \/ UNCHANGED deviceVars
    <3>1. UNCHANGED wasDisabled
      BY <2>5, Zenon DEF Human, ClickRecover, ResetRecoveryState, ToggleInspection,
         FailItem, EndOrder, WindUp, LinkChanges, HoursChange, KeepConfig, deviceVars,
         historyVars
    <3> QED
      BY <1>1, <3>1, Zenon
  <2> QED
    BY <1>1, <2>2, <2>3, <2>4, <2>5, Zenon DEF DeviceNext, OrderCoroutine, World
<1>2. DeviceInv /\ ActionInv /\ [DeviceNext]_deviceVars =>
        [wasDisabled /\ ~wasDisabled' =>
            WriteOnlineStatus("main") \/ AcceptOrder \/ Restart \/ late']_deviceVars
  BY <1>1, Zenon
<1> QED
  BY DeviceInvariant, ActionInvariant, <1>2, PTL DEF DeviceSpec, DisabledStaysDisabled
=============================================================================
