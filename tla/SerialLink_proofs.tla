-------------------------- MODULE SerialLink_proofs --------------------------
(***************************************************************************)
(* The recovery policy, alone and inside the serial connection, for every  *)
(* value of the thresholds.                                                *)
(*                                                                         *)
(* The history variables count what the properties speak of; the code only *)
(* has its own timers.  RecoveryInv says how the timers follow the history *)
(* in each state, which is what makes the properties inductive.            *)
(*                                                                         *)
(* Every step of the composition is a step of the policy or leaves its     *)
(* variables alone, so what is proved of the policy holds of it too; the   *)
(* connection adds that nobody waits for an attempt that is not there.     *)
(***************************************************************************)
EXTENDS SerialLink, TLAPS

(* In AUTO_RECONNECTING the outage timer is exactly the age of the current *)
(* run of disconnected samples, and the attempt timer that of the last     *)
(* attempt; NORMAL has no outage; in WAIT_MANUAL_RECOVERY the rediscovery  *)
(* timer is no older than the last attempt.                                *)
TimersFollowHistory ==
    /\ upFor = None \/ downFor = None
    /\ reconnectSince # None => upFor # None /\ upFor >= reconnectSince
    /\ state = Normal => downFor = None /\ sinceAttempt = None
    /\ state = AutoReconnecting =>
          /\ disconnectSince = downFor
          /\ lastReconnectAttempt = sinceAttempt
    /\ state = WaitManual /\ sinceAttempt # None =>
          /\ lastBackgroundRediscovery # None
          /\ sinceAttempt >= lastBackgroundRediscovery

RecoveryInv ==
    /\ RecoveryTypeOK
    /\ TimersFollowHistory
    /\ RecoveryNeedsStableLink
    /\ SilentLinkEscalates
    /\ AttemptsSpaced

(* An age stays an age, is never reset by the passing of time, and two     *)
(* ages keep their order.                                                  *)
LEMMA AgedType ==
    ASSUME NEW x \in Age, NEW d \in 1..MaxRound
    PROVE  /\ Aged(x, d) \in Age
           /\ Aged(x, d) = None <=> x = None
BY RecoveryAssumption DEF Aged, Age, None

LEMMA AgedMonotone ==
    ASSUME NEW x \in Age, NEW y \in Age, NEW d \in 1..MaxRound,
           x # None, y # None, x >= y
    PROVE  Aged(x, d) >= Aged(y, d)
BY RecoveryAssumption DEF Aged, Age, None

LEMMA ZeroIsAge == 0 \in Age /\ None \in Age /\ 0 # None
BY RecoveryAssumption DEF Age, None

(* What the initial state and the two resets establish.                    *)
LEMMA InitInv == RecoveryInit => RecoveryInv
<1> SUFFICES ASSUME RecoveryInit PROVE RecoveryInv
  OBVIOUS
<1>1. RecoveryTypeOK
  BY ZeroIsAge DEF RecoveryInit, RecoveryTypeOK, Decide, Decision, Strategy,
     CommunicationState
<1>2. TimersFollowHistory
  BY DEF RecoveryInit, TimersFollowHistory, Normal, AutoReconnecting,
     WaitManual
<1>3. RecoveryNeedsStableLink /\ SilentLinkEscalates /\ AttemptsSpaced
  BY DEF RecoveryInit, RecoveryNeedsStableLink, SilentLinkEscalates,
     AttemptsSpaced, Decide
<1> QED
  BY <1>1, <1>2, <1>3 DEF RecoveryInv

LEMMA ForgetInv ==
    ASSUME ForgetTimers, state' \in CommunicationState
    PROVE  RecoveryInv'
<1>1. RecoveryTypeOK'
  BY ZeroIsAge DEF ForgetTimers, RecoveryTypeOK, Decide, Decision, Strategy
<1>2. TimersFollowHistory'
  BY DEF ForgetTimers, TimersFollowHistory
<1>3. RecoveryNeedsStableLink' /\ SilentLinkEscalates' /\ AttemptsSpaced'
  BY DEF ForgetTimers, RecoveryNeedsStableLink, SilentLinkEscalates,
     AttemptsSpaced, Decide
<1> QED
  BY <1>1, <1>2, <1>3 DEF RecoveryInv

(* A disconnected sample: the four cases of onDisconnected.                *)
LEMMA DisconnectedInv ==
    ASSUME RecoveryInv, NEW d \in 1..MaxRound, OnDisconnected(d)
    PROVE  RecoveryInv'
<1> DEFINE down == IF downFor = None THEN 0 ELSE Aged(downFor, d)
<1>1. /\ reconnectSince' = None
      /\ upFor' = None
      /\ downFor' = down
      /\ sinceAttempt' = IF decision'.attempt # NoAttempt THEN 0
                         ELSE Aged(sinceAttempt, d)
      /\ attemptGap' = IF decision'.attempt # NoAttempt
                       THEN Aged(sinceAttempt, d) ELSE attemptGap
  BY DEF OnDisconnected, RecordDown
<1>2. /\ Aged(lastBackgroundRediscovery, d) \in Age
      /\ Aged(lastReconnectAttempt, d) \in Age
      /\ Aged(disconnectSince, d) \in Age
      /\ Aged(sinceAttempt, d) \in Age
      /\ down \in Age /\ down # None
      /\ OutageAge(d) \in Age
  BY AgedType, ZeroIsAge DEF RecoveryInv, RecoveryTypeOK, OutageAge
<1>3. CASE StartOutage(d)
  <2>1. decision' = Decide(Fast, FALSE, FALSE) /\ state = Normal
        /\ state' = AutoReconnecting /\ disconnectSince' = 0
        /\ lastReconnectAttempt' = 0
        /\ lastBackgroundRediscovery' = Aged(lastBackgroundRediscovery, d)
    BY <1>3 DEF StartOutage
  <2>2. decision'.attempt = Fast /\ decision'.autoRecovered = FALSE
        /\ decision' \in Decision /\ Fast # NoAttempt /\ Fast # Full
    BY <2>1 DEF Decide, Decision, Strategy, Fast, NoAttempt, Full
  <2>3. downFor = None /\ sinceAttempt = None
    BY <2>1 DEF RecoveryInv, TimersFollowHistory
  <2>4. sinceAttempt' = 0 /\ attemptGap' = None /\ downFor' = 0
    BY <1>1, <2>2, <2>3 DEF Aged
  <2>5. RecoveryTypeOK'
    BY <1>1, <1>2, <2>1, <2>2, <2>4, ZeroIsAge
       DEF RecoveryTypeOK, CommunicationState
  <2>6. TimersFollowHistory'
    BY <1>1, <2>1, <2>4 DEF TimersFollowHistory, Normal, AutoReconnecting,
       WaitManual
  <2>7. RecoveryNeedsStableLink' /\ AttemptsSpaced'
    BY <2>2, <2>4 DEF RecoveryNeedsStableLink, AttemptsSpaced
  <2>8. SilentLinkEscalates'
    BY <2>4, RecoveryAssumption DEF SilentLinkEscalates
  <2> QED
    BY <2>5, <2>6, <2>7, <2>8 DEF RecoveryInv
<1>4. CASE GiveUp(d)
  <2>1. decision' = Decide(NoAttempt, FALSE, TRUE) /\ state' = WaitManual
        /\ disconnectSince' = OutageAge(d) /\ lastReconnectAttempt' = None
        /\ lastBackgroundRediscovery' = 0
    BY <1>4 DEF GiveUp
  <2>2. decision'.attempt = NoAttempt /\ decision'.autoRecovered = FALSE
        /\ decision' \in Decision /\ NoAttempt # Full /\ NoAttempt # Fast
    BY <2>1 DEF Decide, Decision, Strategy, Fast, NoAttempt, Full
  <2>3. sinceAttempt' = Aged(sinceAttempt, d) /\ attemptGap' = attemptGap
    BY <1>1, <2>2
  <2>4. RecoveryTypeOK'
    BY <1>1, <1>2, <2>1, <2>2, <2>3, ZeroIsAge
       DEF RecoveryInv, RecoveryTypeOK, CommunicationState
  <2>5. sinceAttempt' # None => sinceAttempt' >= 0
    BY <1>2, <2>3 DEF Age, None
  <2>6. TimersFollowHistory'
    BY <1>1, <2>1, <2>5, ZeroIsAge DEF TimersFollowHistory, Normal,
       AutoReconnecting, WaitManual
  <2>7. RecoveryNeedsStableLink' /\ SilentLinkEscalates' /\ AttemptsSpaced'
    BY <2>1, <2>2 DEF RecoveryNeedsStableLink, SilentLinkEscalates,
       AttemptsSpaced, WaitManual, AutoReconnecting
  <2> QED
    BY <2>4, <2>6, <2>7 DEF RecoveryInv
<1>5. CASE RetryFast(d)
  <2>1. state = AutoReconnecting /\ state' = AutoReconnecting
        /\ disconnectSince' = OutageAge(d)
        /\ OutageAge(d) < AutoReconnectTimeout
        /\ lastBackgroundRediscovery' = Aged(lastBackgroundRediscovery, d)
    BY <1>5 DEF RetryFast
  <2>2. disconnectSince = downFor /\ lastReconnectAttempt = sinceAttempt
    BY <2>1 DEF RecoveryInv, TimersFollowHistory
  <2>3. downFor' = OutageAge(d)
    BY <1>1, <2>2 DEF OutageAge
  <2>4. SilentLinkEscalates'
    BY <2>1, <2>3 DEF SilentLinkEscalates
  <2>5. CASE Due(lastReconnectAttempt, d, ReconnectAttemptInterval)
    <3>1. lastReconnectAttempt' = 0 /\ decision' = Decide(Fast, FALSE, FALSE)
      BY <1>5, <2>5 DEF RetryFast
    <3>2. decision'.attempt = Fast /\ decision'.autoRecovered = FALSE
          /\ decision' \in Decision /\ Fast # NoAttempt /\ Fast # Full
      BY <3>1 DEF Decide, Decision, Strategy, Fast, NoAttempt, Full
    <3>3. sinceAttempt' = 0 /\ attemptGap' = Aged(sinceAttempt, d)
      BY <1>1, <3>2
    <3>4. attemptGap' # None => attemptGap' >= ReconnectAttemptInterval
      BY <2>2, <2>5, <3>3 DEF Due, Aged
    <3>5. RecoveryTypeOK'
      BY <1>1, <1>2, <2>1, <3>1, <3>2, <3>3, ZeroIsAge
         DEF RecoveryTypeOK, CommunicationState
    <3>6. TimersFollowHistory'
      BY <1>1, <2>1, <2>3, <3>1, <3>3 DEF TimersFollowHistory, Normal,
         AutoReconnecting, WaitManual
    <3>7. RecoveryNeedsStableLink' /\ AttemptsSpaced'
      BY <3>2, <3>4 DEF RecoveryNeedsStableLink, AttemptsSpaced
    <3> QED
      BY <2>4, <3>5, <3>6, <3>7 DEF RecoveryInv
  <2>6. CASE ~Due(lastReconnectAttempt, d, ReconnectAttemptInterval)
    <3>1. lastReconnectAttempt' = Aged(lastReconnectAttempt, d)
          /\ decision' = Decide(NoAttempt, FALSE, FALSE)
      BY <1>5, <2>6 DEF RetryFast
    <3>2. decision'.attempt = NoAttempt /\ decision'.autoRecovered = FALSE
          /\ decision' \in Decision /\ NoAttempt # Full /\ NoAttempt # Fast
      BY <3>1 DEF Decide, Decision, Strategy, Fast, NoAttempt, Full
    <3>3. sinceAttempt' = Aged(sinceAttempt, d) /\ attemptGap' = attemptGap
      BY <1>1, <3>2
    <3>5. RecoveryTypeOK'
      BY <1>1, <1>2, <2>1, <3>1, <3>2, <3>3, ZeroIsAge
         DEF RecoveryInv, RecoveryTypeOK, CommunicationState
    <3>6. TimersFollowHistory'
      BY <1>1, <2>1, <2>2, <2>3, <3>1, <3>3 DEF TimersFollowHistory, Normal,
         AutoReconnecting, WaitManual
    <3>7. RecoveryNeedsStableLink' /\ AttemptsSpaced'
      BY <3>2 DEF RecoveryNeedsStableLink, AttemptsSpaced
    <3> QED
      BY <2>4, <3>5, <3>6, <3>7 DEF RecoveryInv
  <2> QED
    BY <2>5, <2>6
<1>6. CASE Rediscover(d)
  <2>1. state = WaitManual /\ state' = WaitManual
        /\ disconnectSince' = Aged(disconnectSince, d)
        /\ lastReconnectAttempt' = Aged(lastReconnectAttempt, d)
    BY <1>6 DEF Rediscover
  <2>2. sinceAttempt # None =>
           /\ lastBackgroundRediscovery # None
           /\ sinceAttempt >= lastBackgroundRediscovery
    BY <2>1 DEF RecoveryInv, TimersFollowHistory
  <2>3. Aged(sinceAttempt, d) # None =>
           /\ sinceAttempt # None
           /\ lastBackgroundRediscovery # None
           /\ Aged(sinceAttempt, d) >= Aged(lastBackgroundRediscovery, d)
    BY <2>2, AgedMonotone, AgedType DEF RecoveryInv, RecoveryTypeOK
  <2>4. SilentLinkEscalates'
    BY <2>1 DEF SilentLinkEscalates, WaitManual, AutoReconnecting
  <2>5. CASE Due(lastBackgroundRediscovery, d, BackgroundRediscoveryInterval)
    <3>1. lastBackgroundRediscovery' = 0
          /\ decision' = Decide(Full, FALSE, FALSE)
      BY <1>6, <2>5 DEF Rediscover
    <3>2. decision'.attempt = Full /\ decision'.autoRecovered = FALSE
          /\ decision' \in Decision /\ Full # NoAttempt /\ Fast # Full
      BY <3>1 DEF Decide, Decision, Strategy, Fast, NoAttempt, Full
    <3>3. sinceAttempt' = 0 /\ attemptGap' = Aged(sinceAttempt, d)
      BY <1>1, <3>2
    <3>4. attemptGap' # None => attemptGap' >= BackgroundRediscoveryInterval
      <4> SUFFICES ASSUME attemptGap' # None
                   PROVE  attemptGap' >= BackgroundRediscoveryInterval
        OBVIOUS
      <4>1. Aged(lastBackgroundRediscovery, d) >= BackgroundRediscoveryInterval
        BY <2>3, <2>5, <3>3 DEF Due
      <4>2. attemptGap' >= Aged(lastBackgroundRediscovery, d)
        BY <2>3, <3>3
      <4>3. attemptGap' \in Int /\ Aged(lastBackgroundRediscovery, d) \in Int
            /\ BackgroundRediscoveryInterval \in Int
        BY <1>2, <3>3, RecoveryAssumption DEF Age, None
      <4> QED
        BY <4>1, <4>2, <4>3
    <3>5. RecoveryTypeOK'
      BY <1>1, <1>2, <2>1, <3>1, <3>2, <3>3, ZeroIsAge
         DEF RecoveryTypeOK, CommunicationState
    <3>6. TimersFollowHistory'
      <4>1. sinceAttempt' >= lastBackgroundRediscovery'
        BY <3>1, <3>3
      <4>2. lastBackgroundRediscovery' # None
        BY <3>1, ZeroIsAge
      <4> QED
        BY <1>1, <2>1, <4>1, <4>2 DEF TimersFollowHistory, Normal,
           AutoReconnecting, WaitManual
    <3>7. RecoveryNeedsStableLink' /\ AttemptsSpaced'
      BY <3>2, <3>4 DEF RecoveryNeedsStableLink, AttemptsSpaced
    <3> QED
      BY <2>4, <3>5, <3>6, <3>7 DEF RecoveryInv
  <2>6. CASE ~Due(lastBackgroundRediscovery, d, BackgroundRediscoveryInterval)
    <3>1. lastBackgroundRediscovery' = Aged(lastBackgroundRediscovery, d)
          /\ decision' = Decide(NoAttempt, FALSE, FALSE)
      BY <1>6, <2>6 DEF Rediscover
    <3>2. decision'.attempt = NoAttempt /\ decision'.autoRecovered = FALSE
          /\ decision' \in Decision /\ NoAttempt # Full /\ NoAttempt # Fast
      BY <3>1 DEF Decide, Decision, Strategy, Fast, NoAttempt, Full
    <3>3. sinceAttempt' = Aged(sinceAttempt, d) /\ attemptGap' = attemptGap
      BY <1>1, <3>2
    <3>5. RecoveryTypeOK'
      BY <1>1, <1>2, <2>1, <3>1, <3>2, <3>3, ZeroIsAge
         DEF RecoveryInv, RecoveryTypeOK, CommunicationState
    <3>6. TimersFollowHistory'
      BY <1>1, <2>1, <2>3, <3>1, <3>3, AgedType DEF TimersFollowHistory,
         Normal, AutoReconnecting, WaitManual, RecoveryInv, RecoveryTypeOK
    <3>7. RecoveryNeedsStableLink' /\ AttemptsSpaced'
      BY <3>2 DEF RecoveryNeedsStableLink, AttemptsSpaced
    <3> QED
      BY <2>4, <3>5, <3>6, <3>7 DEF RecoveryInv
  <2> QED
    BY <2>5, <2>6
<1> QED
  BY <1>3, <1>4, <1>5, <1>6 DEF OnDisconnected

(* A connected sample: the four cases of onConnected.                      *)
LEMMA ConnectedInv ==
    ASSUME RecoveryInv, NEW d \in 1..MaxRound, OnConnected(d)
    PROVE  RecoveryInv'
<1>1. /\ disconnectSince' = None
      /\ lastReconnectAttempt' = None
      /\ lastBackgroundRediscovery' = Aged(lastBackgroundRediscovery, d)
      /\ upFor' = IF upFor = None THEN 0 ELSE Aged(upFor, d)
      /\ downFor' = None
      /\ sinceAttempt' = None
      /\ attemptGap' = None
  BY DEF OnConnected, RecordUp
<1>2. /\ Aged(lastBackgroundRediscovery, d) \in Age
      /\ Aged(reconnectSince, d) \in Age
      /\ upFor' \in Age /\ upFor' # None /\ upFor' >= 0
  BY <1>1, AgedType, ZeroIsAge DEF RecoveryInv, RecoveryTypeOK, Age, None
<1>3. reconnectSince # None => upFor' >= Aged(reconnectSince, d)
  BY <1>1, AgedMonotone DEF RecoveryInv, RecoveryTypeOK, TimersFollowHistory
<1>4. SilentLinkEscalates' /\ AttemptsSpaced'
  BY <1>1 DEF SilentLinkEscalates, AttemptsSpaced
<1>5. /\ state' \in CommunicationState
      /\ decision' \in Decision
      /\ reconnectSince' \in Age
      /\ reconnectSince' # None => upFor' >= reconnectSince'
  <2>1. CASE ConnectedElsewhere
    BY <2>1, ZeroIsAge DEF ConnectedElsewhere, RecoveryInv, RecoveryTypeOK,
       Decide, Decision, Strategy
  <2>2. CASE StartStableObservation
    BY <2>2, <1>2, ZeroIsAge DEF StartStableObservation, RecoveryInv,
       RecoveryTypeOK, Decide, Decision, Strategy
  <2>3. CASE KeepObserving(d)
    BY <2>3, <1>2, <1>3 DEF KeepObserving, RecoveryInv, RecoveryTypeOK,
       Decide, Decision, Strategy
  <2>4. CASE AutoRecover(d)
    BY <2>4, ZeroIsAge DEF AutoRecover, CommunicationState, Decide, Decision,
       Strategy
  <2> QED
    BY <2>1, <2>2, <2>3, <2>4 DEF OnConnected
<1>6. RecoveryTypeOK'
  BY <1>1, <1>2, <1>5, ZeroIsAge DEF RecoveryTypeOK
<1>7. TimersFollowHistory'
  BY <1>1, <1>2, <1>5 DEF TimersFollowHistory
<1>8. RecoveryNeedsStableLink'
  <2> SUFFICES ASSUME decision'.autoRecovered
               PROVE  upFor' >= ReconnectStableDelay
    BY DEF RecoveryNeedsStableLink
  <2>1. AutoRecover(d)
    BY DEF OnConnected, ConnectedElsewhere, StartStableObservation,
       KeepObserving, Decide
  <2>2. upFor' >= Aged(reconnectSince, d)
        /\ Aged(reconnectSince, d) >= ReconnectStableDelay
    BY <2>1, <1>3 DEF AutoRecover
  <2>3. upFor' \in Int /\ Aged(reconnectSince, d) \in Int
        /\ ReconnectStableDelay \in Int
    BY <1>2, RecoveryAssumption DEF Age, None
  <2> QED
    BY <2>2, <2>3
<1> QED
  BY <1>4, <1>6, <1>7, <1>8 DEF RecoveryInv

LEMMA NextInv == RecoveryInv /\ [RecoveryNext]_recoveryVars => RecoveryInv'
<1> SUFFICES ASSUME RecoveryInv, [RecoveryNext]_recoveryVars
             PROVE  RecoveryInv'
  OBVIOUS
<1>1. CASE Sample
  BY <1>1, ConnectedInv, DisconnectedInv DEF Sample
<1>2. CASE ResetToNormal
  BY <1>2, ForgetInv DEF ResetToNormal, CommunicationState
<1>3. CASE MarkDisconnectedAtStartup
  BY <1>3, ForgetInv DEF MarkDisconnectedAtStartup, CommunicationState
<1>4. CASE UNCHANGED recoveryVars
  BY <1>4 DEF recoveryVars, policyVars, historyVars, RecoveryInv,
     RecoveryTypeOK, TimersFollowHistory, RecoveryNeedsStableLink,
     SilentLinkEscalates, AttemptsSpaced
<1> QED
  BY <1>1, <1>2, <1>3, <1>4 DEF RecoveryNext

LEMMA RecoverySafety == RecoverySpec => []RecoveryInv
  BY InitInv, NextInv, PTL DEF RecoverySpec

(* Type correctness of the policy.                                         *)
THEOREM RecoveryTypeCorrect == RecoverySpec => []RecoveryTypeOK
<1>1. RecoveryInv => RecoveryTypeOK
  BY DEF RecoveryInv
<1> QED
  BY <1>1, RecoverySafety, PTL

(* The policy never recovers on a link that was not stable for the whole   *)
(* delay, whatever the pattern of drops.                                   *)
THEOREM StableLinkRequired == RecoverySpec => []RecoveryNeedsStableLink
<1>1. RecoveryInv => RecoveryNeedsStableLink
  BY DEF RecoveryInv
<1> QED
  BY <1>1, RecoverySafety, PTL

(* A silent link is never attempted fast beyond the timeout.               *)
THEOREM SilenceEscalates == RecoverySpec => []SilentLinkEscalates
<1>1. RecoveryInv => SilentLinkEscalates
  BY DEF RecoveryInv
<1> QED
  BY <1>1, RecoverySafety, PTL

(* The attempts of one outage respect their intervals.                     *)
THEOREM AttemptsAreSpaced == RecoverySpec => []AttemptsSpaced
<1>1. RecoveryInv => AttemptsSpaced
  BY DEF RecoveryInv
<1> QED
  BY <1>1, RecoverySafety, PTL

(* Only a reset leaves WAIT_MANUAL_RECOVERY.                               *)
THEOREM OnlyResetRecovers == RecoverySpec => OnlyResetLeavesWaitManual
<1>1. [RecoveryNext]_recoveryVars =>
         [state = WaitManual /\ state' # WaitManual => ResetToNormal]_recoveryVars
  BY DEF RecoveryNext, Sample, OnConnected, ConnectedElsewhere,
     StartStableObservation, KeepObserving, AutoRecover, OnDisconnected,
     StartOutage, GiveUp, RetryFast, Rediscover, ResetToNormal,
     MarkDisconnectedAtStartup, Normal, AutoReconnecting, WaitManual
<1> QED
  BY <1>1, PTL DEF RecoverySpec, OnlyResetLeavesWaitManual

-----------------------------------------------------------------------------
(* The timers implement the promise of CommunicationState.                 *)

(* What the monitor loop is told, as CommunicationState names it.          *)
Told == IF decision.autoRecovered THEN "AUTO_RECOVERED"
        ELSE IF decision.enteredWait THEN "ENTERED_WAIT" ELSE "NOTHING"

LEMMA ToldOfDecision ==
  ASSUME NEW attempt, decision' = Decide(attempt, FALSE, FALSE)
  PROVE  Told' = "NOTHING"
  BY DEF Told, Decide

LEMMA InitRefines == RecoveryInit => Comm!CommunicationInit
<1> SUFFICES ASSUME RecoveryInit PROVE Comm!CommunicationInit
  OBVIOUS
<1>1. Told = "NOTHING"
  BY DEF RecoveryInit, Decide, Told
<1>2. state = "NORMAL" /\ (downFor # None) = FALSE
  BY DEF RecoveryInit, Normal
<1> QED
  BY <1>1, <1>2 DEF Comm!CommunicationInit, Comm!Normal, Comm!Nothing, Told

(* A silent sample is a silence heard, or one given up.                    *)
LEMMA DisconnectedRefines ==
  ASSUME RecoveryInv, NEW d \in 1..MaxRound, OnDisconnected(d)
  PROVE  Comm!HearSilence \/ Comm!GiveUp
<1>1. downFor' # None
  BY AgedType, ZeroIsAge DEF OnDisconnected, RecordDown, RecoveryInv,
     RecoveryTypeOK
<1>2. CASE StartOutage(d)
  <2>1. Told' = "NOTHING"
    BY <1>2, ToldOfDecision DEF StartOutage
  <2> QED
    BY <1>1, <1>2, <2>1 DEF StartOutage, Comm!HearSilence, Comm!Normal,
       Comm!AutoReconnecting, Comm!Nothing, Normal, AutoReconnecting, Told
<1>3. CASE GiveUp(d)
  <2>1. Told' = "ENTERED_WAIT"
    BY <1>3 DEF GiveUp, Told, Decide
  <2>2. downFor # None
    BY <1>3, RecoveryAssumption DEF GiveUp, OutageAge, RecoveryInv,
       TimersFollowHistory, None
  <2> QED
    BY <1>1, <1>3, <2>1, <2>2 DEF GiveUp, Comm!GiveUp, Comm!AutoReconnecting,
       Comm!WaitManual, Comm!EnteredWait, AutoReconnecting, WaitManual, Told
<1>4. CASE RetryFast(d) \/ Rediscover(d)
  <2>1. Told' = "NOTHING"
    BY <1>4, ToldOfDecision DEF RetryFast, Rediscover
  <2>2. state # Normal /\ state' = state
    BY <1>4 DEF RetryFast, Rediscover, Normal, AutoReconnecting, WaitManual
  <2> QED
    BY <1>1, <2>1, <2>2 DEF Comm!HearSilence, Comm!Normal, Comm!Nothing, Normal,
       Told
<1> QED
  BY <1>2, <1>3, <1>4 DEF OnDisconnected

(* An answered sample is an answer heard, or a link trusted again.         *)
LEMMA ConnectedRefines ==
  ASSUME RecoveryInv, NEW d \in 1..MaxRound, OnConnected(d)
  PROVE  Comm!HearAnswer \/ Comm!AutoRecover
<1>1. downFor' = None
  BY DEF OnConnected, RecordUp
<1>2. CASE ConnectedElsewhere \/ StartStableObservation \/ KeepObserving(d)
  <2>1. Told' = "NOTHING"
    BY <1>2, ToldOfDecision DEF ConnectedElsewhere, StartStableObservation,
       KeepObserving
  <2>2. state' = state
    BY <1>2 DEF ConnectedElsewhere, StartStableObservation, KeepObserving
  <2> QED
    BY <1>1, <2>1, <2>2 DEF Comm!HearAnswer, Comm!Nothing, Told
<1>3. CASE AutoRecover(d)
  <2>1. Told' = "AUTO_RECOVERED"
    BY <1>3 DEF AutoRecover, Told, Decide
  <2>2. downFor = None
    BY <1>3 DEF AutoRecover, RecoveryInv, TimersFollowHistory
  <2> QED
    BY <1>1, <1>3, <2>1, <2>2 DEF AutoRecover, Comm!AutoRecover,
       Comm!AutoReconnecting, Comm!Normal, Comm!Recovered, AutoReconnecting,
       Normal, Told
<1> QED
  BY <1>2, <1>3 DEF OnConnected

LEMMA ResetRefines ==
  ASSUME ResetToNormal \/ MarkDisconnectedAtStartup
  PROVE  Comm!ResetToNormal \/ Comm!MarkDisconnectedAtStartup
<1>1. downFor' = None /\ Told' = "NOTHING"
  BY ToldOfDecision DEF ResetToNormal, MarkDisconnectedAtStartup, ForgetTimers
<1> QED
  BY <1>1 DEF ResetToNormal, MarkDisconnectedAtStartup, Comm!ResetToNormal,
     Comm!MarkDisconnectedAtStartup, Comm!Normal, Comm!WaitManual, Comm!Nothing,
     Normal, WaitManual, Told

(* Every behaviour of the timed policy is one of the clock-free policy.    *)
THEOREM RefinesCommunication == RecoverySpec => Comm!CommunicationSpec
<1>1. ASSUME RecoveryInv, [RecoveryNext]_recoveryVars
      PROVE  [Comm!CommunicationNext]_(Comm!commVars)
  <2>1. CASE Sample
    BY <1>1, <2>1, ConnectedRefines, DisconnectedRefines
       DEF Sample, Comm!CommunicationNext
  <2>2. CASE ResetToNormal \/ MarkDisconnectedAtStartup
    BY <2>2, ResetRefines DEF Comm!CommunicationNext
  <2>3. CASE UNCHANGED recoveryVars
    BY <2>3 DEF recoveryVars, policyVars, historyVars, Comm!commVars
  <2> QED
    BY <1>1, <2>1, <2>2, <2>3 DEF RecoveryNext
<1> QED
  BY <1>1, InitRefines, RecoverySafety, PTL
     DEF RecoverySpec, Comm!CommunicationSpec

-----------------------------------------------------------------------------
(* The composition.                                                        *)

(* The part of LinkTypeOK that is not the policy's.                        *)
ConnectionTypeOK ==
    /\ board \in {Silent, Here, Elsewhere}
    /\ master \in BOOLEAN
    /\ inFlight \in Strategy
    /\ waiting \subseteq Requester
    /\ waiting # {} => inFlight # NoAttempt
    /\ sample \in {"none", "up", "down"}
    /\ inspection \in BOOLEAN

(* Every step of the link, whoever takes it, is one round of the policy or *)
(* a reset of it, or none of its business.                                 *)
LEMMA LinkStepIsRecoveryStep ==
    ASSUME [LinkNext]_linkVars
    PROVE  [RecoveryNext]_recoveryVars
<1>1. CASE Round
  <2>1. PICK d \in 1..MaxRound : RoundInInspection \/ RoundUp(d) \/ RoundDown(d)
    BY <1>1 DEF Round
  <2>2. ResetToNormal \/ OnConnected(d) \/ OnDisconnected(d)
    BY <2>1 DEF RoundInInspection, RoundUp, RoundDown
  <2> QED
    BY <2>2 DEF RecoveryNext, Sample
<1>2. CASE ResetByHuman
  BY <1>2 DEF ResetByHuman, RecoveryNext
<1>3. CASE Attempt \/ ReadFails \/ Probe
  BY <1>3 DEF Attempt, DropOldMaster, FinishAttempt, ReadFails, Probe
<1>4. CASE Patrol \/ EnsureReadyForDelivery
  BY <1>4 DEF Patrol, EnsureReadyForDelivery
<1>5. CASE ToggleInspection \/ BoardChanges \/ UNCHANGED linkVars
  BY <1>5 DEF ToggleInspection, BoardChanges, linkVars
<1> QED
  BY <1>1, <1>2, <1>3, <1>4, <1>5 DEF LinkNext, Monitor

(* The composition uses the policy as it is: whatever the connection, the  *)
(* patrol, a delivery or the board do, the policy sees samples and resets. *)
THEOREM LinkImplementsRecovery == LinkSpec => RecoverySpec
<1>1. LinkInit => RecoveryInit
  BY DEF LinkInit
<1> QED
  BY <1>1, LinkStepIsRecoveryStep, PTL DEF LinkSpec, RecoverySpec

-----------------------------------------------------------------------------
(* A request joins the attempt in flight or starts one.                    *)
LEMMA ConnectModbusType ==
    ASSUME ConnectionTypeOK, NEW who \in Requester,
           NEW strategy \in Strategy \ {NoAttempt},
           ConnectModbus(who, strategy)
    PROVE  /\ master' \in BOOLEAN
           /\ inFlight' \in Strategy
           /\ waiting' \subseteq Requester
           /\ waiting' # {} => inFlight' # NoAttempt
<1>1. CASE ConnectStatus
  BY <1>1 DEF ConnectModbus, ConnectionTypeOK, connectionVars
<1>2. CASE ~ConnectStatus
  BY <1>2 DEF ConnectModbus, ConnectionTypeOK
<1> QED
  BY <1>1, <1>2

LEMMA ConnectionInit == LinkInit => ConnectionTypeOK
BY DEF LinkInit, ConnectionTypeOK, Strategy

(* What the policy asks for is a strategy.                                 *)
LEMMA RoundKeepsType ==
    ASSUME ConnectionTypeOK, RecoveryTypeOK', Round
    PROVE  ConnectionTypeOK'
<1>1. PICK d \in 1..MaxRound : RoundInInspection \/ RoundUp(d) \/ RoundDown(d)
  BY DEF Round
<1>2. sample' = "none" /\ board' = board /\ inspection' = inspection
  BY DEF Round
<1>3. decision'.attempt \in Strategy
  BY DEF RecoveryTypeOK, Decision
<1>4. CASE UNCHANGED connectionVars
  BY <1>2, <1>4 DEF ConnectionTypeOK, connectionVars
<1>5. CASE /\ decision'.attempt # NoAttempt
           /\ ConnectModbus("monitor", decision'.attempt)
  <2>1. "monitor" \in Requester /\ decision'.attempt \in Strategy \ {NoAttempt}
    BY <1>3, <1>5 DEF Requester
  <2>2. /\ master' \in BOOLEAN
        /\ inFlight' \in Strategy
        /\ waiting' \subseteq Requester
        /\ waiting' # {} => inFlight' # NoAttempt
    BY <1>5, <2>1, ConnectModbusType
  <2> QED
    BY <1>2, <2>2 DEF ConnectionTypeOK
<1> QED
  BY <1>1, <1>4, <1>5 DEF RoundInInspection, RoundUp, RoundDown

LEMMA ConnectionStep ==
    ASSUME ConnectionTypeOK, RecoveryTypeOK', [LinkNext]_linkVars
    PROVE  ConnectionTypeOK'
<1>1. CASE Round
  BY <1>1, RoundKeepsType
<1>2. CASE ResetByHuman \/ ToggleInspection \/ BoardChanges \/ Probe
  BY <1>2 DEF ResetByHuman, ToggleInspection, BoardChanges, Probe,
     connectionVars, ConnectionTypeOK
<1>3. CASE Attempt \/ ReadFails
  BY <1>3 DEF Attempt, DropOldMaster, FinishAttempt, ReadFails,
     ConnectionTypeOK, Strategy
<1>4. CASE Patrol \/ EnsureReadyForDelivery
  <2>1. PICK who \in Requester : ConnectModbus(who, Full)
    BY <1>4 DEF Patrol, EnsureReadyForDelivery, Requester
  <2>2. Full \in Strategy \ {NoAttempt}
    BY DEF Full, NoAttempt, Strategy
  <2>3. /\ master' \in BOOLEAN
        /\ inFlight' \in Strategy
        /\ waiting' \subseteq Requester
        /\ waiting' # {} => inFlight' # NoAttempt
    BY <2>1, <2>2, ConnectModbusType
  <2>4. UNCHANGED <<board, sample, inspection>>
    BY <1>4 DEF Patrol, EnsureReadyForDelivery
  <2> QED
    BY <2>3, <2>4 DEF ConnectionTypeOK
<1>5. CASE UNCHANGED linkVars
  BY <1>5 DEF linkVars, connectionVars, ConnectionTypeOK
<1> QED
  BY <1>1, <1>2, <1>3, <1>4, <1>5 DEF LinkNext, Monitor

(* For all thresholds the variables of the composition keep their types,   *)
(* and whoever waits for a connection waits for an attempt in flight.      *)
THEOREM LinkTypeCorrect == LinkSpec => []LinkTypeOK
<1>1. LinkSpec => []RecoveryTypeOK
  BY LinkImplementsRecovery, RecoveryTypeCorrect, PTL
<1>2. ConnectionTypeOK /\ RecoveryTypeOK => LinkTypeOK
  BY DEF ConnectionTypeOK, LinkTypeOK
<1> QED
  BY <1>1, <1>2, ConnectionInit, ConnectionStep, PTL DEF LinkSpec

-----------------------------------------------------------------------------
(* For all thresholds, boards and requests: a recovery of the composed     *)
(* system follows an unbroken run of answers of the whole delay.           *)
THEOREM LinkStableLinkRequired == LinkSpec => []RecoveryNeedsStableLink
BY LinkImplementsRecovery, StableLinkRequired, PTL

(* ... no outage stays in AUTO_RECONNECTING past its timeout.              *)
THEOREM LinkSilenceEscalates == LinkSpec => []SilentLinkEscalates
BY LinkImplementsRecovery, SilenceEscalates, PTL

(* ... the attempts asked for keep the interval of their strategy.         *)
THEOREM LinkAttemptsAreSpaced == LinkSpec => []AttemptsSpaced
BY LinkImplementsRecovery, AttemptsAreSpaced, PTL

(* ... and only a reset leaves WAIT_MANUAL_RECOVERY.                       *)
THEOREM LinkOnlyResetRecovers == LinkSpec => OnlyResetLeavesWaitManual
BY LinkImplementsRecovery, OnlyResetRecovers, PTL
=============================================================================
