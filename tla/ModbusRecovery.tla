--------------------------- MODULE ModbusRecovery ---------------------------
(***************************************************************************)
(* The recovery policy of the serial (Modbus) link: ModbusRecoveryPolicy.  *)
(* The monitor loop samples the link once per round and tells the policy   *)
(* OnConnected or OnDisconnected; the policy answers with a decision.      *)
(*                                                                         *)
(* The code keeps absolute timestamps and only ever compares their age     *)
(* with a threshold.  Here every timestamp is its age, None when the code  *)
(* holds null or 0, and saturates at Horizon, which is no smaller than any *)
(* threshold, so that every comparison has the same outcome.               *)
(***************************************************************************)
EXTENDS Integers

CONSTANTS
    AutoReconnectTimeout,           \* AUTO_RECONNECTING gives up after this
    ReconnectStableDelay,           \* a link is trusted again after this
    ReconnectAttemptInterval,       \* between two fast attempts
    BackgroundRediscoveryInterval,  \* between two full rediscoveries
    MaxRound,                       \* longest time between two samples
    Horizon                         \* ages saturate here

ASSUME RecoveryAssumption ==
    /\ AutoReconnectTimeout \in Nat \ {0}
    /\ ReconnectStableDelay \in Nat \ {0}
    /\ ReconnectAttemptInterval \in Nat \ {0}
    /\ BackgroundRediscoveryInterval \in Nat \ {0}
    /\ MaxRound \in Nat \ {0}
    /\ Horizon \in Nat
    /\ AutoReconnectTimeout =< Horizon
    /\ ReconnectStableDelay =< Horizon
    /\ ReconnectAttemptInterval =< Horizon
    /\ BackgroundRediscoveryInterval =< Horizon

VARIABLES
    state,                      \* ModbusCommunicationState
    disconnectSince,            \* age of disconnectSinceMs
    reconnectSince,             \* age of reconnectSinceMs
    lastReconnectAttempt,       \* age of lastReconnectAttemptMs
    lastBackgroundRediscovery,  \* age of lastBackgroundRediscoveryMs
    decision,                   \* what the last call returned
    upFor,          \* history: age of the first sample of the current run of
                    \* connected samples since the last reset
    downFor,        \* history: the same for disconnected samples
    sinceAttempt,   \* history: age of the last attempt of this outage
    attemptGap      \* history: age of the previous attempt at the last one

policyVars == <<state, disconnectSince, reconnectSince, lastReconnectAttempt,
                lastBackgroundRediscovery, decision>>
historyVars == <<upFor, downFor, sinceAttempt, attemptGap>>
recoveryVars == <<policyVars, historyVars>>

None == -1
Age == {None} \cup 0..Horizon

Normal == "NORMAL"
AutoReconnecting == "AUTO_RECONNECTING"
WaitManual == "WAIT_MANUAL_RECOVERY"
CommunicationState == {Normal, AutoReconnecting, WaitManual}

NoAttempt == "NO_ATTEMPT"
Fast == "FAST_RECOVERY"
Full == "FULL_REDISCOVERY"
Strategy == {NoAttempt, Fast, Full}

Decision == [attempt : Strategy, autoRecovered : BOOLEAN, enteredWait : BOOLEAN]

Decide(attempt, autoRecovered, enteredWait) ==
    [attempt |-> attempt, autoRecovered |-> autoRecovered,
     enteredWait |-> enteredWait]

\* The age of a timestamp after d more units of time.
Aged(age, d) ==
    IF age = None THEN None
    ELSE IF age + d > Horizon THEN Horizon ELSE age + d

\* "lastMs == 0L || nowMs - lastMs >= interval".
Due(age, d, interval) == age = None \/ Aged(age, d) >= interval

RecoveryTypeOK ==
    /\ state \in CommunicationState
    /\ disconnectSince \in Age
    /\ reconnectSince \in Age
    /\ lastReconnectAttempt \in Age
    /\ lastBackgroundRediscovery \in Age
    /\ decision \in Decision
    /\ upFor \in Age
    /\ downFor \in Age
    /\ sinceAttempt \in Age
    /\ attemptGap \in Age

RecoveryInit ==
    /\ state = Normal
    /\ disconnectSince = None
    /\ reconnectSince = None
    /\ lastReconnectAttempt = None
    /\ lastBackgroundRediscovery = None
    /\ decision = Decide(NoAttempt, FALSE, FALSE)
    /\ upFor = None
    /\ downFor = None
    /\ sinceAttempt = None
    /\ attemptGap = None

-----------------------------------------------------------------------------
(* onDisconnected(nowMs), d units after the previous call.                 *)

\* What happens to the history variables at a disconnected sample.
RecordDown(d, attempt) ==
    /\ upFor' = None
    /\ downFor' = IF downFor = None THEN 0 ELSE Aged(downFor, d)
    /\ sinceAttempt' = IF attempt # NoAttempt THEN 0
                       ELSE Aged(sinceAttempt, d)
    /\ attemptGap' = IF attempt # NoAttempt THEN Aged(sinceAttempt, d)
                     ELSE attemptGap

\* The first disconnected sample: start the outage and attempt at once.
StartOutage(d) ==
    /\ state = Normal
    /\ state' = AutoReconnecting
    /\ disconnectSince' = 0
    /\ lastReconnectAttempt' = 0
    /\ lastBackgroundRediscovery' = Aged(lastBackgroundRediscovery, d)
    /\ decision' = Decide(Fast, FALSE, FALSE)

\* Fault: every attempt starts the outage anew.
OutageAgeSinceAttempt(d) ==
    IF disconnectSince = None \/ Due(lastReconnectAttempt, d, ReconnectAttemptInterval)
      THEN 0 ELSE Aged(disconnectSince, d)

OutageAge(d) == IF disconnectSince = None THEN 0 ELSE Aged(disconnectSince, d)

\* Fault: the first rediscovery does not wait for its interval.
GiveUpAndLook(d) ==
    /\ state = AutoReconnecting
    /\ OutageAge(d) >= AutoReconnectTimeout
    /\ state' = WaitManual
    /\ disconnectSince' = OutageAge(d)
    /\ lastReconnectAttempt' = None
    /\ lastBackgroundRediscovery' = None
    /\ decision' = Decide(NoAttempt, FALSE, TRUE)

\* The outage lasted AutoReconnectTimeout: wait for a human.
GiveUp(d) ==
    /\ state = AutoReconnecting
    /\ OutageAge(d) >= AutoReconnectTimeout
    /\ state' = WaitManual
    /\ disconnectSince' = OutageAge(d)
    /\ lastReconnectAttempt' = None
    /\ lastBackgroundRediscovery' = 0
    /\ decision' = Decide(NoAttempt, FALSE, TRUE)

\* Still within the timeout: a fast attempt whenever one is due.
RetryFast(d) ==
    /\ state = AutoReconnecting
    /\ OutageAge(d) < AutoReconnectTimeout
    /\ disconnectSince' = OutageAge(d)
    /\ IF Due(lastReconnectAttempt, d, ReconnectAttemptInterval)
         THEN /\ lastReconnectAttempt' = 0
              /\ decision' = Decide(Fast, FALSE, FALSE)
         ELSE /\ lastReconnectAttempt' = Aged(lastReconnectAttempt, d)
              /\ decision' = Decide(NoAttempt, FALSE, FALSE)
    /\ lastBackgroundRediscovery' = Aged(lastBackgroundRediscovery, d)
    /\ UNCHANGED state

\* Waiting for a human: a full rediscovery whenever one is due.
Rediscover(d) ==
    /\ state = WaitManual
    /\ disconnectSince' = Aged(disconnectSince, d)
    /\ IF Due(lastBackgroundRediscovery, d, BackgroundRediscoveryInterval)
         THEN /\ lastBackgroundRediscovery' = 0
              /\ decision' = Decide(Full, FALSE, FALSE)
         ELSE /\ lastBackgroundRediscovery' = Aged(lastBackgroundRediscovery, d)
              /\ decision' = Decide(NoAttempt, FALSE, FALSE)
    /\ lastReconnectAttempt' = Aged(lastReconnectAttempt, d)
    /\ UNCHANGED state

\* Fault: a drop does not end the observation.
OnDisconnectedObserving(d) ==
    /\ reconnectSince' = Aged(reconnectSince, d)
    /\ StartOutage(d) \/ GiveUp(d) \/ RetryFast(d) \/ Rediscover(d)
    /\ RecordDown(d, decision'.attempt)

OnDisconnected(d) ==
    /\ reconnectSince' = None
    /\ StartOutage(d) \/ GiveUp(d) \/ RetryFast(d) \/ Rediscover(d)
    /\ RecordDown(d, decision'.attempt)

-----------------------------------------------------------------------------
(* onConnected(nowMs), d units after the previous call.                    *)

\* What happens to the history variables at a connected sample.
RecordUp(d) ==
    /\ upFor' = IF upFor = None THEN 0 ELSE Aged(upFor, d)
    /\ downFor' = None
    /\ sinceAttempt' = None
    /\ attemptGap' = None

\* Fault: an answer is enough to stop waiting for a human.
ConnectedAnywhere ==
    /\ state \in {Normal, WaitManual}
    /\ reconnectSince' = None
    /\ decision' = Decide(NoAttempt, FALSE, FALSE)
    /\ state' = Normal

\* Nothing to recover from, or only a human may recover.
ConnectedElsewhere ==
    /\ state \in {Normal, WaitManual}
    /\ reconnectSince' = None
    /\ decision' = Decide(NoAttempt, FALSE, FALSE)
    /\ UNCHANGED state

\* Fault: the first answer is trusted.
TrustFirstAnswer ==
    /\ state = AutoReconnecting
    /\ reconnectSince = None
    /\ reconnectSince' = None
    /\ decision' = Decide(NoAttempt, TRUE, FALSE)
    /\ state' = Normal

\* The first connected sample after an outage: observe before trusting.
StartStableObservation ==
    /\ state = AutoReconnecting
    /\ reconnectSince = None
    /\ reconnectSince' = 0
    /\ decision' = Decide(NoAttempt, FALSE, FALSE)
    /\ UNCHANGED state

KeepObserving(d) ==
    /\ state = AutoReconnecting
    /\ reconnectSince # None
    /\ Aged(reconnectSince, d) < ReconnectStableDelay
    /\ reconnectSince' = Aged(reconnectSince, d)
    /\ decision' = Decide(NoAttempt, FALSE, FALSE)
    /\ UNCHANGED state

AutoRecover(d) ==
    /\ state = AutoReconnecting
    /\ reconnectSince # None
    /\ Aged(reconnectSince, d) >= ReconnectStableDelay
    /\ state' = Normal
    /\ reconnectSince' = None
    /\ decision' = Decide(NoAttempt, TRUE, FALSE)

OnConnected(d) ==
    /\ disconnectSince' = None
    /\ lastReconnectAttempt' = None
    /\ lastBackgroundRediscovery' = Aged(lastBackgroundRediscovery, d)
    /\ \/ ConnectedElsewhere
       \/ StartStableObservation
       \/ KeepObserving(d)
       \/ AutoRecover(d)
    /\ RecordUp(d)

-----------------------------------------------------------------------------
ForgetTimers ==
    /\ disconnectSince' = None
    /\ reconnectSince' = None
    /\ lastReconnectAttempt' = None
    /\ lastBackgroundRediscovery' = None
    /\ decision' = Decide(NoAttempt, FALSE, FALSE)
    /\ upFor' = None
    /\ downFor' = None
    /\ sinceAttempt' = None
    /\ attemptGap' = None

\* The maintenance page, stopServer, or a round in inspection mode.
ResetToNormal == state' = Normal /\ ForgetTimers

\* runServer on a device that was left in maintenance and does not answer.
MarkDisconnectedAtStartup == state' = WaitManual /\ ForgetTimers

\* One round of the monitor loop that reaches the policy.
Sample == \E d \in 1..MaxRound : OnConnected(d) \/ OnDisconnected(d)

RecoveryNext == Sample \/ ResetToNormal \/ MarkDisconnectedAtStartup

RecoverySpec == RecoveryInit /\ [][RecoveryNext]_recoveryVars

-----------------------------------------------------------------------------
(* Properties.                                                             *)

(* The device leaves AUTO_RECONNECTING by itself only after the link has   *)
(* answered every sample for ReconnectStableDelay: a flapping link never   *)
(* counts the time before its last drop.                                   *)
RecoveryNeedsStableLink ==
    decision.autoRecovered => upFor >= ReconnectStableDelay

(* A link that stays silent does not keep the device in AUTO_RECONNECTING  *)
(* past AutoReconnectTimeout, however often it is attempted.               *)
SilentLinkEscalates ==
    state = AutoReconnecting /\ downFor # None =>
        downFor < AutoReconnectTimeout

(* Within one outage two attempts are never closer than the interval of    *)
(* the strategy, across the change from fast to full attempts too.         *)
AttemptsSpaced ==
    attemptGap # None =>
        /\ decision.attempt = Fast => attemptGap >= ReconnectAttemptInterval
        /\ decision.attempt = Full =>
              attemptGap >= BackgroundRediscoveryInterval

(* Once a human is waited for, no sequence of samples lets the device      *)
(* recover by itself: only a reset does.                                   *)
OnlyResetLeavesWaitManual ==
    [][state = WaitManual /\ state' # WaitManual => ResetToNormal]_recoveryVars

-----------------------------------------------------------------------------
(* The policy without its timers.                                          *)
Comm == INSTANCE CommunicationState WITH
    down <- downFor # None,
    told <- IF decision.autoRecovered THEN "AUTO_RECOVERED"
            ELSE IF decision.enteredWait THEN "ENTERED_WAIT" ELSE "NOTHING"

(* The timers implement the promise: a silence is given up only after a    *)
(* silent sample, a link is trusted only after an answered one, and one of *)
(* the two happens whenever the link stops changing.                       *)
RefinesCommunicationState == Comm!FairCommunicationSpec
=============================================================================
