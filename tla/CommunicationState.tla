------------------------- MODULE CommunicationState -------------------------
(***************************************************************************)
(* What the recovery policy of the serial link promises, without a clock:  *)
(* the three communication states, the last sample, and what the monitor   *)
(* loop is told.  ModbusRecovery implements it with its timers; the        *)
(* modules that only care about the promise build on this one.             *)
(***************************************************************************)
VARIABLES
    state,  \* ModbusCommunicationState
    down,   \* the last sample since the last reset was disconnected
    told    \* what the last call told the monitor loop

commVars == <<state, down, told>>

Normal == "NORMAL"
AutoReconnecting == "AUTO_RECONNECTING"
WaitManual == "WAIT_MANUAL_RECOVERY"

Nothing == "NOTHING"
Recovered == "AUTO_RECOVERED"
EnteredWait == "ENTERED_WAIT"

CommunicationTypeOK ==
    /\ state \in {Normal, AutoReconnecting, WaitManual}
    /\ down \in BOOLEAN
    /\ told \in {Nothing, Recovered, EnteredWait}

CommunicationInit == state = Normal /\ down = FALSE /\ told = Nothing

-----------------------------------------------------------------------------
(* The outcomes of a disconnected sample.                                  *)

\* An outage starts, or goes on without a decision.
HearSilence ==
    /\ down' = TRUE
    /\ state' = IF state = Normal THEN AutoReconnecting ELSE state
    /\ told' = Nothing

\* The silence lasted too long: only a human may put the link back in use.
GiveUp ==
    /\ state = AutoReconnecting /\ down
    /\ state' = WaitManual
    /\ down' = TRUE
    /\ told' = EnteredWait

-----------------------------------------------------------------------------
(* The outcomes of a connected sample.                                     *)

HearAnswer ==
    /\ down' = FALSE
    /\ told' = Nothing
    /\ UNCHANGED state

\* The link answered long enough: it is trusted again.
AutoRecover ==
    /\ state = AutoReconnecting /\ ~down
    /\ state' = Normal
    /\ down' = FALSE
    /\ told' = Recovered

-----------------------------------------------------------------------------
ResetToNormal == state' = Normal /\ down' = FALSE /\ told' = Nothing

MarkDisconnectedAtStartup ==
    state' = WaitManual /\ down' = FALSE /\ told' = Nothing

CommunicationNext ==
    \/ HearSilence \/ GiveUp
    \/ HearAnswer \/ AutoRecover
    \/ ResetToNormal \/ MarkDisconnectedAtStartup

CommunicationSpec == CommunicationInit /\ [][CommunicationNext]_commVars

\* A silence that goes on is given up, an answer that goes on is trusted.
FairCommunicationSpec ==
    /\ CommunicationSpec
    /\ WF_commVars(GiveUp)
    /\ WF_commVars(AutoRecover)
=============================================================================
