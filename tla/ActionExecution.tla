--------------------------- MODULE ActionExecution ---------------------------
(***************************************************************************)
(* One action of the lower board over a command register and the status    *)
(* register 201 (KaoChangOperate.executeActionWithRetry): see it idle,     *)
(* write the command, poll until it is idle again.  No caller asks for a   *)
(* RUNNING to be observed first (requireObservedRunningBeforeSuccess), so  *)
(* IDLE always means success.                                              *)
(*                                                                         *)
(* The board is not in the repository.  It does what KaoChangOperate says  *)
(* of register 201: 0 idle or the last action done, 1 running, 2 busy, the *)
(* command was not accepted.  It may begin a command late.  The half       *)
(* minutes of the host are choices: a running action may time out at any   *)
(* poll that finds it running.                                             *)
(***************************************************************************)
EXTENDS Naturals

CONSTANT MaxBusyRetry  \* maxBusyRetry, 3

ASSUME ActionAssumption == MaxBusyRetry \in Nat

VARIABLES
    call,       \* where executeActionWithRetry is
    command,    \* what it was called to write
    busyRetry,  \* busyRetryCount
    result,     \* what it returned last
    status,     \* register 201
    accepted,   \* the command the board took and has not begun, or 0
    running,    \* the command the board carries out, or 0
    executed,   \* history: how often the command of the call was carried out
    late        \* history: a poll came before the board began the command

callVars == <<call, command, busyRetry, result>>
boardVars == <<status, accepted, running>>
actionVars == <<callVars, boardVars, executed, late>>

Idle == 0
Running == 1
Busy == 2

Close == 1    \* register 207: close the window
Discard == 2  \* register 207: discard what lies there, then close
Command == {Close, Discard}

Failure == {"COMMAND_REJECTED", "PRECHECK_BUSY_TIMEOUT", "POST_ISSUE_BUSY_TIMEOUT",
            "DISCONNECTED", "RUNNING_TIMEOUT"}

ActionTypeOK ==
    /\ call \in {"none", "check", "issue", "poll"}
    /\ command \in {0} \cup Command
    /\ busyRetry \in 0..MaxBusyRetry + 1
    /\ result \in {"none", "SUCCESS"} \cup Failure
    /\ status \in {Idle, Running, Busy}
    /\ accepted \in {0} \cup Command /\ running \in {0} \cup Command
    /\ executed \in Nat
    /\ late \in BOOLEAN

\* The board may still refuse commands for a reason of its own.
ActionInit ==
    /\ call = "none" /\ command = 0 /\ busyRetry = 0 /\ result = "none"
    /\ status \in {Idle, Busy} /\ accepted = 0 /\ running = 0
    /\ executed = 0 /\ late = FALSE

-----------------------------------------------------------------------------
(* The host.                                                               *)

ExecuteAction(c) ==
    /\ call' = "check" /\ command' = c /\ busyRetry' = 0 /\ result' = "none"
    /\ executed' = 0
    /\ UNCHANGED <<boardVars, late>>

Return(r) == call' = "none" /\ result' = r

\* continue@retryLoop, or one busy answer too many.
BusyAgain(timeout) ==
    /\ busyRetry' = busyRetry + 1
    /\ IF busyRetry' > MaxBusyRetry
         THEN Return(timeout)
         ELSE call' = "check" /\ UNCHANGED result

\* ensureModbusReady gives up after three attempts, or register 201 cannot be
\* read: before the command and at every poll.
Disconnected ==
    /\ call \in {"check", "poll"}
    /\ Return("DISCONNECTED")
    /\ UNCHANGED <<command, busyRetry, boardVars, executed, late>>

\* Only an idle board is given the command.
Precheck ==
    /\ call = "check"
    /\ \/ status = Idle /\ call' = "issue" /\ UNCHANGED <<busyRetry, result>>
       \/ status # Idle /\ BusyAgain("PRECHECK_BUSY_TIMEOUT")
    /\ UNCHANGED <<command, boardVars, executed, late>>

\* The board takes the command if it is at rest.
Accept ==
    /\ accepted = 0 /\ running = 0
    /\ accepted' = command
    /\ UNCHANGED <<status, running>>

\* Written and answered; the board may have refused it and show BUSY.
Issue ==
    /\ call = "issue"
    /\ call' = "poll"
    /\ Accept \/ (status' = Busy /\ UNCHANGED <<accepted, running>>)
    /\ UNCHANGED <<command, busyRetry, result, executed, late>>

\* The write itself is answered with an exception that says busy.
IssueRefused ==
    /\ call = "issue"
    /\ BusyAgain("PRECHECK_BUSY_TIMEOUT")
    /\ UNCHANGED <<command, boardVars, executed, late>>

\* No answer or a bad one: the board may have got the command all the same.
IssueFails ==
    /\ call = "issue"
    /\ Accept \/ UNCHANGED boardVars
    /\ \E r \in {"DISCONNECTED", "COMMAND_REJECTED"} : Return(r)
    /\ UNCHANGED <<command, busyRetry, executed, late>>

\* Fault: a running action is taken for one that was not accepted.
PollReissues ==
    /\ call = "poll" /\ status \in {Running, Busy}
    /\ BusyAgain("POST_ISSUE_BUSY_TIMEOUT")
    /\ UNCHANGED <<command, boardVars, executed, late>>

\* BUSY: not accepted, so the command is issued again.
PollBusy ==
    /\ call = "poll" /\ status = Busy
    /\ BusyAgain("POST_ISSUE_BUSY_TIMEOUT")
    /\ UNCHANGED <<command, boardVars, executed, late>>

\* Fault: a running action counts as done.
PollImpatient ==
    /\ call = "poll" /\ status \in {Idle, Running}
    /\ Return("SUCCESS")
    /\ late' = (late \/ accepted # 0)
    /\ UNCHANGED <<command, busyRetry, boardVars, executed>>

\* IDLE is success, at the first poll too.
PollIdle ==
    /\ call = "poll" /\ status = Idle
    /\ Return("SUCCESS")
    /\ late' = (late \/ accepted # 0)
    /\ UNCHANGED <<command, busyRetry, boardVars, executed>>

\* RUNNING for more than runningTimeoutMs.
RunningTimeout ==
    /\ call = "poll" /\ status = Running
    /\ Return("RUNNING_TIMEOUT")
    /\ UNCHANGED <<command, busyRetry, boardVars, executed, late>>

CallStep ==
    \/ Disconnected \/ Precheck \/ Issue \/ IssueRefused \/ IssueFails
    \/ PollBusy \/ PollIdle

-----------------------------------------------------------------------------
(* The board.                                                              *)

BoardBegins ==
    /\ accepted # 0 /\ status # Running
    /\ status' = Running
    /\ running' = accepted /\ accepted' = 0
    /\ UNCHANGED <<callVars, executed, late>>

\* It does what it was told and rests.
BoardEnds ==
    /\ running # 0
    /\ status' = Idle
    /\ running' = 0
    /\ executed' = executed + 1
    /\ UNCHANGED <<callVars, accepted, late>>

\* It stops refusing; a refusal is shown until the host has polled.
BoardRests ==
    /\ status = Busy /\ call # "poll"
    /\ status' = Idle
    /\ UNCHANGED <<callVars, accepted, running, executed, late>>
=============================================================================
