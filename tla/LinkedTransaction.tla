------------------------- MODULE LinkedTransaction --------------------------
(***************************************************************************)
(* One linked transaction with the lower board: a sausage is loaded from   *)
(* its box onto a pan (executeLinkedLoadTransactionWithRetry) or delivered *)
(* from a pan to the window (executeLinkedDeliveryTransactionWithRetry):   *)
(* the same protocol on other registers.  The host writes START, polls the *)
(* status, answers each package that succeeded with NEXT until the last    *)
(* one, and starts all over when an attempt fails.                         *)
(*                                                                         *)
(* The board is not part of the repository.  It does here what the host    *)
(* counts on: it may take its time before it begins a session, shows the   *)
(* status of the last session until then, may keep or ignore a START it    *)
(* gets in the middle of a session, and rests after it.  The clocks of the *)
(* host are choices: the deadline may pass at any poll, a stall may be     *)
(* found whenever a poll sees what the previous one saw.                   *)
(***************************************************************************)
EXTENDS Naturals

CONSTANTS
    MaxRetries,  \* LINKED_LOAD_MAX_RETRIES, LINKED_DELIVERY_MAX_RETRIES
    Packages     \* number of packages of a session, 4

ASSUME LinkedAssumption == MaxRetries \in Nat /\ Packages \in Nat \ {0}

VARIABLES
    phase,     \* where the host is
    attempt,   \* 1.. MaxRetries + 1
    gate,      \* sessionStarted
    seen,      \* lastSnapshotKey
    status,    \* what the board shows: result code, package, error of a package
    session,   \* the attempt whose START began the session shown, 0 an older one
    pending,   \* the attempt whose START the board has not begun yet, or 0
    next,      \* the board was told NEXT
    moved,     \* history: sausages moved by sessions of this transaction
    disturbed, \* history: a lost message, a slow board, a deadline, an old error
    inherited  \* history: the board was running when the transaction began

hostVars == <<phase, attempt, gate, seen>>
boardVars == <<status, session, pending, next, moved>>
linkedVars == <<hostVars, boardVars, disturbed, inherited>>

Idle == "IDLE"
Running == "RUNNING"
WaitHost == "WAIT_HOST"
Finish == "FINISH"
Error == "ERROR"

Status == [result : {Idle, Running, WaitHost, Finish, Error},
           pkg : 0..Packages, err : BOOLEAN]
Show(result, pkg, err) == [result |-> result, pkg |-> pkg, err |-> err]

Nothing == "nothing"
ReadFail == "read_fail"

LinkedTypeOK ==
    /\ phase \in {"ready", "start", "poll", "between", "succeeded", "failed"}
    /\ attempt \in 1..MaxRetries + 1
    /\ gate \in BOOLEAN
    /\ seen \in Status \cup {[result |-> Nothing], [result |-> ReadFail]}
    /\ status \in Status
    /\ session \in 0..attempt /\ pending \in 0..attempt
    /\ next \in BOOLEAN
    /\ moved \in Nat
    /\ disturbed \in BOOLEAN /\ inherited \in BOOLEAN

\* An earlier transaction may have left any status behind.
LinkedInit ==
    /\ phase = "ready" /\ attempt = 1 /\ gate = FALSE
    /\ seen = [result |-> Nothing]
    /\ status \in {Show(Idle, 0, FALSE), Show(Running, 1, FALSE),
                   Show(Running, Packages, FALSE), Show(WaitHost, 1, FALSE), Show(Finish, Packages, FALSE),
                   Show(Error, 1, TRUE)}
    /\ session = 0 /\ pending = 0 /\ next = FALSE /\ moved = 0
    /\ disturbed = FALSE
    /\ inherited = (status.result = Running)

-----------------------------------------------------------------------------
(* The host.                                                               *)

\* return false: another attempt, or the transaction failed.
FailAttempt == phase' = IF attempt =< MaxRetries THEN "between" ELSE "failed"

\* Connected, or connected again, and the parameter written.
Prepare ==
    /\ phase = "ready"
    /\ phase' = "start"
    /\ UNCHANGED <<attempt, gate, seen, boardVars, disturbed, inherited>>

PrepareFails ==
    /\ phase = "ready"
    /\ FailAttempt
    /\ disturbed' = TRUE
    /\ UNCHANGED <<attempt, gate, seen, boardVars, inherited>>

\* The board has got START: it begins it later, or ignores it in a session.
GetStart ==
    /\ \/ pending' = attempt
       \/ status.result \in {Running, WaitHost} /\ UNCHANGED pending
    /\ UNCHANGED <<status, session, next, moved>>

\* The status before START is only logged.
WriteStart ==
    /\ phase = "start"
    /\ GetStart
    /\ phase' = "poll"
    /\ gate' = FALSE
    /\ seen' = [result |-> Nothing]
    /\ UNCHANGED <<attempt, disturbed, inherited>>

\* No answer: the board may have got it all the same.
WriteStartFails ==
    /\ phase = "start"
    /\ GetStart \/ UNCHANGED boardVars
    /\ FailAttempt
    /\ disturbed' = TRUE
    /\ UNCHANGED <<attempt, gate, seen, inherited>>

ReadFails ==
    /\ phase = "poll"
    /\ seen' = [result |-> ReadFail]
    /\ disturbed' = TRUE
    /\ UNCHANGED <<phase, attempt, gate, boardVars, inherited>>

\* Fault: any status but IDLE counts as the new session.
GateOpensUnlessIdle == gate \/ status.result # Idle

\* Only RUNNING or an error shows that the session has begun.
GateOpens == gate \/ status.result \in {Running, Error}

\* A poll before the session has begun.
PollBefore ==
    /\ phase = "poll" /\ ~GateOpens
    /\ seen' = status
    /\ UNCHANGED <<phase, attempt, gate, boardVars, disturbed, inherited>>

\* A poll that finds nothing to do: the session is at work.
PollRunning ==
    /\ phase = "poll" /\ GateOpens
    /\ status.result # WaitHost /\ ~status.err
    /\ ~(status.result = Finish /\ status.pkg = Packages)
    /\ gate' = TRUE /\ seen' = status
    /\ UNCHANGED <<phase, attempt, boardVars, disturbed, inherited>>

\* A poll that finds a package done, answered with at most one NEXT a second.
PollAdvances ==
    /\ phase = "poll" /\ GateOpens
    /\ status.result = WaitHost
    /\ gate' = TRUE /\ seen' = status
    /\ next' \in {next, TRUE}
    /\ UNCHANGED <<phase, attempt, status, session, pending, moved, disturbed,
                   inherited>>

\* NEXT is not answered.
AdvanceFails ==
    /\ phase = "poll" /\ GateOpens
    /\ status.result = WaitHost
    /\ gate' = TRUE /\ seen' = status
    /\ next' \in {next, TRUE}
    /\ FailAttempt
    /\ disturbed' = TRUE
    /\ UNCHANGED <<attempt, status, session, pending, moved, inherited>>

\* Fault: FINISH only leaves the loop.
PollFinishesInVain ==
    /\ phase = "poll" /\ GateOpens
    /\ status.result = Finish /\ status.pkg = Packages
    /\ gate' = TRUE /\ seen' = status
    /\ FailAttempt
    /\ UNCHANGED <<attempt, boardVars, disturbed, inherited>>

\* A poll that finds the last package finished.
PollFinishes ==
    /\ phase = "poll" /\ GateOpens
    /\ status.result = Finish /\ status.pkg = Packages
    /\ gate' = TRUE /\ seen' = status
    /\ phase' = "succeeded"
    /\ UNCHANGED <<attempt, boardVars, disturbed, inherited>>

\* A poll that finds the error of a package, of whatever session.
PollError ==
    /\ phase = "poll" /\ GateOpens
    /\ status.err
    /\ gate' = TRUE /\ seen' = status
    /\ FailAttempt
    /\ disturbed' = (disturbed \/ session # attempt)
    /\ UNCHANGED <<attempt, boardVars, inherited>>

\* Nothing has changed for too long.  It is the board that is slow, unless
\* it rests.  A last NEXT may have been sent just before.
Stall ==
    /\ phase = "poll" /\ gate
    /\ seen = status /\ ~status.err
    /\ next' \in IF status.result = WaitHost THEN {next, TRUE} ELSE {next}
    /\ FailAttempt
    /\ disturbed' = (disturbed \/ status.result \in {Running, WaitHost})
    /\ UNCHANGED <<attempt, gate, seen, status, session, pending, moved, inherited>>

\* Fault: no deadline before the session has begun.
DeadlineOnceBegun ==
    /\ phase = "poll" /\ gate
    /\ FailAttempt
    /\ disturbed' = TRUE
    /\ UNCHANGED <<attempt, gate, seen, boardVars, inherited>>

Deadline ==
    /\ phase = "poll"
    /\ FailAttempt
    /\ disturbed' = TRUE
    /\ UNCHANGED <<attempt, gate, seen, boardVars, inherited>>

\* Ten seconds later.
Retry ==
    /\ phase = "between"
    /\ phase' = "ready"
    /\ attempt' = attempt + 1
    /\ UNCHANGED <<gate, seen, boardVars, disturbed, inherited>>

-----------------------------------------------------------------------------
(* The board.                                                              *)

\* What the host watches lasts longer than a poll, unless reads fail.
Watched == phase = "poll" /\ ~disturbed

\* After homing or defrosting, from IDLE, or instead of the session before.
BoardBegins ==
    /\ pending # 0 /\ status.result \in {Idle, WaitHost}
    /\ status' = Show(Running, 1, FALSE)
    /\ session' = pending
    /\ pending' = 0 /\ next' = FALSE
    /\ UNCHANGED moved

BoardPackageDone ==
    /\ status.result = Running
    /\ Watched => gate
    /\ \/ status' = Show(WaitHost, status.pkg, FALSE)
       \/ status.pkg = Packages /\ status' = Show(Finish, Packages, FALSE)
    /\ moved' = IF status.pkg = Packages /\ session # 0 THEN moved + 1 ELSE moved
    /\ UNCHANGED <<session, pending, next>>

BoardPackageFails ==
    /\ status.result = Running
    /\ status' = Show(Error, status.pkg, TRUE)
    /\ UNCHANGED <<session, pending, next, moved>>

BoardAdvances ==
    /\ status.result = WaitHost /\ next
    /\ next' = FALSE
    /\ status' = IF status.pkg = Packages THEN Show(Finish, Packages, FALSE)
                 ELSE Show(Running, status.pkg + 1, FALSE)
    /\ UNCHANGED <<session, pending, moved>>

\* The status of the last session is cleared.
BoardRests ==
    /\ status.result \in {Finish, Error}
    /\ Watched => ~gate
    /\ \E err \in {FALSE, status.err} : status' = Show(Idle, 0, err)
    /\ UNCHANGED <<session, pending, next, moved>>

Board ==
    /\ \/ BoardBegins \/ BoardPackageDone \/ BoardPackageFails
       \/ BoardAdvances \/ BoardRests
    /\ UNCHANGED <<hostVars, disturbed, inherited>>

Poll ==
    \/ PollBefore \/ PollRunning \/ PollAdvances \/ AdvanceFails
    \/ PollFinishes \/ PollError \/ Stall

LinkedNext ==
    \/ Prepare \/ PrepareFails \/ WriteStart \/ WriteStartFails
    \/ ReadFails \/ Poll \/ Deadline \/ Retry
    \/ Board

LinkedSpec == LinkedInit /\ [][LinkedNext]_linkedVars

\* The host goes on, and the clock reaches the deadline.
FairLinkedSpec ==
    /\ LinkedSpec
    /\ WF_linkedVars(Prepare \/ PrepareFails)
    /\ WF_linkedVars(WriteStart \/ WriteStartFails)
    /\ WF_linkedVars(Deadline)
    /\ WF_linkedVars(Retry)

-----------------------------------------------------------------------------
(* Properties that hold.                                                   *)

(* The host reports success only if a sausage was moved since it started:  *)
(* a FINISH left behind by an earlier transaction does not count.  A board *)
(* that still runs the earlier one is taken for the new session.           *)
SuccessNeedsMovement == phase = "succeeded" /\ ~inherited => moved > 0

(* However often the transaction is repeated, each START moves at most one *)
(* sausage, also one that the board begins late or in the place of another *)
(* session.  And as long as no message is lost and no deadline passes, the *)
(* retries move only one: whatever failed, failed before the last package. *)
RetriesMoveNoMore == moved =< IF disturbed THEN attempt ELSE 1

(* Every transaction comes to an end, whatever the board does or omits.    *)
TransactionEnds == <>(phase \in {"succeeded", "failed"})
=============================================================================
