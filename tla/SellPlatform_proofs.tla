------------------------- MODULE SellPlatform_proofs -------------------------
(***************************************************************************)
(* Safety of a sale at the window, for every number of pictures, rounds    *)
(* and busy answers.                                                       *)
(*                                                                         *)
(* The argument has two halves.  CallInv is about the action: a command is *)
(* with the board at most once, and a host that polls an idle board finds  *)
(* the command not begun yet or the window closed.  WatchInv is about the  *)
(* pictures: what they said of the sausage, unless one lied, is so.        *)
(***************************************************************************)
EXTENDS SellPlatform, TLAPS

Watching == sale \in {"presence", "monitor", "noVision"}

\* The board has not been asked for anything yet.
Quiet == accepted = 0 /\ running = 0 /\ executed = 0

\* The command was carried out.
WindowDone ==
    /\ window = "closed"
    /\ command = Discard => sausage \notin Unclosed

CountersInv ==
    /\ sale = "presence" => shots < PresenceShots
    /\ Watching => failures < Tolerance /\ empties < EmptyRounds
    /\ call # "none" => busyRetry =< MaxBusyRetry

CallInv ==
    /\ Watching => call = "none" /\ Quiet
    /\ call \in {"check", "issue"} => Quiet
    /\ call = "issue" => status = Idle
    /\ call = "poll" /\ status = Busy => Quiet
    /\ call # "none" => command # 0
    /\ executed =< 1
    /\ executed = 1 => accepted = 0 /\ running = 0
    /\ accepted # 0 => accepted = command /\ running = 0
    /\ running # 0 => running = command
    /\ call = "poll" =>
          accepted # 0 \/ running # 0 \/ status = Busy \/ WindowDone
    /\ running # 0 => status = Running
    /\ result = "SUCCESS" /\ ~late => WindowDone

WatchInv ==
    /\ sale = "noVision" => ~detected
    /\ Watching /\ detected /\ ~misread => sausage \in {"there", "taken"}
    /\ sale = "closing" /\ detected /\ ~misread => sausage = "taken"
    /\ sale = "discarding" => command = Discard
    /\ sale = "closing" => command = Close
    /\ sale = "rescuing" => command = Close

OutcomeInv ==
    /\ OutcomeClosesWindow
    /\ TakenMeansTaken
    /\ outcome = "DISCARDED" /\ ~late => sausage \notin Unclosed
    /\ LeftSausageIsFault
    /\ sale \in {"returned", "done"} => outcome # "none"

SellInv ==
    SellTypeOK /\ CountersInv /\ CallInv /\ WatchInv /\ OutcomeInv

LEMMA SellInitInv == SellInit => SellInv
<1> SUFFICES ASSUME SellInit PROVE SellInv
  OBVIOUS
<1>1. SellTypeOK
  <2>1. ActionTypeOK
    <3>1. busyRetry \in 0..MaxBusyRetry + 1 /\ executed \in Nat
      BY ActionAssumption DEF SellInit, ActionInit
    <3> QED
      BY <3>1 DEF SellInit, ActionInit, ActionTypeOK, Idle, Busy, Running
  <2>2. shots \in 0..PresenceShots /\ failures \in 0..Tolerance
        /\ empties \in 0..EmptyRounds
    BY SellAssumption DEF SellInit
  <2> QED
    BY <2>1, <2>2 DEF SellInit, SellTypeOK
<1>2. CountersInv
  BY SellAssumption DEF SellInit, ActionInit, CountersInv, Watching
<1>3. CallInv
  BY DEF SellInit, ActionInit, CallInv, Watching, Quiet
<1>4. WatchInv /\ OutcomeInv
  BY DEF SellInit, WatchInv, Watching, OutcomeInv, OutcomeClosesWindow,
     TakenMeansTaken, LeftSausageIsFault
<1> QED
  BY <1>1, <1>2, <1>3, <1>4 DEF SellInv

-----------------------------------------------------------------------------
(* The watch: pictures and deadlines.  The board is quiet throughout.      *)

\* What a step of the watch does to the call.
WatchStep ==
    /\ Watching
    /\ \/ Watching' /\ UNCHANGED actionVars
       \/ /\ sale' \in {"closing", "rescuing"} /\ ExecuteAction(Close)
       \/ /\ sale' = "discarding" /\ ExecuteAction(Discard)
    /\ UNCHANGED <<outcome, panFull, errorStatus, worldVars>>

(* The action begins with the quiet board of the watch.                    *)
LEMMA WatchKeepsCall ==
    ASSUME SellInv, WatchStep
    PROVE  /\ CallInv' /\ ActionTypeOK'
           /\ call' # "none" => busyRetry' =< MaxBusyRetry
<1> USE DEF SellInv, SellTypeOK, WatchStep
<1>1. CASE UNCHANGED actionVars
  BY <1>1 DEF actionVars, callVars, boardVars, worldVars, CallInv,
     ActionTypeOK, CountersInv, Quiet, WindowDone, Watching
<1>2. ASSUME NEW c \in Command, ExecuteAction(c), ~Watching'
      PROVE  /\ CallInv' /\ ActionTypeOK'
             /\ call' # "none" => busyRetry' =< MaxBusyRetry
  BY <1>2, ActionAssumption DEF ExecuteAction, boardVars, worldVars, CallInv,
     ActionTypeOK, Quiet, WindowDone, Watching, Command, Close, Discard
<1>3. Close \in Command /\ Discard \in Command
  BY DEF Command
<1> QED
  BY <1>1, <1>2, <1>3 DEF Watching

(* An outcome is not there yet.                                            *)
LEMMA WatchKeepsOutcome ==
    ASSUME SellInv, WatchStep, misread => misread', late' = late
    PROVE  OutcomeInv'
BY DEF SellInv, WatchStep, OutcomeInv, OutcomeClosesWindow, TakenMeansTaken,
   LeftSausageIsFault, Watching, worldVars

(* The pictures before the watch.                                          *)
LEMMA PresenceInv ==
    ASSUME SellInv, NEW r \in {Null, Empty, Sausage}, PresenceShot(r)
    PROVE  SellInv'
<1> USE DEF SellInv
<1>1. WatchStep /\ late' = late /\ (misread => misread') /\ misread' \in BOOLEAN
  BY DEF PresenceShot, WatchStep, Watching, Watched, InitialConfirmation,
     Picture, actionVars, callVars, boardVars, SellTypeOK
<1>2. SellTypeOK' /\ CountersInv'
  BY <1>1, WatchKeepsCall, SellAssumption DEF PresenceShot, SellTypeOK,
     Watched, Picture, InitialConfirmation, CountersInv, Watching, worldVars
<1>3. WatchInv'
  BY <1>1 DEF PresenceShot, WatchInv, Watching, Watched, Picture,
     InitialConfirmation, worldVars, Null, Empty, Sausage
<1> QED
  BY <1>1, <1>2, <1>3, WatchKeepsCall, WatchKeepsOutcome

(* A picture of the watch.                                                 *)
LEMMA MonitorInv ==
    ASSUME SellInv, MonitorFailure \/ MonitorSausage \/ MonitorEmpty
    PROVE  SellInv'
<1> USE DEF SellInv
<1>1. WatchStep /\ late' = late /\ (misread => misread') /\ misread' \in BOOLEAN
  BY DEF MonitorFailure, MonitorSausage, MonitorEmpty, WatchStep, Watching,
     Watched, Picture, actionVars, callVars, boardVars, SellTypeOK,
     ExecuteAction
<1>2. /\ failures' \in 0..Tolerance /\ empties' \in 0..EmptyRounds
      /\ Watching' => failures' < Tolerance /\ empties' < EmptyRounds
  <2>1. failures \in 0..Tolerance /\ failures < Tolerance
        /\ empties \in 0..EmptyRounds /\ empties < EmptyRounds
    BY <1>1 DEF SellTypeOK, CountersInv, WatchStep
  <2>2. CASE MonitorFailure
    BY <2>1, <2>2, SellAssumption DEF MonitorFailure, Watching
  <2>3. CASE MonitorSausage
    BY <2>1, <2>3, SellAssumption DEF MonitorSausage
  <2>4. CASE MonitorEmpty
    BY <2>1, <2>4, SellAssumption DEF MonitorEmpty, Watching
  <2> QED
    BY <2>2, <2>3, <2>4
<1>4. shots' = shots /\ sale' # "presence" /\ detected' \in BOOLEAN
      /\ someVision' = someVision
  BY DEF MonitorFailure, MonitorSausage, MonitorEmpty, SellTypeOK
<1>5. SellTypeOK' /\ CountersInv'
  BY <1>1, <1>2, <1>4, WatchKeepsCall DEF WatchStep, SellTypeOK, CountersInv,
     Watching, worldVars
<1>3. WatchInv'
  BY <1>1 DEF MonitorFailure, MonitorSausage, MonitorEmpty, WatchInv, Watching,
     Watched, Picture, worldVars, Null, Empty, Sausage, ExecuteAction
<1> QED
  BY <1>1, <1>3, <1>5, WatchKeepsCall, WatchKeepsOutcome

(* A picture of the watch without vision, and the deadlines of both.       *)
LEMMA DeadlineInv ==
    ASSUME SellInv,
           \/ MonitorDeadline \/ NoVisionDeadline
           \/ \E r \in {Null, Empty, Sausage} : NoVisionShot(r)
    PROVE  SellInv'
<1> USE DEF SellInv
<1>1. WatchStep /\ late' = late /\ (misread => misread') /\ misread' \in BOOLEAN
  BY DEF MonitorDeadline, NoVisionDeadline, NoVisionShot, WatchStep, Watching,
     Watched, Picture, actionVars, callVars, boardVars, SellTypeOK,
     ExecuteAction
<1>2. /\ UNCHANGED <<shots, failures, empties, someVision>>
      /\ sale' # "presence" /\ detected' \in BOOLEAN
  BY DEF MonitorDeadline, NoVisionDeadline, NoVisionShot, SellTypeOK
<1>4. SellTypeOK' /\ CountersInv'
  BY <1>1, <1>2, WatchKeepsCall DEF WatchStep, SellTypeOK, CountersInv,
     Watching, worldVars
<1>3. WatchInv'
  BY <1>1 DEF MonitorDeadline, NoVisionDeadline, NoVisionShot, WatchInv,
     Watching, Watched, Picture, worldVars, Null, Empty, Sausage, ExecuteAction
<1> QED
  BY <1>1, <1>3, <1>4, WatchKeepsCall, WatchKeepsOutcome

-----------------------------------------------------------------------------
(* The action of the board.                                                *)

(* A step of the host's call leaves the board's work as it is, but for the *)
(* command it gives to a quiet board.                                      *)
LEMMA CallStepInv ==
    ASSUME SellInv, CallStep \/ RunningTimeout,
           UNCHANGED <<watchVars, outcome, panFull, errorStatus, misread>>,
           UNCHANGED worldVars, InCall
    PROVE  SellInv'
<1> USE DEF SellInv
<1>1. /\ call # "none" /\ command' = command
      /\ executed' = executed /\ running' = running
  BY DEF CallStep, Disconnected, Precheck, Issue, IssueRefused, IssueFails,
     PollBusy, PollIdle, RunningTimeout, boardVars, Accept
<1>2. late' \in BOOLEAN /\ (late => late')
  BY DEF CallStep, Disconnected, Precheck, Issue, IssueRefused, IssueFails,
     PollBusy, PollIdle, RunningTimeout, SellTypeOK, ActionTypeOK
<1>3. /\ busyRetry' \in 0..MaxBusyRetry + 1
      /\ call' # "none" => busyRetry' =< MaxBusyRetry
  <2>1. busyRetry \in 0..MaxBusyRetry + 1 /\ busyRetry =< MaxBusyRetry
    BY <1>1 DEF CountersInv, SellTypeOK, ActionTypeOK
  <2>2. ASSUME NEW r, BusyAgain(r)
        PROVE  /\ busyRetry' \in 0..MaxBusyRetry + 1
               /\ call' # "none" => busyRetry' =< MaxBusyRetry
    BY <2>1, <2>2, ActionAssumption DEF BusyAgain, Return
  <2>3. busyRetry' = busyRetry \/ \E r \in Failure : BusyAgain(r)
    BY DEF CallStep, Disconnected, Precheck, Issue, IssueRefused, IssueFails,
       PollBusy, PollIdle, RunningTimeout, Failure
  <2> QED
    BY <2>1, <2>2, <2>3
<1>4. /\ call' \in {"none", "check", "issue", "poll"}
      /\ result' \in {"none", "SUCCESS"} \cup Failure
      /\ status' \in {Idle, Running, Busy}
      /\ accepted' \in {0} \cup Command
  BY DEF CallStep, Disconnected, Precheck, Issue, IssueRefused, IssueFails,
     PollBusy, PollIdle, RunningTimeout, boardVars, Accept, BusyAgain, Return,
     Failure, SellTypeOK, ActionTypeOK
<1>5. ActionTypeOK'
  BY <1>1, <1>2, <1>3, <1>4 DEF SellTypeOK, ActionTypeOK
<1>6. SellTypeOK' /\ CountersInv'
  BY <1>3, <1>5 DEF SellTypeOK, CountersInv, watchVars, worldVars, Watching
<1>7. WatchInv' /\ OutcomeInv'
  BY <1>1, <1>2 DEF WatchInv, OutcomeInv, watchVars, worldVars, Watching,
     OutcomeClosesWindow, TakenMeansTaken, LeftSausageIsFault
<1>8. CallInv'
  <2>1. WindowDone' <=> WindowDone
    BY <1>1 DEF WindowDone, worldVars
  <2>2. ~Watching /\ ~Watching'
    BY DEF InCall, Watching, watchVars
  <2>3. CASE Disconnected \/ RunningTimeout
    BY <1>1, <2>1, <2>2, <2>3 DEF Disconnected, RunningTimeout, Return,
       CallInv, boardVars, Quiet
  <2>4. CASE Precheck \/ IssueRefused
    BY <1>1, <2>1, <2>2, <2>4 DEF Precheck, IssueRefused, BusyAgain, Return,
       CallInv, boardVars, Quiet
  <2>5. CASE Issue
    BY <1>1, <2>1, <2>2, <2>5 DEF Issue, Accept, CallInv, Quiet, Idle, Busy
  <2>6. CASE IssueFails
    BY <1>1, <2>1, <2>2, <2>6 DEF IssueFails, Accept, Return, CallInv, Quiet,
       boardVars
  <2>7. CASE PollBusy
    BY <1>1, <2>1, <2>2, <2>7 DEF PollBusy, BusyAgain, Return, CallInv,
       boardVars, Quiet
  <2>8. CASE PollIdle
    <3>1. call' = "none" /\ UNCHANGED boardVars
      BY <2>8 DEF PollIdle, Return
    <3>2. ~late' => accepted = 0
      BY <2>8 DEF PollIdle
    <3>3. running = 0 /\ status # Busy
      BY <2>8 DEF PollIdle, CallInv, Idle, Running, Busy
    <3>4. accepted = 0 => WindowDone
      BY <2>8, <3>3 DEF PollIdle, CallInv
    <3> QED
      BY <1>1, <2>1, <2>2, <3>1, <3>2, <3>4 DEF CallInv, boardVars, Quiet
  <2> QED
    BY <2>3, <2>4, <2>5, <2>6, <2>7, <2>8 DEF CallStep
<1> QED
  BY <1>6, <1>7, <1>8

(* The board begins what it was given, ends what it began, and rests.      *)
LEMMA BoardInv ==
    ASSUME SellInv, Board
    PROVE  SellInv'
<1> USE DEF SellInv
<1>1. /\ UNCHANGED <<watchVars, outcome, panFull, errorStatus, misread>>
      /\ UNCHANGED <<callVars, late>>
  BY DEF Board, WindowMoves, Acting, BoardEnds, BoardBegins, BoardRests
<1>2. CASE BoardEnds /\ WindowMoves
  <2>1. running # 0 /\ running = command /\ executed = 0 /\ accepted = 0
    BY <1>2 DEF BoardEnds, CallInv, SellTypeOK, ActionTypeOK
  <2>2. running' = 0 /\ executed' = 1 /\ accepted' = 0 /\ status' = Idle
        /\ window' = "closed"
    BY <1>2, <2>1 DEF BoardEnds, WindowMoves
  <2>3. ~Watching
    BY <2>1 DEF CallInv, Quiet
  <2>4. /\ command = Discard => sausage' \notin Unclosed
        /\ sausage' \in {sausage, "wasted"}
        /\ sausage = "taken" => sausage' = "taken"
        /\ sausage \notin Unclosed => sausage' = sausage
    BY <1>2, <2>1 DEF WindowMoves, Unclosed
  <2>5. sausage' \in Unclosed => sausage \in Unclosed
    BY <2>4 DEF Unclosed
  <2>6. SellTypeOK'
    BY <1>1, <2>2, <2>4 DEF SellTypeOK, ActionTypeOK, watchVars, callVars
  <2>7. CountersInv'
    BY <1>1 DEF CountersInv, watchVars, callVars, Watching
  <2>8. CallInv'
    <3>1. WindowDone'
      BY <1>1, <2>2, <2>4 DEF WindowDone, callVars
    <3>2. call \notin {"check", "issue"}
      BY <2>1 DEF CallInv, Quiet
    <3> QED
      BY <1>1, <2>2, <2>3, <3>1, <3>2 DEF CallInv, watchVars, callVars,
         Watching, Idle, Busy
  <2>9. WatchInv' /\ OutcomeInv'
    BY <1>1, <2>2, <2>3, <2>4, <2>5 DEF WatchInv, OutcomeInv, watchVars,
       callVars, Watching, OutcomeClosesWindow, TakenMeansTaken,
       LeftSausageIsFault
  <2> QED
    BY <2>6, <2>7, <2>8, <2>9
<1>3. CASE (BoardBegins \/ BoardRests) /\ UNCHANGED worldVars
  <2>1. executed' = executed
    BY <1>3 DEF BoardBegins, BoardRests
  <2>2. SellTypeOK'
    BY <1>1, <1>3, <2>1 DEF BoardBegins, BoardRests, SellTypeOK, ActionTypeOK,
       watchVars, callVars, worldVars
  <2>3. CountersInv' /\ WatchInv' /\ OutcomeInv'
    BY <1>1, <1>3 DEF CountersInv, WatchInv, OutcomeInv, watchVars, callVars,
       worldVars, Watching, OutcomeClosesWindow, TakenMeansTaken,
       LeftSausageIsFault
  <2>4. WindowDone' <=> WindowDone
    BY <1>1, <1>3 DEF WindowDone, worldVars, callVars
  <2>5. ASSUME BoardBegins PROVE CallInv'
    <3>1. accepted # 0 /\ accepted = command /\ executed # 1
      BY <2>5 DEF BoardBegins, CallInv
    <3>2. running' = command /\ accepted' = 0 /\ status' = Running
      BY <2>5, <3>1 DEF BoardBegins
    <3>3. ~Watching /\ call \notin {"check", "issue"}
      BY <3>1 DEF CallInv, Quiet
    <3> QED
      BY <1>1, <2>1, <2>4, <3>1, <3>2, <3>3 DEF CallInv, watchVars, callVars,
         Watching, Running, Busy
  <2>6. ASSUME BoardRests PROVE CallInv'
    BY <1>1, <2>1, <2>4, <2>6 DEF BoardRests, CallInv, watchVars, callVars,
       Watching, Quiet, Idle, Running, Busy
  <2> QED
    BY <1>3, <2>2, <2>3, <2>5, <2>6
<1> QED
  BY <1>2, <1>3 DEF Board, WindowMoves, Acting

-----------------------------------------------------------------------------
(* The sale returns, the order takes the outcome.                          *)
LEMMA ReturnInv ==
    ASSUME SellInv, SaleReturns \/ OrderTakesOutcome
    PROVE  SellInv'
<1> USE DEF SellInv
<1>1. /\ UNCHANGED <<shots, someVision, detected, failures, empties>>
      /\ UNCHANGED <<actionVars, worldVars, misread>>
      /\ sale' \in {"returned", "done"} /\ ~Watching
  BY DEF SaleReturns, OrderTakesOutcome, InCall, Watching
<1>2. CountersInv' /\ CallInv' /\ WatchInv'
  BY <1>1 DEF CountersInv, CallInv, WatchInv, Watching, Quiet, WindowDone,
     actionVars, callVars, boardVars, worldVars
<1>3. SellTypeOK'
  <2>1. outcome' \in {"none", "TAKEN_BY_USER", "DISCARDED",
                      "DELIVERY_NOT_CONFIRMED", "ERROR"}
    BY DEF SaleReturns, OrderTakesOutcome, OutcomeOfClose, InCall, SellTypeOK
  <2>2. panFull' \in BOOLEAN /\ errorStatus' \in {0, 2}
    BY DEF SaleReturns, OrderTakesOutcome, SellTypeOK
  <2>3. ActionTypeOK'
    BY <1>1 DEF SellTypeOK, ActionTypeOK, actionVars, callVars, boardVars
  <2> QED
    BY <1>1, <2>1, <2>2, <2>3 DEF SellTypeOK, worldVars
<1>4. ASSUME SaleReturns PROVE OutcomeInv'
  <2>1. /\ sale' = "returned" /\ panFull' = FALSE
        /\ errorStatus' = IF outcome' = "ERROR" THEN 2 ELSE errorStatus
    BY <1>4 DEF SaleReturns
  <2>2. CASE sale = "closing"
    <3>1. outcome' = OutcomeOfClose(result = "SUCCESS")
      BY <1>4, <2>2 DEF SaleReturns
    <3>2. outcome' \in {"TAKEN_BY_USER", "DELIVERY_NOT_CONFIRMED", "ERROR"}
      BY <3>1 DEF OutcomeOfClose
    <3>3. /\ outcome' # "ERROR" /\ ~late => window = "closed"
          /\ outcome' = "TAKEN_BY_USER" /\ ~misread => sausage = "taken"
      BY <2>2, <3>1 DEF OutcomeOfClose, CallInv, WindowDone, WatchInv
    <3> QED
      BY <1>1, <2>1, <3>2, <3>3 DEF OutcomeInv, OutcomeClosesWindow,
         TakenMeansTaken, LeftSausageIsFault, SellTypeOK, actionVars, worldVars
  <2>3. CASE sale = "discarding"
    <3>1. outcome' = IF result = "SUCCESS" THEN "DISCARDED" ELSE "ERROR"
      BY <1>4, <2>3 DEF SaleReturns
    <3>2. outcome' = "DISCARDED" /\ ~late =>
             window = "closed" /\ sausage \notin Unclosed
      BY <2>3, <3>1 DEF CallInv, WindowDone, WatchInv
    <3> QED
      BY <1>1, <2>1, <3>1, <3>2 DEF OutcomeInv, OutcomeClosesWindow,
         TakenMeansTaken, LeftSausageIsFault, SellTypeOK, actionVars, worldVars
  <2>4. CASE sale = "rescuing"
    <3>1. outcome' = "ERROR"
      BY <1>4, <2>4 DEF SaleReturns
    <3> QED
      BY <1>1, <2>1, <3>1 DEF OutcomeInv, OutcomeClosesWindow,
         TakenMeansTaken, LeftSausageIsFault, SellTypeOK, actionVars, worldVars
  <2> QED
    BY <1>4, <2>2, <2>3, <2>4 DEF SaleReturns, InCall
<1>5. ASSUME OrderTakesOutcome PROVE OutcomeInv'
  <2>1. /\ sale = "returned" /\ sale' = "done" /\ UNCHANGED <<outcome, panFull>>
        /\ errorStatus' = IF outcome \in {"DELIVERY_NOT_CONFIRMED", "ERROR"}
                          THEN 2 ELSE errorStatus
    BY <1>5 DEF OrderTakesOutcome
  <2>2. outcome \in {"TAKEN_BY_USER", "DISCARDED", "DELIVERY_NOT_CONFIRMED",
                     "ERROR"}
    BY <2>1 DEF OutcomeInv, SellTypeOK
  <2>3. outcome = "TAKEN_BY_USER" /\ ~misread => sausage \notin Unclosed
    BY DEF OutcomeInv, TakenMeansTaken, Unclosed
  <2> QED
    BY <1>1, <2>1, <2>2, <2>3 DEF OutcomeInv, OutcomeClosesWindow,
       TakenMeansTaken, LeftSausageIsFault, actionVars, worldVars
<1> QED
  BY <1>2, <1>3, <1>4, <1>5

(* The sausage rolls and is taken; the app is killed.                      *)
LEMMA WorldInv ==
    ASSUME SellInv, SausageArrives \/ UserTakes \/ Crash \/ UNCHANGED sellVars
    PROVE  SellInv'
<1> USE DEF SellInv
<1>1. CASE SausageArrives \/ UserTakes
  <2>1. /\ UNCHANGED <<actionVars, watchVars, outcome, panFull, errorStatus>>
        /\ misread' = misread /\ window' = window
        /\ sausage \in Unclosed /\ sausage' \in {"there", "taken"}
        /\ sausage' = "there" => sausage = "rolling"
    BY <1>1 DEF SausageArrives, UserTakes, World, Unclosed
  <2>2. sausage # "taken"
    BY <2>1 DEF Unclosed
  <2>3. WindowDone => WindowDone'
    BY <2>1 DEF WindowDone, actionVars, callVars
  <2>4. SellTypeOK' /\ CountersInv'
    BY <2>1 DEF SellTypeOK, ActionTypeOK, CountersInv, Watching, actionVars,
       callVars, boardVars, watchVars
  <2>5. CallInv'
    BY <2>1, <2>3 DEF CallInv, Watching, Quiet, actionVars, callVars,
       boardVars, watchVars
  <2>6. WatchInv' /\ OutcomeInv'
    BY <2>1, <2>2 DEF WatchInv, OutcomeInv, Watching, OutcomeClosesWindow,
       TakenMeansTaken, LeftSausageIsFault, actionVars, callVars, watchVars
  <2> QED
    BY <2>4, <2>5, <2>6
<1>2. CASE Crash
  <2>1. /\ sale' = "crashed" /\ call' = "none" /\ ~Watching'
        /\ UNCHANGED <<shots, someVision, detected, failures, empties>>
        /\ UNCHANGED <<command, busyRetry, result, boardVars, executed, late>>
        /\ UNCHANGED <<outcome, panFull, errorStatus, worldVars, misread>>
    BY <1>2 DEF Crash, Watching
  <2>2. SellTypeOK' /\ CountersInv'
    BY <2>1 DEF SellTypeOK, ActionTypeOK, CountersInv, boardVars, worldVars
  <2>3. CallInv'
    BY <2>1 DEF CallInv, Quiet, WindowDone, boardVars, worldVars
  <2>4. WatchInv' /\ OutcomeInv'
    BY <2>1 DEF WatchInv, OutcomeInv, OutcomeClosesWindow, TakenMeansTaken,
       LeftSausageIsFault, worldVars
  <2> QED
    BY <2>2, <2>3, <2>4
<1>3. CASE UNCHANGED sellVars
  BY <1>3 DEF sellVars, actionVars, callVars, boardVars, watchVars, worldVars,
     SellTypeOK, ActionTypeOK, CountersInv, CallInv, WatchInv, OutcomeInv,
     Watching, Quiet, WindowDone, OutcomeClosesWindow, TakenMeansTaken,
     LeftSausageIsFault
<1> QED
  BY <1>1, <1>2, <1>3

LEMMA SellNextInv == SellInv /\ [SellNext]_sellVars => SellInv'
<1> SUFFICES ASSUME SellInv, [SellNext]_sellVars PROVE SellInv'
  OBVIOUS
<1>1. CASE Shot
  BY <1>1, PresenceInv, MonitorInv, DeadlineInv DEF Shot
<1>2. CASE Deadline
  BY <1>2, DeadlineInv DEF Deadline
<1>3. CASE Call \/ CallTimeout
  BY <1>3, CallStepInv DEF Call, CallTimeout, Acting
<1>4. CASE Board
  BY <1>4, BoardInv
<1>5. CASE SaleReturns \/ OrderTakesOutcome
  BY <1>5, ReturnInv
<1>6. CASE SausageArrives \/ UserTakes \/ Crash \/ UNCHANGED sellVars
  BY <1>6, WorldInv
<1> QED
  BY <1>1, <1>2, <1>3, <1>4, <1>5, <1>6 DEF SellNext

LEMMA SellSafety == SellSpec => []SellInv
  BY SellInitInv, SellNextInv, PTL DEF SellSpec

-----------------------------------------------------------------------------
(* For any number of pictures, rounds and busy answers the variables of a  *)
(* sale keep their types.                                                  *)
THEOREM SellTypeCorrect == SellSpec => []SellTypeOK
<1>1. SellInv => SellTypeOK
  BY DEF SellInv
<1> QED
  BY <1>1, SellSafety, PTL

(* However often the command is issued and whenever the board begins: an   *)
(* outcome that is not an error closed the window, unless the host polled  *)
(* before the board began.                                                 *)
THEOREM OutcomeIsClosed == SellSpec => []OutcomeClosesWindow
<1>1. SellInv => OutcomeClosesWindow
  BY DEF SellInv, OutcomeInv
<1> QED
  BY <1>1, SellSafety, PTL

(* However many pictures are taken and fail: a sale counts as taken only   *)
(* if the customer has the sausage, unless a picture lied.                 *)
THEOREM TakenIsTaken == SellSpec => []TakenMeansTaken
<1>1. SellInv => TakenMeansTaken
  BY DEF SellInv, OutcomeInv
<1> QED
  BY <1>1, SellSafety, PTL

(* A sausage left on the platform takes the device out of service.         *)
THEOREM LeftIsFault == SellSpec => []LeftSausageIsFault
<1>1. SellInv => LeftSausageIsFault
  BY DEF SellInv, OutcomeInv
<1> QED
  BY <1>1, SellSafety, PTL

(* No number of busy answers makes the board carry out a command twice.    *)
THEOREM NotCarriedOutTwice == SellSpec => []CarriedOutOnce
<1>1. SellInv => CarriedOutOnce
  BY DEF SellInv, CallInv, CarriedOutOnce
<1> QED
  BY <1>1, SellSafety, PTL
=============================================================================
