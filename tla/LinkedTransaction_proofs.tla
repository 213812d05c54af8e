---------------------- MODULE LinkedTransaction_proofs ----------------------
(***************************************************************************)
(* Proofs about LinkedTransaction for any number of retries and packages:  *)
(* its types, that a success was a movement, and how many sausages all     *)
(* attempts together may move.                                             *)
(***************************************************************************)
EXTENDS LinkedTransaction, TLAPS

(* Only an attempt that has a successor is followed by a pause.            *)
RetryInv == phase = "between" => attempt =< MaxRetries

(* What a status of the board tells of its session.                        *)
StatusInv ==
    /\ status.result = Error => status.err
    /\ session # 0 /\ (status.result = Finish
                         \/ (status.result = WaitHost /\ status.pkg = Packages)) =>
          moved > 0

(* An old session that was over when the transaction began does not come   *)
(* back to life: it is never told NEXT, and it opens the gate for no more  *)
(* than its error.                                                         *)
OldSessionInv ==
    ~inherited =>
        /\ session = 0 => status.result # Running /\ ~next
        /\ phase = "poll" /\ gate => session # 0

LinkedInv ==
    /\ LinkedTypeOK
    /\ RetryInv
    /\ StatusInv
    /\ OldSessionInv
    /\ SuccessNeedsMovement

-----------------------------------------------------------------------------
(* What the board shows is a status, and has the fields it was given.      *)
LEMMA ShowType ==
  ASSUME NEW result \in {Idle, Running, WaitHost, Finish, Error},
         NEW pkg \in 0..Packages, NEW err \in BOOLEAN
  PROVE  /\ Show(result, pkg, err) \in Status
         /\ Show(result, pkg, err).result = result
         /\ Show(result, pkg, err).pkg = pkg
         /\ Show(result, pkg, err).err = err
BY DEF Show, Status

(* The fields of a status have their types.                                *)
LEMMA StatusFields ==
  ASSUME LinkedTypeOK
  PROVE  /\ status.result \in {Idle, Running, WaitHost, Finish, Error}
         /\ status.pkg \in 0..Packages
         /\ status.err \in BOOLEAN
BY DEF LinkedTypeOK, Status

LEMMA InitLinkedInv == LinkedInit => LinkedInv
<1> SUFFICES ASSUME LinkedInit PROVE LinkedInv
  OBVIOUS
<1> USE LinkedAssumption DEF LinkedInit, Idle, Running, WaitHost, Finish, Error
<1>1. LinkedTypeOK
  <2>0. 0 \in 0..Packages /\ 1 \in 0..Packages /\ Packages \in 0..Packages
    OBVIOUS
  <2>1. status \in Status
    <3>1. ASSUME NEW result \in {Idle, Running, WaitHost, Finish, Error},
                 NEW pkg \in {0, 1, Packages}, NEW err \in BOOLEAN
          PROVE  Show(result, pkg, err) \in Status
      BY <2>0, ShowType
    <3>2. \E result \in {Idle, Running, WaitHost, Finish, Error},
             pkg \in {0, 1, Packages}, err \in BOOLEAN : status = Show(result, pkg, err)
      BY Zenon DEF LinkedInit
    <3> QED
      BY <3>1, <3>2, Zenon
  <2>2. attempt = 1 /\ attempt \in 1..MaxRetries + 1
    BY DEF LinkedInit
  <2> QED
    <3>1. inherited \in BOOLEAN
      BY Zenon DEF LinkedInit
    <3>2. session \in 0..attempt /\ pending \in 0..attempt
      BY <2>2 DEF LinkedInit
    <3>3. /\ phase = "ready" /\ seen = [result |-> Nothing]
          /\ gate \in BOOLEAN /\ next \in BOOLEAN /\ disturbed \in BOOLEAN
          /\ moved \in Nat
      BY DEF LinkedInit
    <3> QED
      BY <2>1, <2>2, <3>1, <3>2, <3>3, Zenon DEF LinkedTypeOK
<1>2. RetryInv /\ StatusInv /\ SuccessNeedsMovement
  BY DEF LinkedInit, RetryInv, StatusInv, SuccessNeedsMovement, Show
<1>3. OldSessionInv
  BY DEF LinkedInit, OldSessionInv
<1> QED
  BY <1>1, <1>2, <1>3 DEF LinkedInv

-----------------------------------------------------------------------------
(* What the host does between two attempts and before its first poll.      *)
LEMMA StartKeepsInv ==
  ASSUME LinkedInv,
         Prepare \/ PrepareFails \/ WriteStart \/ WriteStartFails \/ Retry
  PROVE  LinkedInv'
<1> USE LinkedAssumption DEF LinkedInv, GetStart, FailAttempt, boardVars
<1>0. /\ UNCHANGED <<status, session, next, moved, inherited>>
      /\ pending' \in {pending, attempt}
      /\ phase' \in {"ready", "start", "poll", "between", "failed"}
      /\ attempt' = attempt \/ (attempt' = attempt + 1 /\ attempt =< MaxRetries)
      /\ gate' \in {gate, FALSE}
      /\ seen' \in {seen, [result |-> Nothing]}
      /\ disturbed' \in {disturbed, TRUE}
  BY DEF Prepare, PrepareFails, WriteStart, WriteStartFails, Retry, RetryInv
<1>1. LinkedTypeOK'
  <2>1. attempt' \in 1..MaxRetries + 1 /\ attempt =< attempt'
    BY <1>0 DEF LinkedTypeOK
  <2> DEFINE a == attempt
             b == attempt'
  <2>3. a \in Nat /\ b \in Nat /\ a =< b
    BY <2>1 DEF LinkedTypeOK
  <2>4. session \in 0..a /\ pending \in 0..a
    BY DEF LinkedTypeOK
  <2>5. /\ session' = session
        /\ pending' = pending \/ pending' = a
    BY <1>0
  <2> HIDE DEF a, b
  <2>6. session' \in 0..b
    BY ONLY <2>3, <2>4, <2>5
  <2>7. pending' \in 0..b
    BY ONLY <2>3, <2>4, <2>5
  <2>2. session' \in 0..attempt' /\ pending' \in 0..attempt'
    BY <2>6, <2>7 DEF b
  <2> QED
    BY <1>0, <2>1, <2>2 DEF LinkedTypeOK
<1>2. RetryInv'
  BY DEF Prepare, PrepareFails, WriteStart, WriteStartFails, Retry, RetryInv,
     LinkedTypeOK
<1>3. StatusInv' /\ OldSessionInv'
  BY DEF Prepare, PrepareFails, WriteStart, WriteStartFails, Retry, StatusInv,
     OldSessionInv
<1>4. SuccessNeedsMovement'
  BY DEF Prepare, PrepareFails, WriteStart, WriteStartFails, Retry,
     SuccessNeedsMovement
<1> QED
  BY <1>1, <1>2, <1>3, <1>4

(* What the host does with what it reads.                                  *)
LEMMA PollKeepsInv ==
  ASSUME LinkedInv, ReadFails \/ Poll \/ Deadline
  PROVE  LinkedInv'
<1> USE LinkedAssumption DEF LinkedInv, FailAttempt, boardVars, GateOpens
<1> USE DEF Idle, Running, WaitHost, Finish, Error
<1>0. /\ phase = "poll"
      /\ UNCHANGED <<attempt, status, session, pending, moved, inherited>>
      /\ phase' \in {"poll", "between", "succeeded", "failed"}
      /\ phase' = "between" => attempt =< MaxRetries
      /\ gate' \in BOOLEAN /\ next' \in BOOLEAN /\ disturbed' \in BOOLEAN
      /\ seen' \in {seen, status, [result |-> ReadFail]}
  BY DEF ReadFails, Poll, PollBefore, PollRunning, PollAdvances, AdvanceFails,
     PollFinishes, PollError, Stall, Deadline, LinkedTypeOK
<1>1. LinkedTypeOK'
  BY <1>0 DEF LinkedTypeOK
<1>2. RetryInv' /\ StatusInv'
  BY <1>0 DEF RetryInv, StatusInv
<1>3. ASSUME ~inherited, session = 0
      PROVE  ~next' /\ (phase' = "poll" => ~gate')
  <2>1. status.result # Running /\ ~next /\ ~gate
    BY <1>0, <1>3 DEF OldSessionInv
  <2>2. CASE ReadFails \/ PollBefore \/ Deadline
    BY <2>1, <2>2 DEF ReadFails, PollBefore, Deadline
  <2>3. CASE PollRunning \/ PollAdvances \/ AdvanceFails \/ PollFinishes
    BY <2>1, <2>3 DEF PollRunning, PollAdvances, AdvanceFails, PollFinishes,
       StatusInv
  <2>4. CASE PollError
    BY <2>1, <2>4 DEF PollError
  <2>5. CASE Stall
    BY <2>1, <2>5 DEF Stall
  <2> QED
    BY <2>2, <2>3, <2>4, <2>5 DEF Poll
<1>4. OldSessionInv'
  BY <1>0, <1>3 DEF OldSessionInv
<1>5. ASSUME ~inherited, phase' = "succeeded"
      PROVE  moved > 0
  <2>1. PollFinishes
    BY <1>0, <1>5 DEF ReadFails, Poll, PollBefore, PollRunning, PollAdvances,
       AdvanceFails, PollError, Stall, Deadline
  <2>2. session # 0
    BY <1>0, <1>5, <2>1 DEF PollFinishes, OldSessionInv
  <2> QED
    BY <2>1, <2>2 DEF PollFinishes, StatusInv
<1>6. SuccessNeedsMovement'
  BY <1>0, <1>5 DEF SuccessNeedsMovement
<1> QED
  BY <1>1, <1>2, <1>4, <1>6

(* What the board does.                                                    *)
LEMMA BoardKeepsInv ==
  ASSUME LinkedInv, Board
  PROVE  LinkedInv'
<1> USE LinkedAssumption DEF LinkedInv, Board, hostVars
<1>1. /\ status.result \in {Idle, Running, WaitHost, Finish, Error}
      /\ status.pkg \in 0..Packages /\ status.err \in BOOLEAN
  BY StatusFields
<1>2. 0 \in 0..Packages /\ 1 \in 0..Packages /\ Packages \in 0..Packages
  OBVIOUS
<1>3. ASSUME status' \in Status, session' \in {session, pending},
             pending' \in {pending, 0}, next' \in BOOLEAN, moved' \in {moved, moved + 1}
      PROVE  LinkedTypeOK' /\ RetryInv' /\ SuccessNeedsMovement'
  BY <1>3 DEF LinkedTypeOK, RetryInv, SuccessNeedsMovement
<1>4. CASE BoardBegins
  <2>1. /\ status' \in Status /\ status'.result = Running
        /\ session' # 0
    BY <1>1, <1>2, <1>4 DEF BoardBegins, Show, Status, Idle, Running, WaitHost,
       Finish, Error
  <2>2. /\ session' \in {session, pending} /\ pending' \in {pending, 0}
        /\ next' \in {next, FALSE} /\ moved' \in {moved, moved + 1}
    BY <1>4 DEF BoardBegins
  <2>3. LinkedTypeOK' /\ RetryInv' /\ SuccessNeedsMovement'
    BY <1>3, <2>1, <2>2 DEF LinkedTypeOK
  <2>4. StatusInv'
    BY <1>1, <1>4, <2>1 DEF BoardBegins, StatusInv, LinkedTypeOK, Idle, Running, WaitHost,
       Finish, Error
  <2>5. OldSessionInv'
    BY <1>4, <2>1, <2>2 DEF BoardBegins, OldSessionInv, Idle, Running, WaitHost,
       Finish, Error
  <2> QED
    BY <2>3, <2>4, <2>5
<1>5. CASE BoardPackageDone
  <2>1. /\ status' \in Status
        /\ status'.result \in {WaitHost, Finish}
        /\ status'.pkg = status.pkg
        /\ status'.result = Finish => status.pkg = Packages
        /\ status.result = Running
    <3>1. \/ status' = Show(WaitHost, status.pkg, FALSE)
          \/ status.pkg = Packages /\ status' = Show(Finish, status.pkg, FALSE)
      BY <1>5 DEF BoardPackageDone
    <3>2. CASE status' = Show(WaitHost, status.pkg, FALSE)
      BY <1>1, <1>5, <3>2 DEF BoardPackageDone, Show, Status, Idle, Running,
         WaitHost, Finish, Error
    <3>3. CASE status.pkg = Packages /\ status' = Show(Finish, status.pkg, FALSE)
      BY <1>1, <1>5, <3>3 DEF BoardPackageDone, Show, Status, Idle, Running,
         WaitHost, Finish, Error
    <3> QED
      BY <3>1, <3>2, <3>3
  <2>2. /\ session' \in {session, pending} /\ pending' \in {pending, 0}
        /\ next' \in {next, FALSE} /\ moved' \in {moved, moved + 1}
    BY <1>5 DEF BoardPackageDone
  <2>3. LinkedTypeOK' /\ RetryInv' /\ SuccessNeedsMovement'
    BY <1>3, <2>1, <2>2 DEF LinkedTypeOK
  <2>4. StatusInv'
    BY <1>1, <1>5, <2>1 DEF BoardPackageDone, StatusInv, LinkedTypeOK, Idle, Running, WaitHost,
       Finish, Error
  <2>5. OldSessionInv'
    BY <1>5, <2>1, <2>2 DEF BoardPackageDone, OldSessionInv, Idle, Running, WaitHost,
       Finish, Error
  <2> QED
    BY <2>3, <2>4, <2>5
<1>6. CASE BoardPackageFails
  <2>1. /\ status' \in Status /\ status'.result = Error /\ status'.err
        /\ status.result = Running
    BY <1>1, <1>2, <1>6 DEF BoardPackageFails, Show, Status, Idle, Running, WaitHost,
       Finish, Error
  <2>2. /\ session' \in {session, pending} /\ pending' \in {pending, 0}
        /\ next' \in {next, FALSE} /\ moved' \in {moved, moved + 1}
    BY <1>6 DEF BoardPackageFails
  <2>3. LinkedTypeOK' /\ RetryInv' /\ SuccessNeedsMovement'
    BY <1>3, <2>1, <2>2 DEF LinkedTypeOK
  <2>4. StatusInv'
    BY <1>1, <1>6, <2>1 DEF BoardPackageFails, StatusInv, LinkedTypeOK, Idle, Running, WaitHost,
       Finish, Error
  <2>5. OldSessionInv'
    BY <1>6, <2>1, <2>2 DEF BoardPackageFails, OldSessionInv, Idle, Running, WaitHost,
       Finish, Error
  <2> QED
    BY <2>3, <2>4, <2>5
<1>7. CASE BoardAdvances
  <2>1. /\ status' \in Status
        /\ status'.result \in {Running, Finish}
        /\ status'.result = Finish => status.pkg = Packages
        /\ status.result = WaitHost /\ next
    BY <1>1, <1>2, <1>7 DEF BoardAdvances, Show, Status, Idle, Running, WaitHost,
       Finish, Error
  <2>2. /\ session' \in {session, pending} /\ pending' \in {pending, 0}
        /\ next' \in {next, FALSE} /\ moved' \in {moved, moved + 1}
    BY <1>7 DEF BoardAdvances
  <2>3. LinkedTypeOK' /\ RetryInv' /\ SuccessNeedsMovement'
    BY <1>3, <2>1, <2>2 DEF LinkedTypeOK
  <2>4. StatusInv'
    BY <1>1, <1>7, <2>1 DEF BoardAdvances, StatusInv, LinkedTypeOK, Idle, Running, WaitHost,
       Finish, Error
  <2>5. OldSessionInv'
    BY <1>7, <2>1, <2>2 DEF BoardAdvances, OldSessionInv, Idle, Running, WaitHost,
       Finish, Error
  <2> QED
    BY <2>3, <2>4, <2>5
<1>8. CASE BoardRests
  <2>1. /\ status' \in Status /\ status'.result = Idle
    <3>1. PICK err \in {FALSE, status.err} : status' = Show(Idle, 0, err)
      BY <1>8 DEF BoardRests
    <3>2. err \in BOOLEAN
      BY <1>1
    <3> QED
      BY <1>2, <3>1, <3>2, ShowType
  <2>2. /\ session' \in {session, pending} /\ pending' \in {pending, 0}
        /\ next' \in {next, FALSE} /\ moved' \in {moved, moved + 1}
    BY <1>8 DEF BoardRests
  <2>3. LinkedTypeOK' /\ RetryInv' /\ SuccessNeedsMovement'
    BY <1>3, <2>1, <2>2 DEF LinkedTypeOK
  <2>4. StatusInv'
    BY <1>1, <1>8, <2>1 DEF BoardRests, StatusInv, LinkedTypeOK, Idle, Running, WaitHost,
       Finish, Error
  <2>5. OldSessionInv'
    BY <1>8, <2>1, <2>2 DEF BoardRests, OldSessionInv, Idle, Running, WaitHost,
       Finish, Error
  <2> QED
    BY <2>3, <2>4, <2>5
<1> QED
  BY <1>4, <1>5, <1>6, <1>7, <1>8

LEMMA StepKeepsLinkedInv == LinkedInv /\ [LinkedNext]_linkedVars => LinkedInv'
<1> SUFFICES ASSUME LinkedInv, [LinkedNext]_linkedVars PROVE LinkedInv'
  OBVIOUS
<1>1. CASE UNCHANGED linkedVars
  BY <1>1 DEF linkedVars, hostVars, boardVars, LinkedInv, LinkedTypeOK, RetryInv,
     StatusInv, OldSessionInv, SuccessNeedsMovement
<1>2. CASE LinkedNext
  BY <1>2, StartKeepsInv, PollKeepsInv, BoardKeepsInv DEF LinkedNext
<1> QED
  BY <1>1, <1>2

LEMMA LinkedInvariant == LinkedSpec => []LinkedInv
  BY InitLinkedInv, StepKeepsLinkedInv, PTL DEF LinkedSpec

-----------------------------------------------------------------------------
(* The host never starts an attempt too many, and all it keeps has its     *)
(* type, whatever the board does.                                          *)
THEOREM LinkedTypeCorrect == LinkedSpec => []LinkedTypeOK
<1>1. LinkedInv => LinkedTypeOK
  BY DEF LinkedInv
<1> QED
  BY <1>1, LinkedInvariant, PTL

(* A transaction reported as successful has moved a sausage, unless the    *)
(* board was running when it began.                                        *)
THEOREM SuccessIsMovement == LinkedSpec => []SuccessNeedsMovement
<1>1. LinkedInv => SuccessNeedsMovement
  BY DEF LinkedInv
<1> QED
  BY <1>1, LinkedInvariant, PTL

-----------------------------------------------------------------------------
(* Retries.  While nothing disturbs, only the error of its own session     *)
(* ends an attempt, and a session that fails has not moved its sausage.    *)

FieldsInv ==
    /\ status.err => status.result \in {Error, Idle}
    /\ status.result = Finish => status.pkg = Packages

\* The session shown is none of this transaction, or is over.
OldOver == session = 0 \/ status.result \in {Error, Idle}

\* The session shown has moved its sausage, and does not move another.
Delivered ==
    /\ session # 0 /\ ~status.err
    /\ \/ status.result \in {Finish, Idle}
       \/ status.result = WaitHost /\ status.pkg = Packages

OnceInv ==
    ~disturbed =>
        /\ phase \in {"ready", "start", "between", "failed"} =>
              moved = 0 /\ pending = 0 /\ OldOver
        /\ phase \in {"ready", "start"} => session # attempt
        /\ phase \in {"poll", "succeeded"} =>
              /\ pending # 0 => /\ moved = 0 /\ OldOver
                                /\ session # attempt /\ pending = attempt
              /\ moved # 0 => moved = 1 /\ Delivered
        \* A stall needs a status that stays as it is: none that rests.
        /\ phase = "poll" /\ gate =>
              status.result # Idle /\ seen.result \in {Running, WaitHost}

LEMMA InitOnceInv == LinkedInit => FieldsInv /\ OnceInv
BY DEF LinkedInit, FieldsInv, OnceInv, OldOver, Show, Idle, Running, WaitHost,
   Finish, Error

LEMMA StartKeepsOnce ==
  ASSUME LinkedInv, FieldsInv, OnceInv,
         Prepare \/ PrepareFails \/ WriteStart \/ WriteStartFails \/ Retry
  PROVE  FieldsInv' /\ OnceInv'
<1> USE LinkedAssumption DEF OnceInv, FieldsInv, OldOver, Delivered, boardVars
<1>1. CASE Prepare
  BY <1>1 DEF Prepare
<1>2. CASE PrepareFails \/ WriteStartFails
  BY <1>2 DEF PrepareFails, WriteStartFails, GetStart
<1>3. CASE WriteStart
  BY <1>3 DEF WriteStart, GetStart
<1>4. CASE Retry
  <2>1. session # attempt + 1
    BY DEF LinkedInv, LinkedTypeOK
  <2> QED
    BY <1>4, <2>1 DEF Retry
<1> QED
  BY <1>1, <1>2, <1>3, <1>4

LEMMA PollKeepsOnce ==
  ASSUME LinkedInv, FieldsInv, OnceInv, ReadFails \/ Poll \/ Deadline
  PROVE  FieldsInv' /\ OnceInv'
<1> USE DEF OnceInv, FieldsInv, OldOver, Delivered, boardVars, GateOpens,
        FailAttempt
<1> USE DEF Idle, Running, WaitHost, Finish, Error
<1>0. /\ status.result \in {Idle, Running, WaitHost, Finish, Error}
      /\ StatusInv
  BY StatusFields DEF LinkedInv
<1>1. CASE ReadFails \/ Deadline \/ AdvanceFails
  BY <1>1 DEF ReadFails, Deadline, AdvanceFails
<1>2. CASE PollBefore
  BY <1>2 DEF PollBefore
<1>3. CASE PollRunning
  BY <1>0, <1>3 DEF PollRunning, StatusInv
<1>4. CASE PollAdvances
  BY <1>4 DEF PollAdvances
<1>5. CASE PollFinishes
  BY <1>5 DEF PollFinishes
<1>6. CASE PollError
  BY <1>6 DEF PollError
<1>7. CASE Stall
  BY <1>0, <1>7 DEF Stall
<1> QED
  BY <1>1, <1>2, <1>3, <1>4, <1>5, <1>6, <1>7 DEF Poll

LEMMA BoardKeepsOnce ==
  ASSUME LinkedInv, FieldsInv, OnceInv, Board
  PROVE  FieldsInv' /\ OnceInv'
<1> USE DEF OnceInv, FieldsInv, OldOver, Delivered, Board, hostVars, Watched
<1> USE DEF Idle, Running, WaitHost, Finish, Error
<1>0. /\ status.result \in {Idle, Running, WaitHost, Finish, Error}
      /\ status.pkg \in 0..Packages /\ status.err \in BOOLEAN
      /\ phase \in {"ready", "start", "poll", "between", "succeeded", "failed"}
      /\ moved \in Nat
  BY StatusFields DEF LinkedInv, LinkedTypeOK
<1>1. CASE BoardBegins
  BY <1>0, <1>1 DEF BoardBegins, Show
<1>2. CASE BoardPackageDone
  <2>1. /\ ~status'.err /\ status'.pkg = status.pkg
        /\ status'.result \in {WaitHost, Finish}
        /\ status'.result = Finish => status.pkg = Packages
    BY <1>2 DEF BoardPackageDone, Show
  <2> QED
    BY <1>0, <1>2, <2>1 DEF BoardPackageDone
<1>3. CASE BoardPackageFails
  BY <1>0, <1>3 DEF BoardPackageFails, Show
<1>4. CASE BoardAdvances
  BY <1>0, <1>4 DEF BoardAdvances, Show
<1>5. CASE BoardRests
  <2>1. /\ status'.result = Idle
        /\ status'.err => status.err
    <3>1. PICK err \in {FALSE, status.err} : status' = Show(Idle, 0, err)
      BY <1>5 DEF BoardRests
    <3>2. err => status.err
      BY <1>0, <3>1
    <3>3. Show(Idle, 0, err).result = Idle /\ Show(Idle, 0, err).err = err
      BY DEF Show
    <3> QED
      BY <3>1, <3>2, <3>3
  <2> QED
    BY <1>0, <1>5, <2>1 DEF BoardRests
<1> QED
  BY <1>1, <1>2, <1>3, <1>4, <1>5

LEMMA StepKeepsOnceInv ==
  LinkedInv /\ FieldsInv /\ OnceInv /\ [LinkedNext]_linkedVars
      => FieldsInv' /\ OnceInv'
<1> SUFFICES ASSUME LinkedInv, FieldsInv, OnceInv, [LinkedNext]_linkedVars
             PROVE  FieldsInv' /\ OnceInv'
  OBVIOUS
<1>1. CASE UNCHANGED linkedVars
  BY <1>1 DEF linkedVars, hostVars, boardVars, FieldsInv, OnceInv, OldOver,
     Delivered
<1>2. CASE LinkedNext
  BY <1>2, StartKeepsOnce, PollKeepsOnce, BoardKeepsOnce DEF LinkedNext
<1> QED
  BY <1>1, <1>2

(* Disturbed or not, the sessions come in the order of their attempts, and *)
(* one that has still to move its sausage is counted in advance.           *)
StillToMove ==
    /\ session # 0
    /\ \/ status.result = Running
       \/ status.result = WaitHost /\ status.pkg # Packages

AttemptInv ==
    /\ pending # 0 => session < pending
    /\ phase \in {"ready", "start"} => session < attempt /\ pending < attempt
    /\ moved + (IF StillToMove THEN 1 ELSE 0) =< session

LEMMA InitAttemptInv == LinkedInit => AttemptInv
BY DEF LinkedInit, AttemptInv, StillToMove

LEMMA HostKeepsAttempt ==
  ASSUME LinkedInv, AttemptInv,
         \/ Prepare \/ PrepareFails \/ WriteStart \/ WriteStartFails \/ Retry
         \/ ReadFails \/ Poll \/ Deadline
  PROVE  AttemptInv'
<1> USE DEF AttemptInv, boardVars, FailAttempt
<1>1. /\ attempt \in Nat /\ session \in 0..attempt /\ pending \in 0..attempt
      /\ moved \in Nat
  BY LinkedAssumption DEF LinkedInv, LinkedTypeOK
<1>2. UNCHANGED <<status, session, moved>>
  BY DEF Prepare, PrepareFails, WriteStart, WriteStartFails, Retry, GetStart,
     ReadFails, Poll, PollBefore, PollRunning, PollAdvances, AdvanceFails,
     PollFinishes, PollError, Stall, Deadline
<1>3. StillToMove' <=> StillToMove
  BY <1>2 DEF StillToMove
<1>4. CASE \/ Prepare \/ PrepareFails \/ ReadFails \/ Poll \/ Deadline
  <2>1. /\ UNCHANGED <<pending, attempt>>
        /\ phase' = "start" => phase = "ready"
        /\ phase' # "ready"
    BY <1>4
       DEF Prepare, PrepareFails, ReadFails, Poll, PollBefore, PollRunning,
           PollAdvances, AdvanceFails, PollFinishes, PollError, Stall, Deadline
  <2> QED
    BY <1>2, <1>3, <2>1
<1>5. CASE WriteStart \/ WriteStartFails
  <2>1. pending' \in {pending, attempt} /\ phase = "start"
        /\ phase' \notin {"ready", "start"}
    BY <1>5 DEF WriteStart, WriteStartFails, GetStart
  <2> QED
    BY <1>1, <1>2, <1>3, <2>1
<1>6. CASE Retry
  BY <1>1, <1>2, <1>3, <1>6 DEF Retry
<1> QED
  BY <1>4, <1>5, <1>6

LEMMA BoardKeepsAttempt ==
  ASSUME LinkedInv, AttemptInv, Board
  PROVE  AttemptInv'
<1> USE DEF AttemptInv, StillToMove, Board, hostVars
<1> USE DEF Idle, Running, WaitHost, Finish, Error
<1>1. /\ status.pkg \in 0..Packages /\ Packages \in Nat
      /\ attempt \in Nat /\ session \in 0..attempt /\ pending \in 0..attempt
      /\ moved \in Nat
  BY LinkedAssumption, StatusFields DEF LinkedInv, LinkedTypeOK
<1>2. CASE BoardBegins
  BY <1>1, <1>2 DEF BoardBegins, Show
<1>3. CASE BoardPackageDone
  <2>1. /\ status.result = Running
        /\ status'.result \in {WaitHost, Finish} /\ status'.pkg = status.pkg
        /\ status'.result = Finish => status.pkg = Packages
    BY <1>3 DEF BoardPackageDone, Show
  <2> QED
    BY <1>1, <1>3, <2>1 DEF BoardPackageDone
<1>4. CASE BoardPackageFails \/ BoardRests
  <2>1. status'.result \in {Idle, Error}
    BY <1>4 DEF BoardPackageFails, BoardRests, Show
  <2>2. UNCHANGED <<session, pending, moved, phase, attempt>>
    BY <1>4 DEF BoardPackageFails, BoardRests
  <2>3. ~StillToMove'
    BY <2>1
  <2>4. moved =< session
    BY <1>1
  <2> QED
    BY <2>2, <2>3, <2>4, <1>1
<1>5. CASE BoardAdvances
  BY <1>1, <1>5 DEF BoardAdvances, Show
<1> QED
  BY <1>2, <1>3, <1>4, <1>5

LEMMA StepKeepsAttemptInv ==
  LinkedInv /\ AttemptInv /\ [LinkedNext]_linkedVars => AttemptInv'
<1> SUFFICES ASSUME LinkedInv, AttemptInv, [LinkedNext]_linkedVars
             PROVE  AttemptInv'
  OBVIOUS
<1>1. CASE UNCHANGED linkedVars
  BY <1>1 DEF linkedVars, hostVars, boardVars, AttemptInv, StillToMove
<1>2. CASE LinkedNext
  BY <1>2, HostKeepsAttempt, BoardKeepsAttempt DEF LinkedNext
<1> QED
  BY <1>1, <1>2

(* Each attempt moves at most one sausage, however late the board begins   *)
(* it; all attempts together move one as long as no message is lost,       *)
(* nothing is slow and no deadline passes.                                 *)
THEOREM AttemptsMoveOnce == LinkedSpec => []RetriesMoveNoMore
<1>1. LinkedInv /\ OnceInv /\ AttemptInv => RetriesMoveNoMore
  <2> SUFFICES ASSUME LinkedInv, OnceInv, AttemptInv PROVE RetriesMoveNoMore
    OBVIOUS
  <2>1. /\ attempt \in Nat /\ session \in 0..attempt /\ moved \in Nat
    BY LinkedAssumption DEF LinkedInv, LinkedTypeOK
  <2>2. moved =< attempt
    BY <2>1 DEF AttemptInv
  <2>3. ~disturbed => moved =< 1
    BY DEF LinkedInv, LinkedTypeOK, OnceInv
  <2> QED
    BY <2>2, <2>3 DEF RetriesMoveNoMore
<1>2. LinkedSpec => [](FieldsInv /\ OnceInv)
  BY InitOnceInv, StepKeepsOnceInv, LinkedInvariant, PTL DEF LinkedSpec
<1>3. LinkedSpec => []AttemptInv
  BY InitAttemptInv, StepKeepsAttemptInv, LinkedInvariant, PTL DEF LinkedSpec
<1> QED
  BY <1>1, <1>2, <1>3, LinkedInvariant, PTL
=============================================================================
