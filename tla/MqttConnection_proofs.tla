------------------------ MODULE MqttConnection_proofs ------------------------
(***************************************************************************)
(* Safety of the MQTT connection, for any set of generations and any       *)
(* number of reconnect jobs.                                               *)
(*                                                                         *)
(* The lock isConnecting has one owner at a time: a thread on its way, or  *)
(* the client of the current generation until its answer is handled.       *)
(* OwnerInv says so for each of them; with it a thread that prepares a new *)
(* generation knows that no client connects or is connected.  WakeInv      *)
(* follows the wake lock from one generation to the next.                  *)
(***************************************************************************)
EXTENDS MqttConnection, TLAPS

\* A thread inside connect, between its lock and its answer.
InConnect(t) == caller[t] \in {"locked"} \cup Generation

NobodyInConnect == \A t \in Thread : ~InConnect(t)

OwnerInv ==
    \* A thread inside connect holds the lock, alone.
    /\ \A t \in Thread : InConnect(t) => isConnecting
    /\ \A t, u \in Thread : InConnect(t) /\ InConnect(u) => t = u
    \* Its generation is the current one, and new.
    /\ \A t \in Thread : caller[t] \in Generation =>
          /\ caller[t] = connectionGeneration
          /\ session[caller[t]] = "none"
          /\ subscription[caller[t]] = "none"
          /\ callback[caller[t]] = "none"
    \* Only clients of the past are closed.
    /\ connectionGeneration \notin closing
    \* A client that connects is the current one, has not been answered and
    \* holds the lock, alone.
    /\ \A g \in Generation : session[g] = "connecting" =>
          /\ isConnecting /\ NobodyInConnect
          /\ g = mqttClient /\ g = connectionGeneration
          /\ subscription[g] = "none" /\ callback[g] = "none"
    \* So does one whose answer is still to be handled.
    /\ \A g \in Generation :
          callback[g] \in {"success", "failure"} /\ g = connectionGeneration =>
             isConnecting /\ NobodyInConnect
    \* A connected client is the current one, and nobody replaces it.
    /\ \A g \in Generation : session[g] = "connected" =>
          g = mqttClient /\ g = connectionGeneration /\ NobodyInConnect

MqttInv ==
    /\ MqttTypeOK
    /\ ~shut => OwnerInv /\ LockHasOwner

LEMMA MqttInitInv == MqttInit => MqttInv
<1> SUFFICES ASSUME MqttInit PROVE MqttInv
  OBVIOUS
<1>1. MqttTypeOK
  <2>1. jobs \in 0..MaxJobs
    BY MqttAssumption DEF MqttInit
  <2> QED
    BY <2>1 DEF MqttInit, MqttTypeOK
<1>2. NobodyInConnect
  BY MqttAssumption DEF MqttInit, NobodyInConnect, InConnect
<1>3. OwnerInv /\ LockHasOwner
  BY <1>2, MqttAssumption DEF MqttInit, OwnerInv, LockHasOwner,
     NobodyInConnect, InConnect
<1> QED
  BY <1>1, <1>3 DEF MqttInv

-----------------------------------------------------------------------------
(* Types, a group of actions at a time.                                    *)

LEMMA ConnectType ==
    ASSUME MqttTypeOK, NEW t \in Thread, Connect(t) \/ ConnectThrows(t)
    PROVE  MqttTypeOK'
<1> USE DEF MqttTypeOK, clientVars, lockVars, jobVars
<1>1. CASE ConnectLocks(t)
  BY <1>1 DEF ConnectLocks
<1>2. CASE ConnectPrepares(t)
  BY <1>2 DEF ConnectPrepares, CleanupOldClient
<1>3. CASE ConnectSends(t)
  BY <1>3 DEF ConnectSends
<1>4. CASE ConnectThrows(t)
  BY <1>4 DEF ConnectThrows, ReleaseWakeLock, Scheduler
<1> QED
  BY <1>1, <1>2, <1>3, <1>4 DEF Connect

LEMMA LibraryType ==
    ASSUME MqttTypeOK, NEW g \in Generation, Library(g)
    PROVE  MqttTypeOK'
<1> USE DEF MqttTypeOK, clientVars, lockVars, jobVars
<1>1. CASE AttemptEnds(g)
  BY <1>1 DEF AttemptEnds
<1>2. CASE OnSuccess(g)
  BY <1>2 DEF OnSuccess, ReleaseWakeLock
<1>3. CASE OnFailure(g)
  BY <1>3 DEF OnFailure, ReleaseWakeLock, Scheduler
<1>4. CASE SubscriptionGranted(g)
  BY <1>4 DEF SubscriptionGranted
<1>5. CASE SubscriptionFails(g)
  <2>1. posting' \subseteq Scheduler
    <3>1. posting' \in {posting, posting \cup {g}}
      BY <1>5 DEF SubscriptionFails, CallBackFalse, CheckForJob
    <3> QED
      BY <3>1 DEF Scheduler
  <2>2. session' \in [Generation ->
                       {"none", "connecting", "connected", "lost", "closed"}]
    BY <1>5 DEF SubscriptionFails
  <2>3. wakeLock' \in {NoGeneration} \cup Generation
    BY <1>5 DEF SubscriptionFails, ReleaseWakeLock
  <2> QED
    BY <1>5, <2>1, <2>2, <2>3 DEF SubscriptionFails
<1>6. CASE Breaks(g)
  BY <1>6 DEF Breaks
<1>7. CASE ConnectionLost(g)
  BY <1>7 DEF ConnectionLost
<1>8. CASE ReleaseAndReconnect(g)
  BY <1>8 DEF ReleaseAndReconnect, CheckForJob, Scheduler
<1>9. CASE OldClientCloses(g)
  BY <1>9 DEF OldClientCloses
<1> QED
  BY <1>1, <1>2, <1>3, <1>4, <1>5, <1>6, <1>7, <1>8, <1>9 DEF Library

LEMMA OthersType ==
    ASSUME MqttTypeOK,
           \/ \E who \in Scheduler : PostJob(who)
           \/ JobRuns \/ Patrol \/ SaveMqttConfig \/ Shutdown \/ NetworkChanges
           \/ UNCHANGED mqttVars
    PROVE  MqttTypeOK'
<1> USE DEF MqttTypeOK, clientVars, lockVars, jobVars
<1>1. CASE \E who \in Scheduler : PostJob(who)
  BY <1>1, MqttAssumption DEF PostJob
<1>2. CASE JobRuns
  <2>1. jobs' \in 0..MaxJobs
    BY <1>2, MqttAssumption DEF JobRuns
  <2>2. caller' \in [Thread -> {"idle", "calling", "locked"} \cup Generation]
    BY <1>2 DEF JobRuns
  <2> QED
    BY <1>2, <2>1, <2>2 DEF JobRuns
<1>3. CASE Patrol
  BY <1>3 DEF Patrol, CheckForJob, Scheduler
<1>4. CASE SaveMqttConfig
  BY <1>4 DEF SaveMqttConfig, Thread
<1>5. CASE Shutdown
  <2>1. jobs' \in 0..MaxJobs
    BY <1>5, MqttAssumption DEF Shutdown
  <2>2. closing' \subseteq Generation
    BY <1>5 DEF Shutdown
  <2> QED
    BY <1>5, <2>1, <2>2 DEF Shutdown
<1>6. CASE NetworkChanges
  BY <1>6 DEF NetworkChanges
<1>7. CASE UNCHANGED mqttVars
  BY <1>7 DEF mqttVars
<1> QED
  BY <1>1, <1>2, <1>3, <1>4, <1>5, <1>6, <1>7

-----------------------------------------------------------------------------
(* The lock and its owner.                                                 *)

(* A step that moves threads outside connect only touches nothing of it.   *)
LEMMA OwnerUnmoved ==
    ASSUME OwnerInv, LockHasOwner, UNCHANGED <<lockVars, clientVars, shut>>,
           \A t \in Thread :
              \/ caller'[t] = caller[t]
              \/ /\ caller[t] \notin {"locked"} \cup Generation
                 /\ caller'[t] \notin {"locked"} \cup Generation
    PROVE  OwnerInv' /\ LockHasOwner'
BY DEF OwnerInv, LockHasOwner, InConnect, NobodyInConnect, lockVars, clientVars

(* connect: the thread that takes the lock finds no client that connects,  *)
(* is connected or waits to be answered for the current generation.        *)
LEMMA ConnectOwner ==
    ASSUME MqttTypeOK, OwnerInv, LockHasOwner, NEW t \in Thread,
           Connect(t) \/ ConnectThrows(t)
    PROVE  OwnerInv' /\ LockHasOwner'
<1> USE DEF MqttTypeOK, clientVars, lockVars, jobVars, InConnect,
        NobodyInConnect
<1>1. CASE ConnectLocks(t)
  <2>1. CASE isConnecting \/ Connected
    <3>1. caller' = [caller EXCEPT ![t] = "idle"] /\ caller[t] = "calling"
          /\ UNCHANGED <<lockVars, clientVars, shut>>
      BY <1>1, <2>1 DEF ConnectLocks
    <3> QED
      BY <3>1, OwnerUnmoved, MqttAssumption
  <2>2. CASE ~(isConnecting \/ Connected)
    <3>1. caller' = [caller EXCEPT ![t] = "locked"] /\ isConnecting'
      BY <1>1, <2>2 DEF ConnectLocks
    <3>2. NobodyInConnect
      BY <2>2 DEF OwnerInv
    <3>3. \A g \in Generation : session[g] \notin {"connecting", "connected"}
      BY <2>2, MqttAssumption DEF OwnerInv, Connected
    <3> QED
      BY <1>1, <2>2, <3>1, <3>2, <3>3, MqttAssumption DEF ConnectLocks,
         OwnerInv, LockHasOwner
  <2> QED
    BY <2>1, <2>2
<1>2. CASE ConnectPrepares(t)
  BY <1>2, MqttAssumption DEF ConnectPrepares, CleanupOldClient, Free, OwnerInv,
     LockHasOwner
<1>3. CASE ConnectSends(t)
  BY <1>3, MqttAssumption DEF ConnectSends, OwnerInv, LockHasOwner
<1>4. CASE ConnectThrows(t)
  BY <1>4, MqttAssumption DEF ConnectThrows, OwnerInv, LockHasOwner
<1> QED
  BY <1>1, <1>2, <1>3, <1>4 DEF Connect

LEMMA LibraryOwner ==
    ASSUME MqttTypeOK, OwnerInv, LockHasOwner, ~shut,
           NEW g \in Generation, Library(g)
    PROVE  OwnerInv' /\ LockHasOwner'
<1> USE DEF MqttTypeOK, clientVars, lockVars, jobVars, InConnect,
        NobodyInConnect
<1>1. CASE AttemptEnds(g)
  BY <1>1 DEF AttemptEnds, OwnerInv, LockHasOwner
<1>2. CASE OnSuccess(g)
  BY <1>2 DEF OnSuccess, OwnerInv, LockHasOwner
<1>3. CASE OnFailure(g)
  BY <1>3 DEF OnFailure, OwnerInv, LockHasOwner
<1>4. CASE SubscriptionGranted(g)
  BY <1>4 DEF SubscriptionGranted, OwnerInv, LockHasOwner
<1>5. CASE SubscriptionFails(g)
  BY <1>5 DEF SubscriptionFails, OwnerInv, LockHasOwner
<1>6. CASE Breaks(g)
  BY <1>6 DEF Breaks, OwnerInv, LockHasOwner
<1>7. CASE ConnectionLost(g)
  BY <1>7 DEF ConnectionLost, OwnerInv, LockHasOwner
<1>8. CASE ReleaseAndReconnect(g)
  BY <1>8 DEF ReleaseAndReconnect, OwnerInv, LockHasOwner
<1>9. CASE OldClientCloses(g)
  BY <1>9 DEF OldClientCloses, OwnerInv, LockHasOwner
<1> QED
  BY <1>1, <1>2, <1>3, <1>4, <1>5, <1>6, <1>7, <1>8, <1>9 DEF Library

(* Nobody else touches the lock, a client or a thread inside connect.      *)
LEMMA OthersOwner ==
    ASSUME MqttTypeOK, OwnerInv, LockHasOwner, ~shut,
           \/ \E who \in Scheduler : PostJob(who)
           \/ JobRuns \/ Patrol \/ SaveMqttConfig \/ NetworkChanges
           \/ UNCHANGED mqttVars
    PROVE  OwnerInv' /\ LockHasOwner'
<1>1. UNCHANGED <<lockVars, clientVars, shut>>
  BY DEF PostJob, JobRuns, Patrol, SaveMqttConfig, NetworkChanges, mqttVars
<1>2. \A t \in Thread :
         \/ caller'[t] = caller[t]
         \/ /\ caller[t] \notin {"locked"} \cup Generation
            /\ caller'[t] \notin {"locked"} \cup Generation
  BY MqttAssumption DEF PostJob, JobRuns, Patrol, SaveMqttConfig,
     NetworkChanges, mqttVars, MqttTypeOK, Thread
<1> QED
  BY <1>1, <1>2, OwnerUnmoved

LEMMA MqttNextInv == MqttInv /\ [MqttNext]_mqttVars => MqttInv'
<1> SUFFICES ASSUME MqttInv, [MqttNext]_mqttVars PROVE MqttInv'
  OBVIOUS
<1>1. MqttTypeOK'
  BY ConnectType, LibraryType, OthersType DEF MqttInv, MqttNext
<1>2. ASSUME ~shut' PROVE OwnerInv' /\ LockHasOwner'
  <2>1. ~shut /\ MqttTypeOK /\ OwnerInv /\ LockHasOwner
    BY <1>2 DEF MqttInv, MqttNext, mqttVars
  <2>2. ~Shutdown
    BY <1>2 DEF Shutdown
  <2> QED
    BY <2>1, <2>2, ConnectOwner, LibraryOwner, OthersOwner DEF MqttNext
<1> QED
  BY <1>1, <1>2 DEF MqttInv

LEMMA MqttSafety == MqttSpec => []MqttInv
  BY MqttInitInv, MqttNextInv, PTL DEF MqttSpec

-----------------------------------------------------------------------------
(* The wake lock and the entry of a job.  The answer to come of a          *)
(* generation that is not over is that of a live connection: it breaks     *)
(* only after it was handled.                                              *)
WakeInv ==
    ~shut =>
        /\ WakeLockHasOwner
        /\ \A g \in Generation :
              callback[g] = "success" /\ g = connectionGeneration =>
                  session[g] = "connected"
        /\ job => jobs > 0

LEMMA WakeInit == MqttInit => WakeInv
BY DEF MqttInit, WakeInv, WakeLockHasOwner

LEMMA ConnectWake ==
    ASSUME MqttTypeOK, OwnerInv, WakeInv, ~shut, NEW t \in Thread,
           Connect(t) \/ ConnectThrows(t)
    PROVE  WakeInv'
<1> USE DEF MqttTypeOK, clientVars, lockVars, jobVars, WakeInv,
        WakeLockHasOwner
<1>1. CASE ConnectLocks(t)
  <2>1. /\ caller[t] = "calling"
        /\ caller' \in {[caller EXCEPT ![t] = "idle"], [caller EXCEPT ![t] = "locked"]}
        /\ UNCHANGED <<wakeLock, connectionGeneration, session, callback, job,
                       jobs, shut>>
    BY <1>1 DEF ConnectLocks
  <2>2. \A u \in Thread : wakeLock # NoGeneration /\ caller[u] = wakeLock =>
          caller'[u] = wakeLock
    BY <2>1, MqttAssumption
  <2> QED
    BY <2>1, <2>2
<1>2. CASE ConnectPrepares(t)
  BY <1>2, MqttAssumption DEF ConnectPrepares, Free
<1>3. CASE ConnectSends(t)
  <2>1. caller[t] = connectionGeneration
    BY <1>3 DEF ConnectSends, OwnerInv
  <2>2. callback[caller[t]] = "none"
    BY <1>3 DEF ConnectSends, OwnerInv
  <2> QED
    BY <1>3, <2>1, <2>2, MqttAssumption DEF ConnectSends
<1>4. CASE ConnectThrows(t)
  BY <1>4 DEF ConnectThrows, ReleaseWakeLock
<1> QED
  BY <1>1, <1>2, <1>3, <1>4 DEF Connect

LEMMA LibraryWake ==
    ASSUME MqttTypeOK, OwnerInv, WakeInv, ~shut,
           NEW g \in Generation, Library(g)
    PROVE  WakeInv'
<1> USE DEF MqttTypeOK, clientVars, lockVars, jobVars, WakeInv,
        WakeLockHasOwner
<1>1. CASE AttemptEnds(g)
  BY <1>1 DEF AttemptEnds
<1>2. CASE OnSuccess(g)
  BY <1>2 DEF OnSuccess, ReleaseWakeLock
<1>3. CASE OnFailure(g)
  BY <1>3 DEF OnFailure, ReleaseWakeLock
<1>4. CASE SubscriptionGranted(g)
  BY <1>4 DEF SubscriptionGranted
<1>5. CASE SubscriptionFails(g)
  BY <1>5 DEF SubscriptionFails, ReleaseWakeLock
<1>6. CASE Breaks(g)
  BY <1>6 DEF Breaks
<1>7. CASE ConnectionLost(g)
  BY <1>7 DEF ConnectionLost
<1>8. CASE ReleaseAndReconnect(g)
  BY <1>8 DEF ReleaseAndReconnect
<1>9. CASE OldClientCloses(g)
  BY <1>9 DEF OldClientCloses, OwnerInv
<1> QED
  BY <1>1, <1>2, <1>3, <1>4, <1>5, <1>6, <1>7, <1>8, <1>9 DEF Library

LEMMA OthersWake ==
    ASSUME MqttTypeOK, WakeInv, ~shut, ~shut',
           \/ \E who \in Scheduler : PostJob(who)
           \/ JobRuns \/ Patrol \/ SaveMqttConfig \/ Shutdown \/ NetworkChanges
           \/ UNCHANGED mqttVars
    PROVE  WakeInv'
<1> USE DEF WakeInv, WakeLockHasOwner
<1>1. UNCHANGED <<wakeLock, lockVars, clientVars>>
  BY DEF PostJob, JobRuns, Patrol, SaveMqttConfig, NetworkChanges, Shutdown,
     mqttVars
<1>2. \A t \in Thread : caller[t] \in Generation => caller'[t] = caller[t]
  BY MqttAssumption DEF PostJob, JobRuns, Patrol, SaveMqttConfig, Shutdown,
     NetworkChanges, mqttVars, MqttTypeOK, Thread
<1>3. job' => jobs' > 0
  <2>1. CASE \E who \in Scheduler : PostJob(who)
    <3>1. jobs' = IF jobs < MaxJobs THEN jobs + 1 ELSE jobs
      BY <2>1 DEF PostJob
    <3> QED
      BY <3>1, MqttAssumption DEF MqttTypeOK
  <2>2. CASE JobRuns \/ Shutdown
    BY <2>2 DEF JobRuns, Shutdown
  <2>3. CASE Patrol \/ SaveMqttConfig \/ NetworkChanges \/ UNCHANGED mqttVars
    <3>1. UNCHANGED <<job, jobs>>
      BY <2>3 DEF Patrol, SaveMqttConfig, NetworkChanges, mqttVars, jobVars
    <3> QED
      BY <3>1
  <2> QED
    BY <2>1, <2>2, <2>3
<1> QED
  BY <1>1, <1>2, <1>3 DEF lockVars, clientVars, MqttTypeOK

LEMMA WakeNext == MqttInv /\ WakeInv /\ [MqttNext]_mqttVars => WakeInv'
<1> SUFFICES ASSUME MqttInv, WakeInv, [MqttNext]_mqttVars, ~shut'
             PROVE  WakeInv'
  BY DEF WakeInv
<1>1. ~shut
  BY DEF MqttNext, mqttVars
<1> QED
  BY <1>1, ConnectWake, LibraryWake, OthersWake DEF MqttInv, MqttNext

LEMMA WakeSafety == MqttSpec => []WakeInv
  BY WakeInit, WakeNext, MqttSafety, PTL DEF MqttSpec

-----------------------------------------------------------------------------
(* For any generations and any number of jobs the variables keep their     *)
(* types.                                                                  *)
THEOREM MqttTypeCorrect == MqttSpec => []MqttTypeOK
<1>1. MqttInv => MqttTypeOK
  BY DEF MqttInv
<1> QED
  BY <1>1, MqttSafety, PTL

(* However the threads, the answers and the jobs meet: neither the lock of *)
(* the attempts nor the wake lock nor the entry of a job is left behind.   *)
THEOREM LocksAreOwned == MqttSpec => []NothingLeftBehind
<1>1. MqttInv /\ WakeInv => NothingLeftBehind
  BY DEF MqttInv, WakeInv, WakeLockHasOwner, LockHasOwner, NothingLeftBehind
<1> QED
  BY <1>1, MqttSafety, WakeSafety, PTL

(* ... and the one client that is connected is the current one.            *)
THEOREM LiveIsCurrent == MqttSpec => []LiveSessionIsCurrent
<1>1. MqttInv => LiveSessionIsCurrent
  BY DEF MqttInv, OwnerInv, LiveSessionIsCurrent
<1> QED
  BY <1>1, MqttSafety, PTL
=============================================================================
