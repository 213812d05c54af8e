--------------------------- MODULE MqttConnection ----------------------------
(***************************************************************************)
(* The MQTT connection of the device: VMMqtt (connect, subscribe,          *)
(* disconnect, wake lock) and VMMqttHelper (reconnect jobs, connectionLost)*)
(* with the patrol of ConnectManageHelper and the configuration page.      *)
(*                                                                         *)
(* Three threads call connect: the start of the runtime and its patrol,    *)
(* the configuration page, and the main looper, which runs the reconnect   *)
(* jobs.  The library answers on threads of its own, one per client.  A    *)
(* step of the model is what no other thread gets in between in the time   *)
(* it takes; where only local work lies between two lines (checking a      *)
(* generation and releasing the wake lock, checking for a job and entering *)
(* it) they are two steps.                                                 *)
(*                                                                         *)
(* A generation names a connect attempt, its client and its callbacks; the *)
(* code takes the time of day.  Here a name is free again once nothing     *)
(* refers to it.                                                           *)
(***************************************************************************)
EXTENDS Naturals, FiniteSets

CONSTANTS
    Generation,    \* names of connect attempts
    NoGeneration,  \* 0L, and null for a client
    MaxJobs        \* bound: reconnect jobs posted to the main looper

ASSUME MqttAssumption ==
    /\ NoGeneration \notin Generation
    /\ Generation \cap {"idle", "calling", "locked"} = {}
    /\ MaxJobs \in Nat \ {0}

VARIABLES
    isConnecting,
    connectionGeneration,
    mqttClient,     \* the generation it belongs to
    session,        \* what became of the client of each generation
    subscription,   \* none, pending or granted, per generation
    closing,        \* clients that are to be closed
    callback,       \* what the library has to call back, per generation
    retries,        \* attempts of a job: callback(false) schedules the next
    wakeLock,       \* wakeLockGeneration while wakeLock is held, else none
    caller,         \* where each thread that may connect is
    posting,        \* threads of scheduleReconnect between check and entry
    jobs,           \* reconnect jobs posted to the main looper
    job,            \* reconnectRunnable # null
    network,
    shut            \* ConnectManageHelper.disConnect was called

clientVars == <<mqttClient, session, closing, subscription, callback, retries>>
lockVars == <<isConnecting, connectionGeneration>>
jobVars == <<posting, jobs, job>>
mqttVars == <<lockVars, clientVars, wakeLock, caller, jobVars, network, shut>>

\* The start of the runtime, the configuration page, the main looper.
Thread == {"start", "page", "main"}

\* Threads that call scheduleReconnect: the patrol, the main looper (a connect
\* that throws) and the thread of each client.
Scheduler == {"patrol", "main"} \cup Generation

MqttTypeOK ==
    /\ isConnecting \in BOOLEAN
    /\ connectionGeneration \in {NoGeneration} \cup Generation
    /\ mqttClient \in {NoGeneration} \cup Generation
    /\ session \in [Generation ->
                     {"none", "connecting", "connected", "lost", "closed"}]
    /\ subscription \in [Generation -> {"none", "pending", "granted"}]
    /\ callback \in [Generation ->
                      {"none", "success", "failure", "lost", "release"}]
    /\ retries \subseteq Generation /\ closing \subseteq Generation
    /\ wakeLock \in {NoGeneration} \cup Generation
    /\ caller \in [Thread -> {"idle", "calling", "locked"} \cup Generation]
    /\ posting \subseteq Scheduler
    /\ jobs \in 0..MaxJobs /\ job \in BOOLEAN
    /\ network \in {"up", "down"} /\ shut \in BOOLEAN

MqttInit ==
    /\ isConnecting = FALSE /\ connectionGeneration = NoGeneration
    /\ mqttClient = NoGeneration
    /\ session = [g \in Generation |-> "none"]
    /\ subscription = [g \in Generation |-> "none"]
    /\ callback = [g \in Generation |-> "none"]
    /\ retries = {} /\ closing = {}
    /\ wakeLock = NoGeneration
    /\ caller = [t \in Thread |-> IF t = "start" THEN "calling" ELSE "idle"]
    /\ posting = {} /\ jobs = 0 /\ job = FALSE
    /\ network \in {"up", "down"} /\ shut = FALSE

-----------------------------------------------------------------------------
\* connectStatus.
Connected == mqttClient # NoGeneration /\ session[mqttClient] = "connected"

\* Nothing refers to it any more.
Free(g) ==
    /\ g \notin {connectionGeneration, mqttClient} /\ g \notin posting
    /\ g \notin closing /\ wakeLock # g /\ callback[g] = "none"
    /\ session[g] \in {"none", "closed"}
    /\ \A t \in Thread : caller[t] # g

\* releaseWakeLock: only for the generation that holds it.
ReleaseWakeLock(g) ==
    wakeLock' = IF wakeLock = g THEN NoGeneration ELSE wakeLock

\* scheduleReconnect, first half: a job is left to the attempt under way or to
\* the job already entered.
CheckForJob(who) ==
    posting' = IF isConnecting \/ job THEN posting ELSE posting \cup {who}

\* ... second half: entered and posted.
PostJob(who) ==
    /\ who \in posting
    /\ posting' = posting \ {who}
    /\ jobs' = IF jobs < MaxJobs THEN jobs + 1 ELSE jobs
    /\ job' = TRUE
    /\ UNCHANGED <<lockVars, clientVars, wakeLock, caller, network, shut>>

\* The callback of connect with false: only the chain of jobs goes on.
CallBackFalse(g) ==
    IF g \in retries THEN CheckForJob(g) ELSE UNCHANGED posting

-----------------------------------------------------------------------------
(* connect, on the thread of its caller.                                   *)

\* Fault: two attempts at the same time.
ConnectUnguarded(t) ==
    /\ caller[t] = "calling"
    /\ IF Connected
         THEN caller' = [caller EXCEPT ![t] = "idle"] /\ UNCHANGED isConnecting
         ELSE /\ isConnecting' = TRUE
              /\ caller' = [caller EXCEPT ![t] = "locked"]
    /\ UNCHANGED <<connectionGeneration, clientVars, wakeLock, jobVars,
                   network, shut>>

\* An attempt under way, a live connection (callback(true)), or the lock.
ConnectLocks(t) ==
    /\ caller[t] = "calling"
    /\ IF isConnecting \/ Connected
         THEN caller' = [caller EXCEPT ![t] = "idle"] /\ UNCHANGED isConnecting
         ELSE /\ isConnecting' = TRUE
              /\ caller' = [caller EXCEPT ![t] = "locked"]
    /\ UNCHANGED <<connectionGeneration, clientVars, wakeLock, jobVars,
                   network, shut>>

\* cleanupOldClient.
CleanupOldClient ==
    closing' = IF mqttClient = NoGeneration THEN closing
               ELSE closing \cup {mqttClient}

\* A new generation; the old client is let go, the wake lock changes hands.
ConnectPrepares(t) ==
    /\ caller[t] = "locked"
    /\ \E g \in Generation :
          /\ Free(g)
          /\ connectionGeneration' = g
          /\ wakeLock' = g
          /\ caller' = [caller EXCEPT ![t] = g]
          /\ retries' = IF t = "main" THEN retries \cup {g} ELSE retries \ {g}
          /\ session' = [session EXCEPT ![g] = "none"]
          /\ subscription' = [subscription EXCEPT ![g] = "none"]
    /\ mqttClient' = NoGeneration
    /\ CleanupOldClient
    /\ UNCHANGED <<isConnecting, callback, jobVars, network, shut>>

\* The client exists and connects.
ConnectSends(t) ==
    /\ caller[t] \in Generation
    /\ mqttClient' = caller[t]
    /\ session' = [session EXCEPT ![caller[t]] = "connecting"]
    /\ caller' = [caller EXCEPT ![t] = "idle"]
    /\ UNCHANGED <<lockVars, subscription, callback, retries, closing,
                   wakeLock, jobVars, network, shut>>

\* Fault: the lock is kept when the client cannot be made.
ConnectThrowsLocked(t) ==
    /\ caller[t] \in Generation
    /\ caller' = [caller EXCEPT ![t] = "idle"]
    /\ ReleaseWakeLock(connectionGeneration)
    /\ IF t = "main" THEN CheckForJob("main") ELSE UNCHANGED posting
    /\ UNCHANGED <<lockVars, clientVars, jobs, job, network, shut>>

\* Something throws: the lock is given back, callback(false).
ConnectThrows(t) ==
    /\ caller[t] \in Generation
    /\ isConnecting' = FALSE
    /\ caller' = [caller EXCEPT ![t] = "idle"]
    /\ ReleaseWakeLock(connectionGeneration)
    /\ posting' = IF t = "main" /\ ~job THEN posting \cup {"main"} ELSE posting
    /\ UNCHANGED <<connectionGeneration, clientVars, jobs, job, network, shut>>

-----------------------------------------------------------------------------
(* The library, on the thread of the client.                               *)

AttemptEnds(g) ==
    /\ session[g] = "connecting"
    /\ \/ /\ network = "up"
          /\ session' = [session EXCEPT ![g] = "connected"]
          /\ callback' = [callback EXCEPT ![g] = "success"]
       \/ /\ network = "down"
          /\ session' = [session EXCEPT ![g] = "lost"]
          /\ callback' = [callback EXCEPT ![g] = "failure"]
    /\ UNCHANGED <<lockVars, mqttClient, subscription, retries, closing,
                   wakeLock, caller, jobVars, network, shut>>

\* onSuccess: a late answer is dropped; else the lock is given back, the
\* callback bound and the subscription sent.
OnSuccess(g) ==
    /\ callback[g] = "success"
    /\ callback' = [callback EXCEPT ![g] = "none"]
    /\ \/ /\ g # connectionGeneration
          /\ ReleaseWakeLock(g)
          /\ UNCHANGED <<isConnecting, subscription>>
       \/ /\ g = connectionGeneration
          /\ isConnecting' = FALSE
          /\ subscription' = [subscription EXCEPT ![g] = "pending"]
          /\ UNCHANGED wakeLock
    /\ UNCHANGED <<connectionGeneration, mqttClient, session, retries,
                   closing, caller, jobVars, network, shut>>

\* onFailure: likewise, and the chain of jobs goes on.
OnFailure(g) ==
    /\ callback[g] = "failure"
    /\ callback' = [callback EXCEPT ![g] = "none"]
    /\ ReleaseWakeLock(g)
    /\ \/ g # connectionGeneration /\ UNCHANGED <<isConnecting, posting>>
       \/ /\ g = connectionGeneration
          /\ isConnecting' = FALSE
          /\ posting' = IF g \in retries /\ ~job THEN posting \cup {g}
                        ELSE posting
    /\ retries' = retries \ {g}
    /\ UNCHANGED <<connectionGeneration, mqttClient, session, subscription,
                   closing, caller, jobs, job, network, shut>>

SubscriptionGranted(g) ==
    /\ subscription[g] = "pending" /\ session[g] = "connected"
    /\ subscription' = [subscription EXCEPT ![g] = "granted"]
    /\ retries' = retries \ {g}
    /\ UNCHANGED <<lockVars, mqttClient, session, callback, closing,
                   wakeLock, caller, jobVars, network, shut>>

\* Fault: a connection without its subscription is kept.
SubscriptionFailsOpen(g) ==
    /\ subscription[g] = "pending" /\ callback[g] = "none"
    /\ network = "down" \/ session[g] # "connected"
    /\ subscription' = [subscription EXCEPT ![g] = "none"]
    /\ UNCHANGED <<session, wakeLock, posting>>
    /\ UNCHANGED <<lockVars, mqttClient, callback, retries, closing, caller,
                   jobs, job, network, shut>>

\* A subscription that fails, or is refused for want of a connection, takes
\* the connection of its generation with it.
SubscriptionFails(g) ==
    /\ subscription[g] = "pending" /\ callback[g] = "none"
    /\ network = "down" \/ session[g] # "connected"
    /\ subscription' = [subscription EXCEPT ![g] = "none"]
    /\ \/ g # connectionGeneration /\ UNCHANGED <<session, wakeLock, posting>>
       \/ /\ g = connectionGeneration
          /\ session' = [session EXCEPT ![g] = "closed"]
          /\ ReleaseWakeLock(g)
          /\ CallBackFalse(g)
    /\ retries' = retries \ {g}
    /\ UNCHANGED <<lockVars, mqttClient, callback, closing, caller,
                   jobs, job, network, shut>>

\* The connection breaks; connectionLost is called if it was bound.
Breaks(g) ==
    /\ session[g] = "connected" /\ network = "down" /\ callback[g] = "none"
    /\ session' = [session EXCEPT ![g] = "lost"]
    /\ callback' = [callback EXCEPT ![g] = "lost"]
    /\ subscription' = [subscription EXCEPT ![g] =
                                             IF @ = "granted" THEN "none" ELSE @]
    /\ UNCHANGED <<lockVars, mqttClient, retries, closing,
                   wakeLock, caller, jobVars, network, shut>>

\* connectionLost: dropped if late, else on to releaseWakeLock, which first
\* compares the generations,
ConnectionLost(g) ==
    /\ callback[g] = "lost"
    /\ callback' = [callback EXCEPT ![g] =
         IF g # connectionGeneration THEN "none" ELSE "release"]
    /\ UNCHANGED <<lockVars, mqttClient, session, subscription, retries,
                   closing, wakeLock, caller, jobVars, network, shut>>

\* then releases whatever lock there is and schedules a reconnect.
ReleaseAndReconnect(g) ==
    /\ callback[g] = "release"
    /\ callback' = [callback EXCEPT ![g] = "none"]
    /\ wakeLock' = NoGeneration
    /\ CheckForJob(g)
    /\ UNCHANGED <<lockVars, mqttClient, session, subscription, retries,
                   closing, caller, jobs, job, network, shut>>

\* The coroutine of cleanupOldClient, or the answer to disconnect.
OldClientCloses(g) ==
    /\ g \in closing
    /\ closing' = closing \ {g}
    /\ session' = [session EXCEPT ![g] = "closed"]
    /\ subscription' = [subscription EXCEPT ![g] = "none"]
    /\ retries' = retries \ {g}
    /\ UNCHANGED <<lockVars, mqttClient, callback, wakeLock, caller,
                   jobVars, network, shut>>

-----------------------------------------------------------------------------
(* The main looper, the patrol, the page, the end.                         *)

\* A job clears the entry and connects unless connected.
JobRuns ==
    /\ jobs > 0 /\ caller["main"] = "idle" /\ "main" \notin posting
    /\ jobs' = jobs - 1
    /\ job' = FALSE
    /\ caller' = [caller EXCEPT !["main"] =
                                    IF Connected THEN "idle" ELSE "calling"]
    /\ UNCHANGED <<lockVars, clientVars, wakeLock, posting, network, shut>>

\* Every thirty seconds: triggerManualReconnect.
Patrol ==
    /\ caller["start"] = "idle" /\ "patrol" \notin posting
    /\ ~Connected
    /\ CheckForJob("patrol")
    /\ UNCHANGED <<lockVars, clientVars, wakeLock, caller, jobs, job, network,
                   shut>>

SaveMqttConfig ==
    /\ caller["page"] = "idle"
    /\ caller' = [caller EXCEPT !["page"] = "calling"]
    /\ UNCHANGED <<lockVars, clientVars, wakeLock, jobVars, network, shut>>

\* ConnectManageHelper.disConnect: generation 0, wake lock, client, jobs.
Shutdown ==
    /\ caller["main"] = "idle"
    /\ shut' = TRUE
    /\ isConnecting' = FALSE /\ connectionGeneration' = NoGeneration
    /\ wakeLock' = NoGeneration
    /\ closing' = IF mqttClient = NoGeneration THEN closing
                  ELSE closing \cup {mqttClient}
    /\ jobs' = IF job /\ jobs > 0 THEN jobs - 1 ELSE jobs
    /\ job' = FALSE
    /\ UNCHANGED <<mqttClient, session, subscription, callback, retries,
                   caller, posting, network>>

NetworkChanges ==
    /\ network' = IF network = "up" THEN "down" ELSE "up"
    /\ UNCHANGED <<lockVars, clientVars, wakeLock, caller, jobVars, shut>>

Connect(t) == ConnectLocks(t) \/ ConnectPrepares(t) \/ ConnectSends(t)

Library(g) ==
    \/ AttemptEnds(g) \/ OnSuccess(g) \/ OnFailure(g)
    \/ SubscriptionGranted(g) \/ SubscriptionFails(g)
    \/ Breaks(g) \/ ConnectionLost(g) \/ ReleaseAndReconnect(g)
    \/ OldClientCloses(g)

\* The model ends with disConnect: what is in flight then is not followed.
MqttNext ==
    /\ ~shut
    /\ \/ \E t \in Thread : Connect(t) \/ ConnectThrows(t)
       \/ \E g \in Generation : Library(g)
       \/ \E who \in Scheduler : PostJob(who)
       \/ JobRuns \/ Patrol \/ SaveMqttConfig
       \/ Shutdown \/ NetworkChanges

MqttSpec == MqttInit /\ [][MqttNext]_mqttVars

\* Every thread goes on, the library answers (connectionTimeout is 30 s), the
\* main looper runs its jobs and the patrol goes round.
FairMqttSpec ==
    /\ MqttSpec
    /\ \A t \in Thread : WF_mqttVars(~shut /\ Connect(t))
    /\ \A g \in Generation : WF_mqttVars(~shut /\ Library(g))
    /\ \A who \in Scheduler : WF_mqttVars(~shut /\ PostJob(who))
    /\ WF_mqttVars(~shut /\ JobRuns) /\ WF_mqttVars(~shut /\ Patrol)

-----------------------------------------------------------------------------
(* Properties.                                                             *)

(* The lock isConnecting is never left behind: while it is taken a thread  *)
(* is on its way to send, or the current generation has an answer to come. *)
(* A lock left behind would refuse every later attempt, the patrol's too.  *)
LockHasOwner ==
    isConnecting /\ ~shut =>
        \/ \E t \in Thread : caller[t] \in {"locked"} \cup Generation
        \/ \E g \in Generation :
              /\ g = connectionGeneration
              /\ \/ session[g] = "connecting"
                 \/ callback[g] \in {"success", "failure"}

(* Nor is the wake lock: it belongs to the current generation, which is    *)
(* being made, connects, is connected or has an answer to come that lets   *)
(* the lock go.  And a job that is entered is on its way: an entry without *)
(* a job would keep every later one from being posted.                     *)
WakeLockHasOwner ==
    wakeLock # NoGeneration /\ ~shut =>
        /\ wakeLock = connectionGeneration
        /\ \/ \E t \in Thread : caller[t] = wakeLock
           \/ session[wakeLock] \in {"connecting", "connected"}
           \/ callback[wakeLock] # "none"

NothingLeftBehind ==
    LockHasOwner /\ WakeLockHasOwner /\ (job /\ ~shut => jobs > 0)

(* At most one client is connected, and while the runtime is up it is one  *)
(* whose callbacks count: no connection delivers orders that are dropped   *)
(* as late, and no two deliver them twice.                                 *)
LiveSessionIsCurrent ==
    \A g \in Generation :
        session[g] = "connected" /\ ~shut =>
            g = mqttClient /\ g = connectionGeneration

(* With the network up for good, and once the client can be made each time,*)
(* the device ends up connected and subscribed, however the attempts,      *)
(* answers and jobs met before.                                            *)
EndsUpSubscribed ==
    /\ <>[](network = "up")
    /\ <>[][\A t \in Thread : ~ConnectThrows(t)]_mqttVars
    => <>[](shut \/ (Connected /\ subscription[mqttClient] = "granted"))
=============================================================================
