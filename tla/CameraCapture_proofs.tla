------------------------- MODULE CameraCapture_proofs -------------------------
(***************************************************************************)
(* Types of the camera and its monitor, and that no request is forgotten,  *)
(* for any number of pictures and retries and any length of the queue.     *)
(*                                                                         *)
(* The queue may be cut when a request is put in front, so it matters that *)
(* requests are asked one after another: the one that is cut off is not    *)
(* waited for any more (AskedInOrder).  A shot that fails ends the request *)
(* only with its last retry, and then calls it back (FailKeepsMonitor).    *)
(* And it matters what goes on by itself (FlowInv): a picture that is      *)
(* looked at is still at work somewhere, and the polling has its leave     *)
(* unless a task is at work that will give it back.                        *)
(***************************************************************************)
EXTENDS CameraCapture, SequenceTheorems, TLAPS

ReqTable == [Request -> {"new", "waiting", "answered", "abandoned"}]
TaskTable == [Request -> [phase: {"none", "shooting", "detecting", "retrying"},
                          left: 0..Retries]]
CameraFields == [ready: BOOLEAN, initializing: BOOLEAN, bound: BOOLEAN,
                 pending: Shot \cup {NoShot}]

\* A retry is only waited for if there is one.
RetriesLeft(t) == \A r \in Request : t[r].phase = "retrying" => t[r].left > 0

\* Every request before one that was asked is over.
AskedInOrder ==
    \A p, r \in Request :
        p < r /\ req[r] # "new" => req[p] \in {"answered", "abandoned"}

\* What is waited for is in the queue or being worked on.
InHand ==
    \A r \in Request :
        req[r] = "waiting" =>
            task[r] # NoTask \/ \E i \in DOMAIN queue : queue[i] = r

MonitorInv ==
    /\ req \in ReqTable
    /\ queue \in Seq(Request) /\ Len(queue) =< QueueLimit
    /\ task \in TaskTable /\ RetriesLeft(task)
    /\ AskedInOrder
    /\ InHand

ServiceInv ==
    /\ external \in BOOLEAN /\ resumed \in BOOLEAN
    /\ polling \in BOOLEAN /\ takeStatus \in BOOLEAN
    /\ service \in {"unbound", "binding", "bound"}
    /\ camera \in CameraFields
    /\ inits \subseteq Caller /\ orphans \subseteq Caller
    /\ rechecks \subseteq Caller
    /\ taking \subseteq Shot /\ cut \subseteq Shot /\ watch \subseteq Shot
    /\ posted \subseteq {"release", "close"}
    /\ autoRelease \in BOOLEAN /\ prewarming \in BOOLEAN
    /\ prewarms \in 0..MaxPrewarms /\ stops \in 0..MaxStops

CameraInv == MonitorInv /\ ServiceInv

LEMMA CameraInvTypes == CameraInv => CameraTypeOK
BY DEF CameraInv, MonitorInv, ServiceInv, CameraTypeOK, ReqTable, TaskTable,
   CameraFields

LEMMA ShotFacts ==
    /\ Pictures \in Nat \ {0} /\ Retries \in Nat /\ QueueLimit \in Nat \ {0}
    /\ MaxPrewarms \in Nat /\ MaxStops \in Nat
    /\ Shot \subseteq Caller
    /\ NoShot \notin Shot /\ Prewarm \notin Shot /\ Prewarm \in Caller
    /\ \A who \in Caller : who # Prewarm => who \in Shot
    /\ \A s \in Shot : s[1] \in Request /\ s[2] \in 0..Retries
    /\ \A r \in Request, n \in 0..Retries :
          <<r, n>> \in Shot /\ <<r, n>>[1] = r /\ <<r, n>>[2] = n
    /\ Off \in CameraFields
BY CameraAssumption
   DEF Request, Shot, Caller, NoShot, Prewarm, Off, CameraFields

LEMMA CameraInitInv == CameraInit => CameraInv
<1> SUFFICES ASSUME CameraInit PROVE CameraInv
  OBVIOUS
<1>1. MonitorInv
  BY ShotFacts, EmptySeq
     DEF CameraInit, MonitorInv, ReqTable, TaskTable, RetriesLeft, NoTask,
         AskedInOrder, InHand
<1>2. prewarms \in 0..MaxPrewarms /\ stops \in 0..MaxStops
  BY ShotFacts DEF CameraInit
<1>3. ServiceInv
  BY <1>2, ShotFacts DEF CameraInit, ServiceInv
<1> QED
  BY <1>1, <1>3 DEF CameraInv

-----------------------------------------------------------------------------
(* The monitor.                                                            *)

\* A task table and a queue that follow every request that is waited for.
Follows(t, q) ==
    /\ t \in TaskTable /\ RetriesLeft(t)
    /\ q \in Seq(Request) /\ Len(q) =< QueueLimit
    /\ \A r \in Request : req[r] = "waiting" =>
          t[r] # NoTask \/ \E i \in DOMAIN q : q[i] = r

LEMMA CallBackKeepsOrder ==
    ASSUME req \in ReqTable, AskedInOrder, NEW R, CallBack(R)
    PROVE  /\ req' \in ReqTable /\ AskedInOrder'
           /\ \A r \in Request : req'[r] = "waiting" =>
                 req[r] = "waiting" /\ r \notin R
BY DEF CallBack, ReqTable, AskedInOrder

(* A failing shot keeps its request alive as long as it has a retry, and   *)
(* calls it back otherwise.                                                *)
LEMMA FailKeepsMonitor ==
    ASSUME MonitorInv, NEW t, NEW S, Follows(t, queue'), Fail(t, S)
    PROVE  MonitorInv'
<1> USE DEF MonitorInv, Follows
<1>1. /\ req' \in ReqTable /\ AskedInOrder'
      /\ \A r \in Request : req'[r] = "waiting" =>
            req[r] = "waiting" /\ r \notin Exhausted(t, S)
  BY CallBackKeepsOrder DEF Fail
<1>2. task' = AfterFailure(t, S)
  BY DEF Fail
<1>3. ASSUME NEW r \in Request
      PROVE  /\ task'[r] \in [phase: {"none", "shooting", "detecting",
                                      "retrying"}, left: 0..Retries]
             /\ task'[r].phase = "retrying" => task'[r].left > 0
             /\ task'[r] = NoTask => t[r] = NoTask \/ r \in Exhausted(t, S)
  <2> DEFINE s == <<r, t[r].left>>
  <2>1. t[r] \in [phase: {"none", "shooting", "detecting", "retrying"},
                  left: 0..Retries]
        /\ (t[r].phase = "retrying" => t[r].left > 0)
    BY DEF TaskTable, RetriesLeft
  <2>2. CASE s \notin S \cap Live(t)
    BY <1>2, <2>1, <2>2 DEF AfterFailure
  <2>3. CASE s \in S \cap Live(t) /\ t[r].left > 0
    <3>1. task'[r] = [t[r] EXCEPT !.phase = "retrying"]
      BY <1>2, <2>3 DEF AfterFailure
    <3> QED
      BY <2>1, <2>3, <3>1 DEF NoTask
  <2>4. CASE s \in S \cap Live(t) /\ ~(t[r].left > 0)
    <3>1. task'[r] = NoTask
      BY <1>2, <2>4 DEF AfterFailure
    <3>2. t[r].left = 0
      BY <2>1, <2>4, ShotFacts
    <3>3. r \in Exhausted(t, S)
      BY <2>4, <3>2 DEF Exhausted
    <3> QED
      BY <3>1, <3>3, ShotFacts DEF NoTask
  <2> QED
    BY <2>2, <2>3, <2>4
<1>4. task' \in TaskTable /\ RetriesLeft(task')
  BY <1>2, <1>3 DEF TaskTable, RetriesLeft, AfterFailure
<1>5. InHand'
  BY <1>1, <1>3 DEF InHand
<1> QED
  BY <1>1, <1>4, <1>5 DEF RetriesLeft

(* A step that leaves the requests alone and follows them.                 *)
LEMMA FollowKeepsMonitor ==
    ASSUME MonitorInv, Follows(task', queue'), req' = req
    PROVE  MonitorInv'
BY DEF MonitorInv, Follows, RetriesLeft, AskedInOrder, InHand

LEMMA TaskFollows == MonitorInv => Follows(task, queue)
BY DEF MonitorInv, Follows, InHand

-----------------------------------------------------------------------------
(* The service.                                                            *)

LEMMA RestartKeepsService ==
    ASSUME ServiceInv, NEW done, Restart(done), UNCHANGED saleVars
    PROVE  ServiceInv'
BY ShotFacts DEF ServiceInv, Restart, Unbind, saleVars

LEMMA ReadyCamera ==
    ASSUME MonitorInv, ServiceInv, NEW t, NEW free \in BOOLEAN,
           NEW who \in Caller, NEW c \in CameraFields,
           Follows(t, queue'), OnReady(t, free, who, c), UNCHANGED saleVars
    PROVE  CameraInv'
<1>1. CASE /\ \/ who = Prewarm /\ Prewarmed(c)
              \/ who # Prewarm /\ Accept(who, c)
           /\ task' = t /\ takeStatus' = free
           /\ UNCHANGED <<req, polling, service, orphans, cut, posted>>
           /\ inits' = inits \ {who} /\ rechecks' = rechecks \ {who}
  <2>1. MonitorInv'
    BY <1>1, FollowKeepsMonitor
  <2>2. /\ takeStatus' = free /\ inits' \subseteq Caller /\ rechecks' \subseteq Caller
        /\ UNCHANGED <<polling, service, orphans, cut, posted>>
    BY <1>1 DEF ServiceInv
  <2>3. CASE who = Prewarm /\ Prewarmed(c)
    <3>1. camera' = c /\ autoRelease' = TRUE /\ UNCHANGED <<taking, watch>>
      BY <2>3 DEF Prewarmed
    <3>2. ServiceInv'
      BY <2>2, <3>1 DEF ServiceInv, saleVars
    <3> QED
      BY <2>1, <3>2 DEF CameraInv
  <2>4. CASE who # Prewarm /\ Accept(who, c)
    <3>1. who \in Shot
      BY <2>4, ShotFacts
    <3>2. camera' \in CameraFields
      BY <2>4, <3>1 DEF Accept, CameraFields
    <3>3. taking' \subseteq Shot /\ watch' \subseteq Shot /\ autoRelease' = FALSE
      BY <2>4, <3>1 DEF Accept, ServiceInv
    <3>4. ServiceInv'
      BY <2>2, <3>2, <3>3 DEF ServiceInv, saleVars
    <3> QED
      BY <2>1, <3>4 DEF CameraInv
  <2> QED
    BY <1>1, <2>3, <2>4
<1>2. CASE FailOnMain(t, {who, camera.pending}, {who})
  BY <1>2, FailKeepsMonitor, RestartKeepsService DEF FailOnMain, CameraInv
<1>3. CASE /\ camera' = IF external THEN c ELSE Off
           /\ autoRelease' = (external /\ autoRelease)
           /\ task' = t /\ takeStatus' = free
           /\ UNCHANGED <<req, polling, service, orphans, taking, cut, watch,
                          posted>>
           /\ inits' = inits \ {who} /\ rechecks' = rechecks \ {who}
  <2>1. MonitorInv'
    BY <1>3, FollowKeepsMonitor
  <2>2. ServiceInv'
    BY <1>3, ShotFacts DEF ServiceInv, saleVars
  <2> QED
    BY <2>1, <2>2 DEF CameraInv
<1> QED
  BY <1>1, <1>2, <1>3 DEF OnReady

LEMMA InitCameraInv ==
    ASSUME MonitorInv, ServiceInv, NEW t, NEW free \in BOOLEAN,
           NEW who \in Caller,
           Follows(t, queue'), InitCamera(t, free, who), UNCHANGED saleVars
    PROVE  CameraInv'
<1>1. CASE camera.ready
  <2>1. camera \in CameraFields /\ OnReady(t, free, who, camera)
    BY <1>1 DEF InitCamera, ServiceInv
  <2> QED
    BY <2>1, ReadyCamera
<1>2. CASE ~camera.ready
  <2>1. /\ task' = t /\ takeStatus' = free
        /\ UNCHANGED <<req, polling, service, orphans, taking, cut, watch,
                       posted, autoRelease>>
    BY <1>2 DEF InitCamera
  <2>2. MonitorInv'
    BY <2>1, FollowKeepsMonitor
  <2>3. /\ camera' \in CameraFields
        /\ inits' \subseteq Caller /\ rechecks' \subseteq Caller
    BY <1>2 DEF InitCamera, ServiceInv, CameraFields
  <2>4. ServiceInv'
    BY <2>1, <2>3 DEF ServiceInv, saleVars
  <2> QED
    BY <2>2, <2>4 DEF CameraInv
<1> QED
  BY <1>1, <1>2

LEMMA ReleaseInv ==
    ASSUME CameraInv, ReleaseCamera
    PROVE  CameraInv'
<1> USE DEF CameraInv
<1>1. Follows(task, queue') /\ queue' = queue /\ UNCHANGED saleVars
  BY TaskFollows DEF ReleaseCamera
<1>2. CASE FailOnMain(task, {camera.pending}, {})
  BY <1>1, <1>2, FailKeepsMonitor, RestartKeepsService DEF FailOnMain
<1>3. CASE /\ camera' = Off /\ autoRelease' = FALSE
           /\ posted' = posted \ {"release"}
           /\ UNCHANGED <<req, task, polling, takeStatus, service, callVars>>
  <2>1. MonitorInv'
    BY <1>1, <1>3, FollowKeepsMonitor
  <2>2. ServiceInv'
    BY <1>1, <1>3, ShotFacts DEF ServiceInv, callVars, saleVars
  <2> QED
    BY <2>1, <2>2
<1> QED
  BY <1>2, <1>3 DEF ReleaseCamera

-----------------------------------------------------------------------------
(* The selling coroutine.                                                  *)

(* The request goes in front; if the queue was full, the last one is cut   *)
(* off, and nobody waits for it.                                           *)
LEMMA AskInv ==
    ASSUME CameraInv, NEW r \in Request, Ask(r)
    PROVE  CameraInv'
<1> USE DEF CameraInv, MonitorInv
<1>1. req' = [req EXCEPT ![r] = "waiting"] /\ req[r] = "new"
      /\ task' = task /\ queue' = InFront(r)
  BY DEF Ask
<1>2. \A p \in Request : p # r => req[p] # "waiting"
  <2> SUFFICES ASSUME NEW p \in Request, p # r, req[p] = "waiting"
               PROVE  FALSE
    OBVIOUS
  <2>1. p < r \/ r < p
    BY ShotFacts DEF Request
  <2>2. CASE p < r
    BY <2>2, ShotFacts DEF Ask, Request
  <2>3. CASE r < p
    BY <1>1, <2>3 DEF AskedInOrder
  <2> QED
    BY <2>1, <2>2, <2>3
<1>3. queue' \in Seq(Request) /\ Len(queue') =< QueueLimit
      /\ Len(queue') >= 1 /\ queue'[1] = r
  <2> DEFINE rest == IF Len(queue) < QueueLimit THEN queue
                     ELSE SubSeq(queue, 1, Len(queue) - 1)
  <2>1. rest \in Seq(Request) /\ Len(rest) =< QueueLimit - 1 /\ Len(rest) \in Nat
    <3>1. CASE Len(queue) < QueueLimit
      BY <3>1, LenProperties, ShotFacts
    <3>2. CASE ~(Len(queue) < QueueLimit)
      <4>1. Len(queue) = QueueLimit /\ Len(queue) - 1 \in Nat
        BY <3>2, LenProperties, ShotFacts
      <4>2. SubSeq(queue, 1, Len(queue) - 1) \in Seq(Request)
            /\ Len(SubSeq(queue, 1, Len(queue) - 1)) = Len(queue) - 1
        BY <4>1, LenProperties
      <4> QED
        BY <3>2, <4>1, <4>2
    <3> QED
      BY <3>1, <3>2
  <2>2. <<r>> \in Seq(Request) /\ Len(<<r>>) = 1 /\ <<r>>[1] = r
    OBVIOUS
  <2>3. queue' = <<r>> \o rest
    BY <1>1 DEF InFront
  <2> HIDE DEF rest
  <2>4. /\ <<r>> \o rest \in Seq(Request)
        /\ Len(<<r>> \o rest) = 1 + Len(rest)
        /\ (<<r>> \o rest)[1] = r
    BY <2>1, <2>2, ConcatProperties
  <2> QED
    BY <2>1, <2>3, <2>4, ShotFacts
<1>4. req' \in ReqTable /\ AskedInOrder'
  <2>1. req' \in ReqTable
    BY <1>1 DEF ReqTable
  <2>2. ASSUME NEW p \in Request, NEW q \in Request, p < q, req'[q] # "new"
        PROVE  req'[p] \in {"answered", "abandoned"}
    <3>1. CASE q = r
      BY <1>1, <2>2, <3>1, ShotFacts DEF Ask, Request, ReqTable
    <3>2. CASE q # r
      <4>1. req[p] \in {"answered", "abandoned"}
        BY <1>1, <2>2, <3>2 DEF AskedInOrder, ReqTable
      <4> QED
        BY <1>1, <4>1 DEF ReqTable
    <3> QED
      BY <3>1, <3>2
  <2> QED
    BY <2>1, <2>2 DEF AskedInOrder
<1>5. InHand'
  <2>1. 1 \in DOMAIN queue'
    BY <1>3, LenProperties
  <2>2. ASSUME NEW p \in Request, req'[p] = "waiting" PROVE p = r
    BY <1>1, <1>2, <2>2 DEF ReqTable
  <2> QED
    BY <1>3, <2>1, <2>2 DEF InHand
<1>6. ServiceInv'
  BY DEF Ask, ServiceInv, serviceVars, callVars, saleVars
<1> QED
  BY <1>1, <1>3, <1>4, <1>5, <1>6 DEF RetriesLeft

LEMMA AbandonInv ==
    ASSUME CameraInv, NEW r \in Request, Abandon(r)
    PROVE  CameraInv'
<1> USE DEF CameraInv, MonitorInv
<1>1. req' = [req EXCEPT ![r] = "abandoned"] /\ UNCHANGED <<queue, task>>
  BY DEF Abandon
<1>2. req' \in ReqTable /\ AskedInOrder' /\ InHand'
  BY <1>1 DEF ReqTable, AskedInOrder, InHand, Abandon
<1>3. ServiceInv'
  BY DEF Abandon, ServiceInv, serviceVars, callVars, saleVars
<1> QED
  BY <1>1, <1>2, <1>3 DEF RetriesLeft

LEMMA PrewarmCallInv ==
    ASSUME CameraInv, PrewarmCall
    PROVE  CameraInv'
<1> USE DEF CameraInv
<1>1. MonitorInv'
  BY TaskFollows, FollowKeepsMonitor DEF PrewarmCall
<1>2. prewarms' \in 0..MaxPrewarms
  BY ShotFacts DEF PrewarmCall, ServiceInv
<1>3. ServiceInv'
  BY <1>2 DEF PrewarmCall, ServiceInv, callVars
<1> QED
  BY <1>1, <1>3

-----------------------------------------------------------------------------
(* Messages of the main looper.                                            *)

LEMMA TakePhotoInv ==
    ASSUME CameraInv, NEW r \in Request, NEW left \in 0..Retries,
           NEW free \in BOOLEAN, TakePhoto(r, left, free),
           Follows([task EXCEPT ![r] = Shooting(left)], queue'),
           UNCHANGED saleVars
    PROVE  CameraInv'
<1> DEFINE t == [task EXCEPT ![r] = Shooting(left)]
<1> HIDE DEF t
<1>1. Follows(t, queue')
  BY DEF t
<1>2. CASE InitCamera(t, free, <<r, left>>)
  <2>1. <<r, left>> \in Caller
    BY ShotFacts
  <2> QED
    BY <1>1, <1>2, <2>1, InitCameraInv DEF CameraInv
<1>3. CASE /\ Fail(t, {<<r, left>>})
           /\ takeStatus' = (free \/ left = 0)
           /\ UNCHANGED <<polling, service, serviceVars>>
  <2>1. MonitorInv'
    BY <1>1, <1>3, FailKeepsMonitor DEF CameraInv
  <2>2. takeStatus' \in BOOLEAN
    BY <1>3
  <2>3. ServiceInv'
    BY <1>3, <2>2 DEF CameraInv, ServiceInv, serviceVars, callVars, saleVars
  <2> QED
    BY <2>1, <2>3 DEF CameraInv
<1> QED
  BY <1>2, <1>3 DEF TakePhoto, t

LEMMA PollInv ==
    ASSUME CameraInv, Poll
    PROVE  CameraInv'
<1> USE DEF CameraInv, MonitorInv
<1> DEFINE r == Head(queue)
           t == [task EXCEPT ![r] = Shooting(Retries)]
<1>1. /\ queue # <<>> /\ queue' = Tail(queue)
      /\ TakePhoto(r, Retries, FALSE) /\ UNCHANGED saleVars
  BY DEF Poll
<1>2. r \in Request /\ Retries \in 0..Retries
  BY <1>1, HeadTailProperties, ShotFacts
<1>3. Follows(t, queue')
  <2>1. t \in TaskTable /\ RetriesLeft(t)
    BY <1>2, ShotFacts DEF TaskTable, RetriesLeft, Shooting
  <2>2. /\ queue' \in Seq(Request) /\ Len(queue') = Len(queue) - 1
        /\ \A i \in 1..Len(queue') : queue'[i] = queue[i + 1]
        /\ Len(queue) \in Nat \ {0}
    BY <1>1, HeadTailProperties, EmptySeq
  <2>3. ASSUME NEW p \in Request, req[p] = "waiting"
        PROVE  t[p] # NoTask \/ \E i \in DOMAIN queue' : queue'[i] = p
    <3>1. CASE p = r
      BY <1>2, <3>1 DEF TaskTable, Shooting, NoTask
    <3>2. CASE p # r
      <4>1. CASE task[p] # NoTask
        BY <1>2, <3>2, <4>1 DEF TaskTable
      <4>2. CASE \E i \in DOMAIN queue : queue[i] = p
        <5>1. PICK i \in 1..Len(queue) : queue[i] = p
          BY <4>2, LenProperties
        <5>2. i # 1
          BY <1>1, <3>2, <5>1
        <5>3. i - 1 \in 1..Len(queue') /\ queue'[i - 1] = p
          BY <2>2, <5>1, <5>2
        <5>4. DOMAIN queue' = 1..Len(queue')
          BY <2>2, LenProperties
        <5> QED
          BY <5>3, <5>4
      <4> QED
        BY <2>3, <4>1, <4>2 DEF InHand
    <3> QED
      BY <3>1, <3>2
  <2> QED
    BY <2>1, <2>2, <2>3, ShotFacts DEF Follows
<1> HIDE DEF r
<1> QED
  BY <1>1, <1>2, <1>3, TakePhotoInv

LEMMA RetryInv ==
    ASSUME CameraInv, NEW r \in Request, Retry(r)
    PROVE  CameraInv'
<1> USE DEF CameraInv, MonitorInv
<1> DEFINE left == task[r].left - 1
           t == [task EXCEPT ![r] = Shooting(left)]
<1>1. left \in 0..Retries
  BY ShotFacts DEF Retry, TaskTable, RetriesLeft
<1>2. queue' = queue /\ TakePhoto(r, left, takeStatus) /\ UNCHANGED saleVars
  BY DEF Retry
<1>3. Follows(t, queue')
  <2> HIDE DEF left
  <2>1. t \in TaskTable /\ RetriesLeft(t)
    BY <1>1 DEF TaskTable, RetriesLeft, Shooting
  <2>2. \A p \in Request : task[p] # NoTask => t[p] # NoTask
    BY DEF TaskTable, Shooting, NoTask
  <2> QED
    BY <1>2, <2>1, <2>2 DEF Follows, InHand
<1>4. takeStatus \in BOOLEAN
  BY DEF ServiceInv
<1> HIDE DEF left
<1> QED
  BY <1>1, <1>2, <1>3, <1>4, TakePhotoInv

(* A restart after shots that fail.                                        *)
LEMMA FailOnMainInv ==
    ASSUME CameraInv, NEW S, NEW done, FailOnMain(task, S, done),
           queue' = queue, UNCHANGED saleVars
    PROVE  CameraInv'
<1>1. Follows(task, queue')
  BY TaskFollows DEF CameraInv
<1> QED
  BY <1>1, FailKeepsMonitor, RestartKeepsService DEF FailOnMain, CameraInv

\* A step that leaves the monitor alone.
LEMMA ServiceStepInv ==
    ASSUME CameraInv, UNCHANGED <<req, queue, task>>, ServiceInv'
    PROVE  CameraInv'
BY TaskFollows, FollowKeepsMonitor DEF CameraInv

LEMMA PrewarmRunsInv ==
    ASSUME CameraInv, PrewarmRuns
    PROVE  CameraInv'
<1> USE DEF CameraInv
<1>1. /\ UNCHANGED <<monitorVars, service, orphans, cut, posted, external,
                     resumed, prewarms, stops>>
      /\ prewarming' = FALSE
  BY DEF PrewarmRuns
<1>2. /\ camera' \in CameraFields /\ autoRelease' \in BOOLEAN
      /\ inits' \subseteq Caller /\ rechecks' \subseteq Caller
      /\ taking' \subseteq Shot /\ watch' \subseteq Shot
  <2>1. CASE /\ autoRelease' = FALSE /\ UNCHANGED <<taking, watch>>
             /\ \/ /\ rechecks' = rechecks \cup {Prewarm}
                   /\ UNCHANGED <<camera, inits>>
                \/ /\ inits' = inits \cup {Prewarm}
                   /\ camera' = [camera EXCEPT !.initializing = TRUE]
                   /\ UNCHANGED rechecks
    <3>1. inits' \subseteq Caller /\ rechecks' \subseteq Caller
      BY <2>1, ShotFacts DEF ServiceInv
    <3>2. camera' \in CameraFields
      BY <2>1 DEF ServiceInv, CameraFields
    <3>3. autoRelease' \in BOOLEAN /\ taking' \subseteq Shot /\ watch' \subseteq Shot
      BY <2>1 DEF ServiceInv
    <3> QED
      BY <3>1, <3>2, <3>3
  <2>2. CASE Prewarmed(camera) /\ UNCHANGED <<inits, rechecks>>
    BY <2>2 DEF ServiceInv, Prewarmed
  <2>3. CASE UNCHANGED <<camera, inits, rechecks, taking, watch, autoRelease>>
    BY <2>3 DEF ServiceInv
  <2> QED
    BY <2>1, <2>2, <2>3 DEF PrewarmRuns
<1>3. ServiceInv'
  BY <1>1, <1>2 DEF ServiceInv, monitorVars
<1> QED
  BY <1>1, <1>3, ServiceStepInv DEF monitorVars

LEMMA RecheckInv ==
    ASSUME CameraInv, NEW who \in Caller, Recheck(who)
    PROVE  CameraInv'
<1>1. /\ InitCamera(task, takeStatus, who) /\ queue' = queue
      /\ UNCHANGED saleVars
  BY DEF Recheck
<1>2. Follows(task, queue') /\ takeStatus \in BOOLEAN
  BY <1>1, TaskFollows DEF CameraInv, ServiceInv
<1> QED
  BY <1>1, <1>2, InitCameraInv DEF CameraInv

LEMMA InitEndsInv ==
    ASSUME CameraInv, NEW who \in Caller, InitEnds(who)
    PROVE  CameraInv'
<1> DEFINE c == [camera EXCEPT !.ready = TRUE, !.initializing = FALSE,
                               !.bound = TRUE]
<1>1. queue' = queue /\ UNCHANGED saleVars
  BY DEF InitEnds
<1>2. Follows(task, queue') /\ takeStatus \in BOOLEAN /\ c \in CameraFields
  BY <1>1, TaskFollows DEF CameraInv, ServiceInv, CameraFields
<1>3. CASE OnReady(task, takeStatus, who, c)
  <2>1. c \in CameraFields
    BY <1>2
  <2> HIDE DEF c
  <2>2. MonitorInv /\ ServiceInv
    BY DEF CameraInv
  <2> QED
    BY <1>1, <1>2, <1>3, <2>1, <2>2, ReadyCamera
<1>4. CASE FailOnMain(task, {who}, {who})
  BY <1>1, <1>4, FailOnMainInv
<1>5. CASE /\ camera' = Off /\ inits' = inits \ {who}
           /\ UNCHANGED <<req, task, polling, takeStatus, service, orphans,
                          rechecks, taking, cut, watch, posted, autoRelease>>
  <2>1. ServiceInv'
    BY <1>1, <1>5, ShotFacts DEF CameraInv, ServiceInv, saleVars
  <2> QED
    BY <1>1, <1>5, <2>1, ServiceStepInv
<1> QED
  BY <1>3, <1>4, <1>5 DEF InitEnds

LEMMA OrphanEndsInv ==
    ASSUME CameraInv, NEW who \in Caller, OrphanEnds(who)
    PROVE  CameraInv'
<1>1. queue' = queue /\ UNCHANGED saleVars
  BY DEF OrphanEnds
<1>2. CASE FailOnMain(task, {who, camera.pending}, {who})
  BY <1>1, <1>2, FailOnMainInv
<1>3. CASE /\ camera' = [camera EXCEPT !.bound = FALSE]
           /\ orphans' = orphans \ {who}
           /\ UNCHANGED <<req, task, polling, takeStatus, service, inits,
                          rechecks, taking, cut, watch, posted, autoRelease>>
  <2>1. camera' \in CameraFields
    BY <1>3 DEF CameraInv, ServiceInv, CameraFields
  <2>2. ServiceInv'
    BY <1>1, <1>3, <2>1 DEF CameraInv, ServiceInv, saleVars
  <2> QED
    BY <1>1, <1>3, <2>2, ServiceStepInv
<1> QED
  BY <1>2, <1>3 DEF OrphanEnds

LEMMA WatchFiresInv ==
    ASSUME CameraInv, NEW s \in Shot, WatchFires(s)
    PROVE  CameraInv'
<1>1. queue' = queue /\ UNCHANGED saleVars
  BY DEF WatchFires
<1>2. CASE FailOnMain(task, {s}, {})
  BY <1>1, <1>2, FailOnMainInv
<1>3. CASE /\ watch' = watch \ {s}
           /\ \/ camera' = Off /\ autoRelease' = FALSE
              \/ UNCHANGED <<camera, autoRelease>>
           /\ UNCHANGED <<req, task, polling, takeStatus, service, inits,
                          orphans, rechecks, taking, cut, posted>>
  <2>1. camera' \in CameraFields /\ autoRelease' \in BOOLEAN
        /\ watch' \subseteq Shot
    BY <1>3, ShotFacts DEF CameraInv, ServiceInv
  <2>2. ServiceInv'
    BY <1>1, <1>3, <2>1 DEF CameraInv, ServiceInv, saleVars
  <2> QED
    BY <1>1, <1>3, <2>2, ServiceStepInv
<1> QED
  BY <1>2, <1>3 DEF WatchFires

(* Closing: the shot that waits for a frame fails.                         *)
LEMMA CloseBoundInv ==
    ASSUME CameraInv, CloseBound, queue' = queue,
           polling' \in BOOLEAN, takeStatus' \in BOOLEAN,
           external' \in BOOLEAN, resumed' \in BOOLEAN,
           UNCHANGED <<prewarming, prewarms>>, stops' \in 0..MaxStops
    PROVE  CameraInv'
<1>1. MonitorInv'
  BY TaskFollows, FailKeepsMonitor DEF CameraInv, CloseBound
<1>2. ServiceInv'
  BY ShotFacts DEF CameraInv, ServiceInv, CloseBound, Unbind
<1> QED
  BY <1>1, <1>2 DEF CameraInv

LEMMA PostedCloseInv ==
    ASSUME CameraInv, PostedClose
    PROVE  CameraInv'
<1>1. polling' \in BOOLEAN /\ takeStatus' \in BOOLEAN
  BY DEF PostedClose, CameraInv, ServiceInv
<1>2. /\ external' \in BOOLEAN /\ resumed' \in BOOLEAN
      /\ UNCHANGED <<prewarming, prewarms>> /\ stops' \in 0..MaxStops
  BY DEF PostedClose, CameraInv, ServiceInv, saleVars
<1> QED
  BY <1>1, <1>2, CloseBoundInv DEF PostedClose

LEMMA StopInv ==
    ASSUME CameraInv, Stop
    PROVE  CameraInv'
<1>1. stops' \in 0..MaxStops
  BY ShotFacts DEF Stop, CameraInv, ServiceInv
<1>2. /\ takeStatus' = TRUE /\ resumed' = FALSE
      /\ UNCHANGED <<queue, external, prewarming, prewarms>>
  BY DEF Stop
<1>3. CASE CloseBound /\ polling' = (camera.pending \in Live(task))
  <2>1. polling' \in BOOLEAN
    BY <1>3
  <2>2. external' \in BOOLEAN /\ resumed' \in BOOLEAN /\ takeStatus' \in BOOLEAN
    BY <1>2 DEF CameraInv, ServiceInv
  <2> QED
    BY <1>1, <1>2, <1>3, <2>1, <2>2, CloseBoundInv
<1>4. CASE polling' = FALSE /\ UNCHANGED <<req, task, service, serviceVars>>
  <2>1. ServiceInv'
    BY <1>1, <1>2, <1>4 DEF CameraInv, ServiceInv, serviceVars, callVars
  <2> QED
    BY <1>2, <1>4, <2>1, ServiceStepInv
<1> QED
  BY <1>3, <1>4 DEF Stop

LEMMA ResumeInv ==
    ASSUME CameraInv, Resume
    PROVE  CameraInv'
<1>1. MonitorInv'
  BY TaskFollows, FailKeepsMonitor DEF CameraInv, Resume, FailOnMain
<1>2. ServiceInv'
  <2>1. /\ Restart({}) /\ resumed' = TRUE
        /\ UNCHANGED <<external, prewarming, prewarms, stops>>
    BY DEF Resume, FailOnMain
  <2> QED
    BY <2>1, ShotFacts DEF CameraInv, ServiceInv, Restart, Unbind
<1> QED
  BY <1>1, <1>2 DEF CameraInv

-----------------------------------------------------------------------------
(* The executor of the camera.                                             *)

(* The picture of a shot has come and is being looked at.                  *)
LEMMA DetectingFollows ==
    ASSUME MonitorInv, NEW s \in Shot,
           task' = [task EXCEPT ![s[1]].phase = "detecting"],
           req' = req, queue' = queue
    PROVE  MonitorInv'
<1> USE DEF MonitorInv
<1>1. s[1] \in Request
  BY ShotFacts
<1>2. task' \in TaskTable /\ RetriesLeft(task')
  BY <1>1 DEF TaskTable, RetriesLeft
<1>3. \A r \in Request : task[r] # NoTask => task'[r] # NoTask
  BY <1>1 DEF TaskTable, NoTask
<1>4. Follows(task', queue')
  BY <1>2, <1>3 DEF Follows, InHand
<1> QED
  BY <1>4, FollowKeepsMonitor

LEMMA FrameInv ==
    ASSUME CameraInv, Frame
    PROVE  CameraInv'
<1> USE DEF CameraInv
<1>1. camera.pending \in Shot
  BY DEF Frame, ServiceInv, CameraFields
<1>2. MonitorInv'
  <2>1. CASE task' = task
    BY <2>1, TaskFollows, FollowKeepsMonitor DEF Frame
  <2>2. CASE task' = [task EXCEPT ![camera.pending[1]].phase = "detecting"]
    BY <1>1, <2>2, DetectingFollows DEF Frame
  <2> QED
    BY <2>1, <2>2 DEF Frame
<1>3. camera' \in CameraFields
  BY DEF Frame, ServiceInv, CameraFields
<1>4. ServiceInv'
  BY <1>1, <1>3 DEF Frame, ServiceInv, saleVars
<1> QED
  BY <1>2, <1>4

LEMMA PictureTakenInv ==
    ASSUME CameraInv, NEW s \in Shot, PictureTaken(s)
    PROVE  CameraInv'
<1> USE DEF CameraInv
<1>1. MonitorInv'
  BY DetectingFollows DEF PictureTaken
<1>2. ServiceInv'
  BY DEF PictureTaken, ServiceInv, serviceVars, callVars, saleVars
<1> QED
  BY <1>1, <1>2

\* The service after the end of a picture.
LEMMA FinishTypes ==
    ASSUME ServiceInv, NEW s, Finish(s)
    PROVE  /\ taking' \subseteq Shot /\ cut' \subseteq Shot
           /\ posted' \subseteq {"release", "close"}
BY DEF ServiceInv, Finish

LEMMA DetectedInv ==
    ASSUME CameraInv, NEW s \in Shot, Detected(s)
    PROVE  CameraInv'
<1> USE DEF CameraInv, MonitorInv
<1>1. s[1] \in Request
  BY ShotFacts
<1>2. /\ task' = [task EXCEPT ![s[1]] = NoTask] /\ CallBack({s[1]})
      /\ takeStatus' = TRUE /\ Finish(s)
      /\ UNCHANGED <<queue, polling, service, camera, inits, orphans,
                     rechecks, watch, autoRelease, saleVars>>
  BY DEF Detected
<1>3. /\ req' \in ReqTable /\ AskedInOrder'
      /\ \A r \in Request : req'[r] = "waiting" =>
            req[r] = "waiting" /\ r \notin {s[1]}
  BY <1>2, CallBackKeepsOrder
<1>4. task' \in TaskTable /\ RetriesLeft(task')
  BY <1>1, <1>2, ShotFacts DEF TaskTable, RetriesLeft, NoTask
<1>5. InHand'
  BY <1>1, <1>2, <1>3 DEF InHand, TaskTable
<1>6. ServiceInv'
  BY <1>2, FinishTypes DEF ServiceInv, saleVars
<1> QED
  BY <1>2, <1>3, <1>4, <1>5, <1>6 DEF RetriesLeft

LEMMA PictureIgnoredInv ==
    ASSUME CameraInv, NEW s \in Shot, PictureIgnored(s)
    PROVE  CameraInv'
<1>1. /\ Finish(s)
      /\ UNCHANGED <<monitorVars, service, camera, inits, orphans, rechecks,
                     watch, autoRelease, saleVars>>
  BY DEF PictureIgnored
<1>2. ServiceInv'
  BY <1>1, FinishTypes DEF CameraInv, ServiceInv, monitorVars, saleVars
<1> QED
  BY <1>1, <1>2, ServiceStepInv DEF monitorVars

LEMMA PictureFailsInv ==
    ASSUME CameraInv, NEW s \in Shot, PictureFails(s)
    PROVE  CameraInv'
<1> USE DEF CameraInv
<1>1. Fail(task, {s}) /\ UNCHANGED <<queue, saleVars>>
  BY DEF PictureFails
<1>2. MonitorInv'
  BY <1>1, TaskFollows, FailKeepsMonitor
<1>3. CASE Restart({s})
  BY <1>1, <1>2, <1>3, RestartKeepsService
<1>4. CASE /\ polling' = TRUE /\ takeStatus' = TRUE
           /\ taking' = taking \ {s} /\ cut' = cut \ {s}
           /\ posted' = posted \cup {"close"}
                        \cup IF s \in taking THEN {"release"} ELSE {}
           /\ UNCHANGED <<service, camera, inits, orphans, rechecks, watch,
                          autoRelease>>
  <2>1. taking' \subseteq Shot /\ cut' \subseteq Shot
        /\ posted' \subseteq {"release", "close"}
    BY <1>4 DEF ServiceInv
  <2>2. ServiceInv'
    BY <1>1, <1>4, <2>1 DEF ServiceInv, saleVars
  <2> QED
    BY <1>2, <2>2
<1> QED
  BY <1>3, <1>4 DEF PictureFails

-----------------------------------------------------------------------------
LEMMA CameraNextInv == CameraInv /\ [CameraNext]_cameraVars => CameraInv'
<1> SUFFICES ASSUME CameraInv, [CameraNext]_cameraVars PROVE CameraInv'
  OBVIOUS
<1>1. CASE \E r \in Request : Ask(r) \/ Abandon(r)
  BY <1>1, AskInv, AbandonInv
<1>2. CASE PrewarmCall \/ Poll \/ PrewarmRuns
  BY <1>2, PrewarmCallInv, PollInv, PrewarmRunsInv
<1>3. CASE AutoRelease \/ PostedRelease
  BY <1>3, ReleaseInv DEF AutoRelease, PostedRelease
<1>4. CASE PostedClose \/ Stop \/ Resume \/ Frame
  BY <1>4, PostedCloseInv, StopInv, ResumeInv, FrameInv
<1>5. CASE Connected
  <2>1. ServiceInv'
    BY <1>5 DEF Connected, CameraInv, ServiceInv, monitorVars, serviceVars,
       callVars, saleVars
  <2> QED
    BY <1>5, <2>1, ServiceStepInv DEF Connected, monitorVars
<1>6. ASSUME NEW r \in Request, Retry(r) \/ Timeout(r) PROVE CameraInv'
  BY <1>6, RetryInv, FailOnMainInv DEF Timeout
<1>7. ASSUME NEW who \in Caller, Recheck(who) \/ InitEnds(who) \/ OrphanEnds(who)
      PROVE  CameraInv'
  BY <1>7, RecheckInv, InitEndsInv, OrphanEndsInv
<1>8. ASSUME NEW s \in Shot,
             \/ WatchFires(s) \/ Detected(s)
             \/ PictureTaken(s) \/ PictureIgnored(s) \/ PictureFails(s)
      PROVE  CameraInv'
  BY <1>8, WatchFiresInv, DetectedInv, PictureTakenInv, PictureIgnoredInv,
     PictureFailsInv
<1>9. CASE UNCHANGED cameraVars
  <2>1. UNCHANGED <<req, queue, task>>
    BY <1>9 DEF cameraVars, monitorVars
  <2>2. ServiceInv'
    BY <1>9 DEF CameraInv, ServiceInv, cameraVars, monitorVars, serviceVars,
       callVars, saleVars
  <2> QED
    BY <2>1, <2>2, ServiceStepInv
<1> QED
  BY <1>1, <1>2, <1>3, <1>4, <1>5, <1>6, <1>7, <1>8, <1>9
     DEF CameraNext, Message

LEMMA CameraInvHolds == CameraSpec => []CameraInv
BY CameraInitInv, CameraNextInv, PTL DEF CameraSpec

(* For any number of pictures, retries, prewarmings and stops, the queue   *)
(* keeps its limit and the variables of monitor and service their types.   *)
THEOREM CameraTypeCorrect == CameraSpec => []CameraTypeOK
BY CameraInvHolds, CameraInvTypes, PTL

-----------------------------------------------------------------------------
(* What moves a request on: its timeout, its retry or its picture, and the *)
(* polling for those that are in the queue.                                *)

\* A picture that is looked at is at work, in its service or beyond its end.
Pictured(t, P) ==
    \A q \in Request :
        /\ t[q].phase = "none" => t[q] = NoTask
        /\ t[q].phase = "detecting" => <<q, t[q].left>> \in P

\* The next task may be taken, or one is at work that will allow it.
Going(t, free) == free \/ \E q \in Request : t[q].phase # "none"

FlowInv ==
    /\ Pictured(task, taking \cup cut)
    /\ Going(task, takeStatus)
    /\ resumed => polling

LEMMA FlowIsEnough == CameraInv /\ FlowInv => WaitingNotForgotten
<1> SUFFICES ASSUME CameraInv, FlowInv, NEW r \in Request, req[r] = "waiting"
             PROVE  \/ Moving(r)
                    \/ /\ \E i \in DOMAIN queue : queue[i] = r
                       /\ resumed => /\ polling
                                     /\ takeStatus \/ \E q \in Request : Moving(q)
  BY DEF WaitingNotForgotten
<1>1. \A q \in Request : task[q].phase # "none" => Moving(q)
  BY DEF CameraInv, MonitorInv, TaskTable, FlowInv, Pictured, Moving
<1>2. task[r] # NoTask \/ \E i \in DOMAIN queue : queue[i] = r
  BY DEF CameraInv, MonitorInv, InHand
<1>3. task[r] # NoTask => task[r].phase # "none"
  BY DEF FlowInv, Pictured
<1> QED
  BY <1>1, <1>2, <1>3 DEF FlowInv, Going

LEMMA InitFlow == CameraInit => FlowInv
BY DEF CameraInit, FlowInv, Pictured, Going, NoTask

\* Calls that are shooting have no picture to be looked at.
LEMMA PrunePictured ==
    ASSUME NEW t, NEW P, NEW D, Pictured(t, P), D \subseteq Live(t)
    PROVE  Pictured(t, P \ D)
<1> SUFFICES ASSUME NEW q \in Request, t[q].phase = "detecting",
                    <<q, t[q].left>> \in D
             PROVE  FALSE
  BY DEF Pictured
<1>1. t[q] = Shooting(t[q].left)
  BY DEF Live
<1> QED
  BY <1>1 DEF Shooting

LEMMA GrowPictured ==
    ASSUME NEW t, NEW P, NEW Q, Pictured(t, P), P \subseteq Q
    PROVE  Pictured(t, Q)
BY DEF Pictured

(* A shot that fails leaves no picture behind to be looked at.             *)
LEMMA FailPictured ==
    ASSUME NEW t \in TaskTable, NEW P, NEW S, Pictured(t, P)
    PROVE  Pictured(AfterFailure(t, S), P)
<1> SUFFICES ASSUME NEW q \in Request
             PROVE  LET u == AfterFailure(t, S)[q] IN
                    /\ u.phase = "none" => u = NoTask
                    /\ u.phase = "detecting" => <<q, u.left>> \in P
  BY DEF Pictured
<1>1. t[q] \in [phase: {"none", "shooting", "detecting", "retrying"},
                left: 0..Retries]
  BY DEF TaskTable
<1>2. \/ AfterFailure(t, S)[q] = t[q]
      \/ AfterFailure(t, S)[q] = [t[q] EXCEPT !.phase = "retrying"]
      \/ AfterFailure(t, S)[q] = NoTask
  BY DEF AfterFailure
<1> QED
  BY <1>1, <1>2 DEF Pictured, NoTask

(* An error restarts the service, and the polling with it.                 *)
LEMMA FailOnMainFlow ==
    ASSUME NEW t \in TaskTable, NEW S, NEW done, done \subseteq Live(t),
           Pictured(t, taking \cup cut), FailOnMain(t, S, done)
    PROVE  FlowInv'
<1>1. /\ task' = AfterFailure(t, S) /\ polling' = TRUE /\ takeStatus' = TRUE
      /\ taking' \cup cut' = (taking \cup cut) \ done
  BY DEF FailOnMain, Fail, Restart, Unbind
<1>2. Pictured(AfterFailure(t, S), (taking \cup cut) \ done)
  BY PrunePictured, FailPictured
<1>3. Pictured(task', taking' \cup cut')
  BY <1>1, <1>2
<1> QED
  BY <1>1, <1>3 DEF FlowInv, Going, Pictured

(* A step that keeps the pictures at work, the polling and the monitor's   *)
(* leave to go on.                                                         *)
LEMMA StepFlow ==
    ASSUME Pictured(task', taking \cup cut), Going(task', takeStatus'),
           taking \cup cut \subseteq taking' \cup cut',
           resumed' => polling'
    PROVE  FlowInv'
<1>1. Pictured(task', taking' \cup cut')
  BY GrowPictured
<1> QED
  BY <1>1 DEF FlowInv, Pictured, Going

LEMMA ReadyFlow ==
    ASSUME FlowInv, NEW t \in TaskTable, NEW free \in BOOLEAN, NEW who, NEW c,
           Pictured(t, taking \cup cut), Going(t, free),
           OnReady(t, free, who, c), UNCHANGED saleVars
    PROVE  FlowInv'
<1>1. CASE /\ task' = t /\ takeStatus' = free
           /\ UNCHANGED <<polling, cut>> /\ taking \subseteq taking'
  BY <1>1, StepFlow DEF FlowInv, saleVars
<1>2. CASE who \in Live(t) /\ FailOnMain(t, {who, camera.pending}, {who})
  <2>1. {who} \subseteq Live(t)
    BY <1>2
  <2> QED
    BY <1>2, <2>1, FailOnMainFlow
<1> QED
  BY <1>1, <1>2 DEF OnReady, Prewarmed, Accept

LEMMA InitCameraFlow ==
    ASSUME FlowInv, NEW t \in TaskTable, NEW free \in BOOLEAN, NEW who,
           Pictured(t, taking \cup cut), Going(t, free),
           InitCamera(t, free, who), UNCHANGED saleVars
    PROVE  FlowInv'
<1>1. CASE camera.ready
  <2>1. PICK c : c = camera
    OBVIOUS
  <2> QED
    BY <1>1, <2>1, ReadyFlow DEF InitCamera
<1>2. CASE ~camera.ready
  BY <1>2, StepFlow DEF InitCamera, FlowInv, saleVars
<1> QED
  BY <1>1, <1>2

LEMMA TaskFacts ==
    ASSUME CameraInv, FlowInv
    PROVE  /\ task \in TaskTable /\ takeStatus \in BOOLEAN
           /\ Pictured(task, taking \cup cut) /\ Going(task, takeStatus)
           /\ \A done : done = {} => done \subseteq Live(task)
BY DEF CameraInv, MonitorInv, ServiceInv, FlowInv

\* A step that leaves the monitor and the pictures alone.
LEMMA QuietFlow ==
    ASSUME FlowInv, UNCHANGED <<task, takeStatus, polling, resumed>>,
           taking \cup cut \subseteq taking' \cup cut'
    PROVE  FlowInv'
<1>1. Pictured(task', taking \cup cut) /\ Going(task', takeStatus')
      /\ (resumed' => polling')
  BY DEF FlowInv, Pictured, Going
<1> QED
  BY <1>1, StepFlow

LEMMA ReleaseFlow ==
    ASSUME CameraInv, FlowInv, ReleaseCamera
    PROVE  FlowInv'
<1>1. CASE FailOnMain(task, {camera.pending}, {})
  BY <1>1, TaskFacts, FailOnMainFlow
<1>2. CASE UNCHANGED <<req, task, polling, takeStatus, service, callVars>>
  BY <1>2, QuietFlow DEF ReleaseCamera, saleVars, callVars
<1> QED
  BY <1>1, <1>2 DEF ReleaseCamera

(* A shot is taken up: its request is at work until it succeeds or its     *)
(* last retry fails, and then the next task is allowed.                    *)
LEMMA TakePhotoFlow ==
    ASSUME CameraInv, FlowInv, NEW r \in Request, NEW left \in 0..Retries,
           NEW free \in BOOLEAN, TakePhoto(r, left, free), UNCHANGED saleVars
    PROVE  FlowInv'
<1>1. PICK t : t = [task EXCEPT ![r] = Shooting(left)]
  OBVIOUS
<1>2. t \in TaskTable /\ t[r] = Shooting(left)
      /\ \A q \in Request : q # r => t[q] = task[q]
  BY <1>1, TaskFacts DEF TaskTable, Shooting
<1>3. Pictured(t, taking \cup cut)
  BY <1>2, TaskFacts DEF Pictured, Shooting
<1>4. Going(t, free)
  BY <1>2 DEF Going, Shooting
<1>5. CASE InitCamera(t, free, <<r, left>>)
  BY <1>2, <1>3, <1>4, <1>5, InitCameraFlow
<1>6. CASE /\ Fail(t, {<<r, left>>})
           /\ takeStatus' = (free \/ left = 0)
           /\ UNCHANGED <<polling, service, serviceVars>>
  <2>1. task' = AfterFailure(t, {<<r, left>>})
    BY <1>6 DEF Fail
  <2>2. Pictured(task', taking \cup cut)
    BY <1>2, <1>3, <2>1, FailPictured
  <2>3. Going(task', takeStatus')
    <3>1. CASE left = 0
      BY <1>6, <3>1 DEF Going
    <3>2. CASE left > 0
      <4>1. <<r, t[r].left>> \in {<<r, left>>} \cap Live(t) /\ t[r].left > 0
        BY <1>2, <3>2, ShotFacts DEF Live, Shooting
      <4>2. task'[r] = [t[r] EXCEPT !.phase = "retrying"]
        BY <2>1, <4>1 DEF AfterFailure
      <4> QED
        BY <1>2, <4>2 DEF Going, Shooting
    <3> QED
      BY <3>1, <3>2, ShotFacts
  <2> QED
    BY <1>6, <2>2, <2>3, StepFlow DEF FlowInv, serviceVars, callVars, saleVars
<1> QED
  BY <1>1, <1>5, <1>6 DEF TakePhoto

LEMMA PollFlow ==
    ASSUME CameraInv, FlowInv, Poll
    PROVE  FlowInv'
<1>1. Head(queue) \in Request /\ Retries \in 0..Retries
  BY HeadTailProperties, ShotFacts DEF Poll, CameraInv, MonitorInv
<1> QED
  BY <1>1, TakePhotoFlow DEF Poll

LEMMA RetryFlow ==
    ASSUME CameraInv, FlowInv, NEW r \in Request, Retry(r)
    PROVE  FlowInv'
<1>1. task[r].left - 1 \in 0..Retries
  BY ShotFacts DEF Retry, CameraInv, MonitorInv, TaskTable, RetriesLeft
<1> QED
  BY <1>1, TaskFacts, TakePhotoFlow DEF Retry

LEMMA TimeoutFlow ==
    ASSUME CameraInv, FlowInv, NEW r \in Request, Timeout(r)
    PROVE  FlowInv'
BY TaskFacts, FailOnMainFlow DEF Timeout

LEMMA CallerFlow ==
    ASSUME CameraInv, FlowInv, NEW who \in Caller,
           Recheck(who) \/ InitEnds(who) \/ OrphanEnds(who)
    PROVE  FlowInv'
<1>1. UNCHANGED saleVars
  BY DEF Recheck, InitEnds, OrphanEnds
<1>2. CASE InitCamera(task, takeStatus, who)
  BY <1>1, <1>2, TaskFacts, InitCameraFlow
<1>3. CASE \E c : OnReady(task, takeStatus, who, c)
  BY <1>1, <1>3, TaskFacts, ReadyFlow
<1>4. CASE who \in Live(task) /\ \E S : FailOnMain(task, S, {who})
  <2>1. {who} \subseteq Live(task)
    BY <1>4
  <2> QED
    BY <1>4, <2>1, TaskFacts, FailOnMainFlow
<1>5. CASE UNCHANGED <<task, takeStatus, polling, taking, cut>>
  BY <1>1, <1>5, QuietFlow DEF saleVars
<1> QED
  BY <1>2, <1>3, <1>4, <1>5 DEF Recheck, InitEnds, OrphanEnds

LEMMA WatchFlow ==
    ASSUME CameraInv, FlowInv, NEW s \in Shot, WatchFires(s)
    PROVE  FlowInv'
<1>1. CASE FailOnMain(task, {s}, {})
  BY <1>1, TaskFacts, FailOnMainFlow
<1>2. CASE UNCHANGED <<task, takeStatus, polling, taking, cut>>
  BY <1>2, QuietFlow DEF WatchFires, saleVars
<1> QED
  BY <1>1, <1>2 DEF WatchFires

(* Closing: the shot that waits for a frame fails, and then the polling    *)
(* and its leave are set again.                                            *)
LEMMA CloseFlow ==
    ASSUME CameraInv, FlowInv, CloseBound, resumed' => polling',
           takeStatus' \/ (task' = task /\ takeStatus' = takeStatus)
    PROVE  FlowInv'
<1>1. task' = AfterFailure(task, {camera.pending})
      /\ taking \cup cut \subseteq taking' \cup cut'
  BY DEF CloseBound, Fail, Unbind
<1>2. Pictured(task', taking \cup cut)
  BY <1>1, TaskFacts, FailPictured
<1>3. Going(task', takeStatus')
  BY TaskFacts DEF Going
<1> QED
  BY <1>1, <1>2, <1>3, StepFlow

LEMMA PostedCloseFlow ==
    ASSUME CameraInv, FlowInv, PostedClose
    PROVE  FlowInv'
<1>1. CASE camera.pending \in Live(task)
  <2>1. CloseBound /\ polling' = TRUE /\ takeStatus' = TRUE
    BY <1>1 DEF PostedClose
  <2>2. (resumed' => polling') /\ takeStatus'
    BY <2>1
  <2> QED
    BY <2>1, <2>2, CloseFlow
<1>2. CASE camera.pending \notin Live(task)
  <2>1. task' = AfterFailure(task, {camera.pending})
        /\ UNCHANGED <<polling, takeStatus, resumed>> /\ CloseBound
    BY <1>2 DEF PostedClose, CloseBound, Fail, saleVars
  <2>2. \A q \in Request :
           <<q, task[q].left>> \notin {camera.pending} \cap Live(task)
    BY <1>2
  <2>3. task' = [q \in Request |-> task[q]]
    BY <2>1, <2>2 DEF AfterFailure
  <2>4. task' = task
    BY <2>3, TaskFacts DEF TaskTable
  <2>5. resumed' => polling'
    BY <2>1 DEF FlowInv
  <2> QED
    BY <2>1, <2>4, <2>5, CloseFlow
<1> QED
  BY <1>1, <1>2

LEMMA StopFlow ==
    ASSUME CameraInv, FlowInv, Stop
    PROVE  FlowInv'
<1>1. resumed' = FALSE /\ takeStatus' = TRUE
  BY DEF Stop
<1>2. CASE CloseBound
  <2>1. (resumed' => polling') /\ takeStatus'
    BY <1>1
  <2> QED
    BY <1>2, <2>1, CloseFlow
<1>3. CASE UNCHANGED <<req, task, service, serviceVars>>
  <2>1. Pictured(task', taking \cup cut) /\ Going(task', takeStatus')
    BY <1>1, <1>3, TaskFacts DEF Pictured, Going
  <2> QED
    BY <1>1, <1>3, <2>1, StepFlow DEF serviceVars, callVars
<1> QED
  BY <1>2, <1>3 DEF Stop

LEMMA ResumeFlow ==
    ASSUME CameraInv, FlowInv, Resume
    PROVE  FlowInv'
BY TaskFacts, FailOnMainFlow DEF Resume

\* A picture has come: it is at work, and is looked at.
LEMMA LookFlow ==
    ASSUME CameraInv, FlowInv, NEW s \in Shot, s \in Live(task),
           s \in taking' \cup cut', taking \cup cut \subseteq taking' \cup cut',
           task' = [task EXCEPT ![s[1]].phase = "detecting"],
           UNCHANGED <<takeStatus, polling, resumed>>
    PROVE  FlowInv'
<1>1. s[1] \in Request /\ task[s[1]] = Shooting(s[2]) /\ <<s[1], s[2]>> = s
  BY ShotFacts DEF Live, Shot
<1>2. task'[s[1]] = [phase |-> "detecting", left |-> s[2]]
      /\ \A q \in Request : q # s[1] => task'[q] = task[q]
  BY <1>1, TaskFacts DEF TaskTable, Shooting
<1>3. Pictured(task', taking' \cup cut')
  BY <1>1, <1>2, TaskFacts DEF Pictured
<1>4. \E q \in Request : task'[q].phase # "none"
  BY <1>1, <1>2
<1> QED
  BY <1>3, <1>4 DEF FlowInv, Pictured, Going

LEMMA FrameFlow ==
    ASSUME CameraInv, FlowInv, Frame
    PROVE  FlowInv'
<1>1. /\ camera.pending \in Shot /\ camera.pending \in taking'
      /\ taking \cup cut \subseteq taking' \cup cut'
      /\ UNCHANGED <<takeStatus, polling, resumed>>
  BY DEF Frame, CameraInv, ServiceInv, CameraFields, saleVars
<1>2. CASE camera.pending \in Live(task)
  <2>1. PICK s \in Shot : s = camera.pending
    BY <1>1
  <2>2. task' = [task EXCEPT ![s[1]].phase = "detecting"]
    BY <1>2, <2>1 DEF Frame
  <2> QED
    BY <1>1, <1>2, <2>1, <2>2, LookFlow
<1>3. CASE camera.pending \notin Live(task)
  BY <1>1, <1>3, QuietFlow DEF Frame
<1> QED
  BY <1>2, <1>3

LEMMA PictureTakenFlow ==
    ASSUME CameraInv, FlowInv, NEW s \in Shot, PictureTaken(s)
    PROVE  FlowInv'
BY LookFlow DEF PictureTaken, serviceVars, callVars, saleVars

\* What is over is not looked at any more.
LEMMA FinishPictured ==
    ASSUME NEW t, NEW s \in Shot, Pictured(t, taking \cup cut),
           taking' = taking \ {s}, cut' = cut \ {s},
           t[s[1]] # [phase |-> "detecting", left |-> s[2]],
           t \in TaskTable
    PROVE  Pictured(t, taking' \cup cut')
<1>1. s[1] \in Request /\ t[s[1]] \in [phase: {"none", "shooting", "detecting",
                                              "retrying"}, left: 0..Retries]
  BY ShotFacts DEF TaskTable
<1>2. t[s[1]].phase = "detecting" => t[s[1]].left # s[2]
  BY <1>1
<1>3. ASSUME NEW q \in Request, t[q].phase = "detecting"
      PROVE  <<q, t[q].left>> # s
  BY <1>2, <1>3
<1> QED
  BY <1>3 DEF Pictured

LEMMA DetectedFlow ==
    ASSUME CameraInv, FlowInv, NEW s \in Shot, Detected(s)
    PROVE  FlowInv'
<1>1. /\ task' = [task EXCEPT ![s[1]] = NoTask] /\ takeStatus' = TRUE
      /\ taking' = taking \ {s} /\ cut' = cut \ {s}
      /\ UNCHANGED <<polling, resumed>>
  BY DEF Detected, Finish, saleVars
<1>2. s[1] \in Request /\ NoTask # [phase |-> "detecting", left |-> s[2]]
      /\ NoTask.phase = "none" /\ NoTask.left = 0
  BY ShotFacts DEF NoTask
<1>3. PICK t : t = task'
  OBVIOUS
<1>4. t \in TaskTable /\ t[s[1]] = NoTask
      /\ \A q \in Request : q # s[1] => t[q] = task[q]
  BY <1>1, <1>2, <1>3, TaskFacts, ShotFacts DEF TaskTable, NoTask
<1>5. Pictured(t, taking \cup cut)
  BY <1>2, <1>4, TaskFacts DEF Pictured
<1>6. Pictured(t, taking' \cup cut')
  BY <1>1, <1>2, <1>4, <1>5, FinishPictured
<1> QED
  BY <1>1, <1>3, <1>6 DEF FlowInv, Pictured, Going

LEMMA PictureIgnoredFlow ==
    ASSUME CameraInv, FlowInv, NEW s \in Shot, PictureIgnored(s)
    PROVE  FlowInv'
<1>1. /\ UNCHANGED <<task, takeStatus, polling, resumed>>
      /\ taking' = taking \ {s} /\ cut' = cut \ {s}
  BY DEF PictureIgnored, Finish, monitorVars, saleVars
<1>2. Pictured(task, taking' \cup cut')
  BY <1>1, TaskFacts, FinishPictured DEF PictureIgnored
<1> QED
  BY <1>1, <1>2 DEF FlowInv, Pictured, Going

LEMMA PictureFailsFlow ==
    ASSUME CameraInv, FlowInv, NEW s \in Shot, PictureFails(s)
    PROVE  FlowInv'
<1>1. s \in Live(task) /\ Fail(task, {s}) /\ {s} \subseteq Live(task)
  BY DEF PictureFails
<1>2. CASE Restart({s})
  BY <1>1, <1>2, TaskFacts, FailOnMainFlow DEF FailOnMain
<1>3. CASE /\ polling' = TRUE /\ takeStatus' = TRUE
           /\ taking' = taking \ {s} /\ cut' = cut \ {s}
  <2>1. task' = AfterFailure(task, {s})
        /\ taking' \cup cut' = (taking \cup cut) \ {s}
    BY <1>1, <1>3 DEF Fail
  <2>2. Pictured(AfterFailure(task, {s}), (taking \cup cut) \ {s})
    BY <1>1, TaskFacts, PrunePictured, FailPictured
  <2>3. Pictured(task', taking' \cup cut')
    BY <2>1, <2>2
  <2> QED
    BY <1>3, <2>3 DEF FlowInv, Pictured, Going
<1> QED
  BY <1>2, <1>3 DEF PictureFails

LEMMA OtherFlow ==
    ASSUME CameraInv, FlowInv,
           \/ \E r \in Request : Ask(r) \/ Abandon(r)
           \/ PrewarmCall \/ PrewarmRuns \/ Connected \/ UNCHANGED cameraVars
    PROVE  FlowInv'
<1>1. CASE \/ \E r \in Request : Ask(r) \/ Abandon(r)
           \/ Connected \/ UNCHANGED cameraVars
  <2>1. UNCHANGED <<task, takeStatus, polling, resumed, taking, cut>>
    BY <1>1 DEF Ask, Abandon, Connected, cameraVars, monitorVars,
       serviceVars, callVars, saleVars
  <2> QED
    BY <2>1, QuietFlow
<1>2. CASE PrewarmRuns
  <2>1. UNCHANGED <<task, takeStatus, polling, resumed, taking, cut>>
    BY <1>2 DEF PrewarmRuns, Prewarmed, monitorVars
  <2> QED
    BY <2>1, QuietFlow
<1>3. CASE PrewarmCall
  <2>1. UNCHANGED <<task, taking, cut, resumed>>
        /\ (UNCHANGED <<polling, takeStatus>>
            \/ (polling' = TRUE /\ takeStatus' = TRUE))
    BY <1>3 DEF PrewarmCall, callVars
  <2> QED
    BY <2>1 DEF FlowInv, Pictured, Going
<1> QED
  BY <1>1, <1>2, <1>3

LEMMA CameraNextFlow ==
    CameraInv /\ FlowInv /\ [CameraNext]_cameraVars => FlowInv'
<1> SUFFICES ASSUME CameraInv, FlowInv, [CameraNext]_cameraVars PROVE FlowInv'
  OBVIOUS
<1>1. CASE \/ \E r \in Request : Ask(r) \/ Abandon(r)
           \/ PrewarmCall \/ PrewarmRuns \/ Connected \/ UNCHANGED cameraVars
  BY <1>1, OtherFlow
<1>2. CASE Poll \/ AutoRelease \/ PostedRelease \/ PostedClose \/ Stop \/ Resume
  BY <1>2, PollFlow, ReleaseFlow, PostedCloseFlow, StopFlow, ResumeFlow
     DEF AutoRelease, PostedRelease
<1>3. CASE Frame
  BY <1>3, FrameFlow
<1>4. ASSUME NEW r \in Request, Retry(r) \/ Timeout(r) PROVE FlowInv'
  BY <1>4, RetryFlow, TimeoutFlow
<1>5. ASSUME NEW who \in Caller, Recheck(who) \/ InitEnds(who) \/ OrphanEnds(who)
      PROVE  FlowInv'
  BY <1>5, CallerFlow
<1>6. ASSUME NEW s \in Shot,
             \/ WatchFires(s) \/ Detected(s)
             \/ PictureTaken(s) \/ PictureIgnored(s) \/ PictureFails(s)
      PROVE  FlowInv'
  BY <1>6, WatchFlow, DetectedFlow, PictureTakenFlow, PictureIgnoredFlow,
     PictureFailsFlow
<1> QED
  BY <1>1, <1>2, <1>3, <1>4, <1>5, <1>6 DEF CameraNext, Message

(* A request that a sale waits for is in the queue with the polling on, or *)
(* at work with its end in sight, whatever timeouts, restarts, closings    *)
(* and late pictures came first.                                           *)
THEOREM NoRequestForgotten == CameraSpec => []WaitingNotForgotten
<1>1. CameraInv /\ FlowInv /\ [CameraNext]_cameraVars => (CameraInv /\ FlowInv)'
  BY CameraNextInv, CameraNextFlow
<1>2. CameraInit => CameraInv /\ FlowInv
  BY CameraInitInv, InitFlow
<1> QED
  BY <1>1, <1>2, FlowIsEnough, PTL DEF CameraSpec
=============================================================================
