---------------------------- MODULE CameraCapture -----------------------------
(***************************************************************************)
(* How a picture of the sell window is taken.  captureAndDetect queues a   *)
(* request with CameraMonitor and waits for it, at most twenty seconds;    *)
(* CameraMonitor polls its queue from the main looper, times out, retries  *)
(* and restarts CameraService; CameraService opens the camera for a shot   *)
(* or a prewarming and releases it afterwards.                             *)
(*                                                                         *)
(* An action is one message of the main looper, a callback of the camera's *)
(* executor, or a step of the selling coroutine.  Time is left out: what   *)
(* was posted with a delay runs at any time.  A service whose last client  *)
(* unbinds is destroyed at once, without the moment Android takes for it.  *)
(* The only user of CameraAccessCoordinator is CameraService, so it always *)
(* gets the camera; the test page that also binds it is not modelled.      *)
(***************************************************************************)
EXTENDS Naturals, Sequences, FiniteSets

CONSTANTS
    Pictures,     \* bound: pictures the sales ask for, one after another
    Retries,      \* retry
    QueueLimit,   \* 20
    MaxPrewarms,  \* bound: sales that prewarm the camera
    MaxStops      \* bound: how often the activity is stopped

ASSUME CameraAssumption ==
    /\ Pictures \in Nat \ {0}
    /\ Retries \in Nat /\ QueueLimit \in Nat \ {0}
    /\ MaxPrewarms \in Nat /\ MaxStops \in Nat

Request == 1..Pictures

\* A shot: the request, and the retries left after it.
Shot == Request \X (0..Retries)
Prewarm == <<0, 0>>
NoShot == <<0, 1>>
Caller == Shot \cup {Prewarm}

VARIABLES
    external,    \* the camera is external: shots are frames of an analysis
    resumed,     \* MainActivity is in the foreground
    req,         \* the coroutine that asked
    queue,       \* deque
    task,        \* what takePhoto of a request is doing
    polling,     \* the polling runnable is posted
    takeStatus,  \* takeStatus: the next task may be taken
    service,     \* cameraService, and whether bindService is under way
    camera,      \* the fields of CameraService
    inits,       \* initCamera calls that wait for the provider
    orphans,     \* ... whose service was destroyed meanwhile
    rechecks,    \* initCamera calls posted again, every 200 ms
    taking,      \* pictures of an internal camera, and images at work
    cut,         \* ... whose service was destroyed meanwhile
    watch,       \* shots with a posted check for their frame
    posted,      \* releases posted by another thread
    autoRelease, \* autoReleaseRunnable is posted
    prewarming,  \* the call of prewarm posted by CameraMonitor
    prewarms, stops

monitorVars == <<req, queue, task, polling, takeStatus>>
callVars == <<inits, orphans, rechecks, taking, cut, watch>>
serviceVars == <<camera, callVars, posted, autoRelease>>
saleVars == <<external, resumed, prewarming, prewarms, stops>>
cameraVars == <<monitorVars, service, serviceVars, saleVars>>

Off == [ready |-> FALSE, initializing |-> FALSE, bound |-> FALSE,
        pending |-> NoShot]
NoTask == [phase |-> "none", left |-> 0]

CameraTypeOK ==
    /\ external \in BOOLEAN /\ resumed \in BOOLEAN
    /\ req \in [Request -> {"new", "waiting", "answered", "abandoned"}]
    /\ queue \in Seq(Request) /\ Len(queue) =< QueueLimit
    /\ task \in [Request -> [phase: {"none", "shooting", "detecting",
                             "retrying"},
                             left: 0..Retries]]
    /\ polling \in BOOLEAN /\ takeStatus \in BOOLEAN
    /\ service \in {"unbound", "binding", "bound"}
    /\ camera \in [ready: BOOLEAN, initializing: BOOLEAN, bound: BOOLEAN,
                   pending: Shot \cup {NoShot}]
    /\ inits \subseteq Caller /\ orphans \subseteq Caller
    /\ rechecks \subseteq Caller
    /\ taking \subseteq Shot /\ cut \subseteq Shot /\ watch \subseteq Shot
    /\ posted \subseteq {"release", "close"}
    /\ autoRelease \in BOOLEAN /\ prewarming \in BOOLEAN
    /\ prewarms \in 0..MaxPrewarms /\ stops \in 0..MaxStops

\* onResume has started the monitor.
CameraInit ==
    /\ external \in BOOLEAN /\ resumed = TRUE
    /\ req = [r \in Request |-> "new"] /\ queue = <<>>
    /\ task = [r \in Request |-> NoTask]
    /\ polling = TRUE /\ takeStatus = TRUE
    /\ service = "binding" /\ camera = Off
    /\ inits = {} /\ orphans = {} /\ rechecks = {}
    /\ taking = {} /\ cut = {} /\ watch = {}
    /\ posted = {} /\ autoRelease = FALSE
    /\ prewarming = FALSE /\ prewarms = 0 /\ stops = 0

-----------------------------------------------------------------------------
(* CameraMonitor: the end of a shot.                                       *)

Shooting(left) == [phase |-> "shooting", left |-> left]

\* completed is still FALSE.
Live(t) == {s \in Shot : t[s[1]] = Shooting(s[2])}

\* Requests whose last retry is among the shots that fail.
Exhausted(t, S) == {r \in Request : <<r, 0>> \in S \cap Live(t)}

AfterFailure(t, S) ==
    [r \in Request |->
        IF <<r, t[r].left>> \notin S \cap Live(t) THEN t[r]
        ELSE IF t[r].left > 0 THEN [t[r] EXCEPT !.phase = "retrying"]
        ELSE NoTask]

\* callback: who waits for these requests goes on.
CallBack(R) ==
    req' = [r \in Request |->
               IF r \in R /\ req[r] = "waiting" THEN "answered" ELSE req[r]]

\* Fault: the last retry that fails forgets to call back.
FailSilently(t, S) == task' = AfterFailure(t, S) /\ UNCHANGED req

\* handleTimeoutAndRetry for those of the shots that are still awaited: a
\* retry is posted, or the request is called back with null.
Fail(t, S) == task' = AfterFailure(t, S) /\ CallBack(Exhausted(t, S))

\* The last unbindService destroys the service; its posted messages go with
\* it, what waits for the provider or a picture is left to end by itself,
\* except the calls of done, which are just ending.
Unbind(done) ==
    /\ camera' = Off
    /\ inits' = {} /\ orphans' = (orphans \cup inits) \ done /\ rechecks' = {}
    /\ taking' = {} /\ cut' = (cut \cup taking) \ done
    /\ watch' = {} /\ posted' = {} /\ autoRelease' = FALSE

\* Fault: the polling runnable is only removed.
RestartUnpolled(done) ==
    /\ Unbind(done) /\ service' = "binding"
    /\ polling' = FALSE /\ takeStatus' = TRUE

\* startService on the main looper: close, and bind again.
Restart(done) ==
    /\ Unbind(done) /\ service' = "binding"
    /\ polling' = TRUE /\ takeStatus' = TRUE

\* Shots end in an error on the main looper, which restarts the service.
FailOnMain(t, S, done) == Restart(done) /\ Fail(t, S)

\* releaseCamera on the main looper: an error for the shot that waits for a
\* frame.
ReleaseCamera ==
    /\ \/ camera.pending \in Live(task)
          /\ FailOnMain(task, {camera.pending}, {})
       \/ /\ camera.pending \notin Live(task)
          /\ camera' = Off /\ autoRelease' = FALSE
          /\ posted' = posted \ {"release"}
          /\ UNCHANGED <<req, task, polling, takeStatus, service, callVars>>
    /\ UNCHANGED <<queue, saleVars>>

-----------------------------------------------------------------------------
(* CameraService: taking a picture.  Each operator is called with the task *)
(* table t and leaves takeStatus at free when no error restarts it all.    *)

\* Fault: the prewarmed camera is not released by itself.
PrewarmedForEver(c) ==
    camera' = c /\ UNCHANGED <<autoRelease, taking, watch>>

Prewarmed(c) ==
    camera' = c /\ autoRelease' = TRUE
    /\ UNCHANGED <<taking, watch>>

\* The shot is accepted: it waits for a frame or takes a picture.
Accept(s, c) ==
    /\ camera' = [c EXCEPT !.ready = FALSE,
                           !.pending = IF external THEN s ELSE @]
    /\ taking' = IF external THEN taking ELSE taking \cup {s}
    /\ watch' = IF external THEN watch \cup {s} ELSE watch
    /\ autoRelease' = FALSE

\* The callback of initCamera when the camera c is ready.
OnReady(t, free, who, c) ==
    \/ /\ \/ who = Prewarm /\ Prewarmed(c)
          \/ who # Prewarm /\ (external => c.pending = NoShot)
             /\ Accept(who, c)
       /\ task' = t /\ takeStatus' = free
       /\ UNCHANGED <<req, polling, service, orphans, cut, posted>>
       /\ inits' = inits \ {who} /\ rechecks' = rechecks \ {who}
    \* another shot waits for its frame, or takePicture throws
    \/ /\ who \in Live(t) /\ (external => c.pending # NoShot)
       /\ FailOnMain(t, {who, camera.pending}, {who})
    \/ /\ who \notin Live(t) \cup {Prewarm}
       /\ external => c.pending # NoShot
       /\ camera' = IF external THEN c ELSE Off
       /\ autoRelease' = (external /\ autoRelease)
       /\ task' = t /\ takeStatus' = free
       /\ UNCHANGED <<req, polling, service, orphans, taking, cut, watch,
                      posted>>
       /\ inits' = inits \ {who} /\ rechecks' = rechecks \ {who}

\* initCamera on the main looper.
InitCamera(t, free, who) ==
    IF camera.ready THEN OnReady(t, free, who, camera)
    ELSE /\ \/ /\ camera.initializing
               /\ rechecks' = rechecks \cup {who}
               /\ UNCHANGED <<camera, inits>>
            \/ /\ ~camera.initializing
               /\ camera' = [camera EXCEPT !.initializing = TRUE]
               /\ inits' = inits \cup {who} /\ rechecks' = rechecks \ {who}
         /\ task' = t /\ takeStatus' = free
         /\ UNCHANGED <<req, polling, service, orphans, taking, cut, watch,
                        posted, autoRelease>>

\* takePhoto of CameraMonitor.
TakePhoto(r, left, free) ==
    LET t == [task EXCEPT ![r] = Shooting(left)] IN
    \/ service = "bound" /\ InitCamera(t, free, <<r, left>>)
    \/ /\ service # "bound"
       /\ Fail(t, {<<r, left>>})
       /\ takeStatus' = (free \/ left = 0)
       /\ UNCHANGED <<polling, service, serviceVars>>

-----------------------------------------------------------------------------
(* The selling coroutine.                                                  *)

InFront(r) ==
    <<r>> \o IF Len(queue) < QueueLimit THEN queue
             ELSE SubSeq(queue, 1, Len(queue) - 1)

\* captureAndDetect, one at a time: the sale's pictures go to the front.
Ask(r) ==
    /\ req[r] = "new"
    /\ \A p \in 1..(r - 1) : req[p] \in {"answered", "abandoned"}
    /\ req' = [req EXCEPT ![r] = "waiting"] /\ queue' = InFront(r)
    /\ UNCHANGED <<task, polling, takeStatus, service, serviceVars,
                   saleVars>>

\* Twenty seconds have passed, or the sale is cancelled; the request stays.
Abandon(r) ==
    /\ req[r] = "waiting" /\ req' = [req EXCEPT ![r] = "abandoned"]
    /\ UNCHANGED <<queue, task, polling, takeStatus, service, serviceVars,
                   saleVars>>

\* A sale prewarms the camera, before its pictures.  A service that connects
\* after it was found missing is closed again by a message.
PrewarmCall ==
    /\ prewarms < MaxPrewarms /\ ~prewarming
    /\ \A r \in Request : req[r] # "waiting"
    /\ prewarming' = TRUE /\ prewarms' = prewarms + 1
    /\ \/ service = "bound" /\ UNCHANGED <<polling, takeStatus, service,
                                           posted>>
       \/ /\ service # "bound" /\ service' = "binding"
          /\ polling' = TRUE /\ takeStatus' = TRUE /\ UNCHANGED posted
       \/ /\ service = "binding" /\ service' = "bound"
          /\ polling' = TRUE /\ takeStatus' = TRUE
          /\ posted' = posted \cup {"close"}
    /\ UNCHANGED <<req, queue, task, camera, callVars, autoRelease,
                   external, resumed, stops>>

-----------------------------------------------------------------------------
(* Messages of the main looper.                                            *)

\* The polling runnable takes the next request.
Poll ==
    /\ polling /\ takeStatus /\ queue # <<>>
    /\ queue' = Tail(queue)
    /\ TakePhoto(Head(queue), Retries, FALSE)
    /\ UNCHANGED saleVars

Retry(r) ==
    /\ task[r].phase = "retrying"
    /\ TakePhoto(r, task[r].left - 1, takeStatus)
    /\ UNCHANGED <<queue, saleVars>>

\* timeoutRunnable.
Timeout(r) ==
    /\ task[r].phase = "shooting"
    /\ FailOnMain(task, {<<r, task[r].left>>, camera.pending}, {})
    /\ UNCHANGED <<queue, saleVars>>

PrewarmRuns ==
    /\ prewarming /\ prewarming' = FALSE
    /\ \/ /\ service = "bound" /\ ~camera.ready /\ autoRelease' = FALSE
          /\ \/ /\ camera.initializing /\ rechecks' = rechecks \cup {Prewarm}
                /\ UNCHANGED <<camera, inits>>
             \/ /\ ~camera.initializing /\ inits' = inits \cup {Prewarm}
                /\ camera' = [camera EXCEPT !.initializing = TRUE]
                /\ UNCHANGED rechecks
          /\ UNCHANGED <<taking, watch>>
       \/ /\ service = "bound" /\ camera.ready /\ Prewarmed(camera)
          /\ UNCHANGED <<inits, rechecks>>
       \/ service # "bound" /\ UNCHANGED <<camera, inits, rechecks, taking,
                                           watch, autoRelease>>
    /\ UNCHANGED <<monitorVars, service, orphans, cut, posted, external,
                   resumed, prewarms, stops>>

Recheck(who) ==
    /\ who \in rechecks /\ InitCamera(task, takeStatus, who)
    /\ UNCHANGED <<queue, saleVars>>

\* The provider answers: the camera is bound, or there is none.
InitEnds(who) ==
    /\ who \in inits
    /\ \/ OnReady(task, takeStatus, who,
                  [camera EXCEPT !.ready = TRUE, !.initializing = FALSE,
                                 !.bound = TRUE])
       \/ who \in Live(task) /\ FailOnMain(task, {who}, {who})
       \/ /\ who \notin Live(task)
          /\ camera' = Off /\ inits' = inits \ {who}
          /\ UNCHANGED <<req, task, polling, takeStatus, service, orphans,
                         rechecks, taking, cut, watch, posted, autoRelease>>
    /\ UNCHANGED <<queue, saleVars>>

\* The provider answers a service that is gone: unbindAll takes the camera
\* from its successor, then the binding fails.
OrphanEnds(who) ==
    /\ who \in orphans
    /\ \/ /\ who \in Live(task)
          /\ FailOnMain(task, {who, camera.pending}, {who})
       \/ /\ who \notin Live(task)
          /\ camera' = [camera EXCEPT !.bound = FALSE]
          /\ orphans' = orphans \ {who}
          /\ UNCHANGED <<req, task, polling, takeStatus, service, inits,
                         rechecks, taking, cut, watch, posted, autoRelease>>
    /\ UNCHANGED <<queue, saleVars>>

\* 2.5 seconds without a frame.
WatchFires(s) ==
    /\ s \in watch
    /\ \/ camera.pending = s /\ s \in Live(task) /\ FailOnMain(task, {s}, {})
       \/ /\ camera.pending = s /\ s \notin Live(task)
          /\ watch' = watch \ {s} /\ camera' = Off /\ autoRelease' = FALSE
          /\ UNCHANGED <<req, task, polling, takeStatus, service, inits,
                         orphans, rechecks, taking, cut, posted>>
       \/ /\ camera.pending # s /\ watch' = watch \ {s}
          /\ UNCHANGED <<req, task, polling, takeStatus, service, camera,
                         inits, orphans, rechecks, taking, cut, posted,
                         autoRelease>>
    /\ UNCHANGED <<queue, saleVars>>

AutoRelease == autoRelease /\ ReleaseCamera

PostedRelease == "release" \in posted /\ ReleaseCamera

\* close on the main looper, with a service to close: the error of the shot
\* that waits for a frame restarts the service, and the end of close unbinds
\* it again.
CloseBound ==
    /\ Unbind({}) /\ service' = "unbound"
    /\ Fail(task, {camera.pending})

PostedClose ==
    /\ "close" \in posted /\ CloseBound
    /\ IF camera.pending \in Live(task)
       THEN polling' = TRUE /\ takeStatus' = TRUE
       ELSE UNCHANGED <<polling, takeStatus>>
    /\ UNCHANGED <<queue, saleVars>>

Connected ==
    /\ service = "binding" /\ service' = "bound"
    /\ UNCHANGED <<monitorVars, serviceVars, saleVars>>

\* onStop of MainActivity.
Stop ==
    /\ resumed /\ resumed' = FALSE /\ stops < MaxStops /\ stops' = stops + 1
    /\ takeStatus' = TRUE
    /\ \/ /\ service = "bound" /\ CloseBound
          /\ polling' = (camera.pending \in Live(task))
       \/ /\ service # "bound" /\ polling' = FALSE
          /\ UNCHANGED <<req, task, service, serviceVars>>
    /\ UNCHANGED <<queue, external, prewarming, prewarms>>

\* onResume of MainActivity.
Resume ==
    /\ ~resumed /\ resumed' = TRUE
    /\ FailOnMain(task, {camera.pending}, {})
    /\ UNCHANGED <<queue, external, prewarming, prewarms, stops>>

-----------------------------------------------------------------------------
(* The executor of the camera.                                             *)

\* A frame for the shot that waits.
Frame ==
    /\ external /\ camera.bound /\ camera.pending # NoShot
    /\ taking' = taking \cup {camera.pending}
    /\ camera' = [camera EXCEPT !.pending = NoShot]
    /\ task' = IF camera.pending \in Live(task)
               THEN [task EXCEPT ![camera.pending[1]].phase = "detecting"]
               ELSE task
    /\ UNCHANGED <<req, queue, polling, takeStatus, service, inits, orphans,
                   rechecks, cut, watch, posted, autoRelease, saleVars>>

\* takePicture of an internal camera succeeds.
PictureTaken(s) ==
    /\ ~external /\ s \in (taking \cup cut) \cap Live(task)
    /\ task' = [task EXCEPT ![s[1]].phase = "detecting"]
    /\ UNCHANGED <<req, queue, polling, takeStatus, service, serviceVars,
                   saleVars>>

\* The picture is over: releaseNow of its service.
Finish(s) ==
    /\ taking' = taking \ {s} /\ cut' = cut \ {s}
    /\ posted' = IF s \in taking THEN posted \cup {"release"} ELSE posted

\* The picture has been looked at, whatever it shows.
Detected(s) ==
    /\ s \in taking \cup cut
    /\ task[s[1]] = [phase |-> "detecting", left |-> s[2]]
    /\ task' = [task EXCEPT ![s[1]] = NoTask]
    /\ CallBack({s[1]}) /\ takeStatus' = TRUE
    /\ Finish(s)
    /\ UNCHANGED <<queue, polling, service, camera, inits, orphans,
                   rechecks, watch, autoRelease, saleVars>>

\* A picture that nobody waits for any more, good or bad.
PictureIgnored(s) ==
    /\ s \in (taking \cup cut) \ Live(task)
    /\ task[s[1]] # [phase |-> "detecting", left |-> s[2]]
    /\ Finish(s)
    /\ UNCHANGED <<monitorVars, service, camera, inits, orphans, rechecks,
                   watch, autoRelease, saleVars>>

\* An internal camera fails, off the main looper: the service that is to be
\* restarted is closed by a message, and bound again only if that message or
\* an earlier close came first.
PictureFails(s) ==
    /\ ~external /\ s \in (taking \cup cut) \cap Live(task)
    /\ Fail(task, {s})
    /\ \/ /\ service = "bound" /\ polling' = TRUE /\ takeStatus' = TRUE
          /\ taking' = taking \ {s} /\ cut' = cut \ {s}
          /\ posted' = posted \cup {"close"}
                       \cup IF s \in taking THEN {"release"} ELSE {}
          /\ UNCHANGED <<service, camera, inits, orphans, rechecks, watch,
                         autoRelease>>
       \/ Restart({s})
    /\ UNCHANGED <<queue, saleVars>>

-----------------------------------------------------------------------------
Message ==
    \/ Poll \/ PrewarmRuns \/ AutoRelease \/ PostedRelease \/ PostedClose
    \/ Connected
    \/ \E r \in Request : Retry(r) \/ Timeout(r)
    \/ \E who \in Caller : Recheck(who)
    \/ \E s \in Shot : WatchFires(s) \/ Detected(s)

CameraNext ==
    \/ Message
    \/ \E r \in Request : Ask(r) \/ Abandon(r)
    \/ PrewarmCall \/ Stop \/ Resume \/ Frame
    \/ \E who \in Caller : InitEnds(who) \/ OrphanEnds(who)
    \/ \E s \in Shot : PictureTaken(s) \/ PictureIgnored(s) \/ PictureFails(s)

CameraSpec == CameraInit /\ [][CameraNext]_cameraVars

\* What is posted runs, a service that is bound connects, and looking at a
\* picture comes to an end.  That the camera answers is not assumed.
FairCameraSpec == CameraSpec /\ WF_cameraVars(Message)

-----------------------------------------------------------------------------
(* Properties.                                                             *)

\* Something will end this shot, or start the next one: its timeout or its
\* retry is posted, or its picture is being looked at.
Moving(r) ==
    \/ task[r].phase \in {"shooting", "retrying"}
    \/ task[r].phase = "detecting" /\ <<r, task[r].left>> \in taking \cup cut

(* A sale that waits for a picture is not forgotten, whatever timeout,     *)
(* restart or close came in between: its request is at work and something  *)
(* will end it, or it is in the queue and, while the activity is in front, *)
(* the polling goes on and is allowed the next task, now or after a task   *)
(* that is at work.  A forgotten one costs the sale twenty seconds and is  *)
(* taken for a camera that cannot see.                                     *)
WaitingNotForgotten ==
    \A r \in Request :
        req[r] = "waiting" =>
            \/ Moving(r)
            \/ /\ \E i \in DOMAIN queue : queue[i] = r
               /\ resumed => /\ polling
                             /\ takeStatus \/ \E q \in Request : Moving(q)

(* Whoever asks for a picture gets an answer, a picture or null, even if   *)
(* the camera never answers, unless the activity is stopped; one that was  *)
(* stopped and comes back answers too.                                     *)
AnswerComes ==
    (\E r \in Request : req[r] = "waiting")
        ~> (~resumed \/ \A r \in Request : req[r] # "waiting")

(* The camera is not left on: neither a prewarming without a sale nor a    *)
(* picture that comes late keeps it.                                       *)
CameraNotLeftOn == <>[](~camera.bound)

(* restartService is there to recover from a timeout or an error: while    *)
(* the activity stays in front, the service ends up bound again.           *)
CameraComesBack == <>[]resumed => <>[](service = "bound")
=============================================================================
