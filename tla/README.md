# A TLA+ model of the kaochang controller

The repository is the Android controller of a vending machine that grills
sausages. The app (Kotlin, `src/app/src/main/java/cn/niuyannet/kaochang/android`,
called `.../` below) talks Modbus over a serial line to a *lower board* that moves
the arm and heats the pans, takes orders over MQTT, reports to a back office over
HTTP and MQTT, and watches the window with a camera. This directory models the
parts of it whose correctness depends on the order of events: who may write what
when, what happens when the line, the app or a message is lost, and whether
everything that starts comes to an end.

It is written from the source. The firmware of the lower board, the broker, the
back office and the people around the machine are not in the repository; they
appear as environment actions, restricted only by what the app counts on.

## 1. Inventory

| Component | State it keeps | Operations | Talks to |
|---|---|---|---|
| Recovery policy (`modbus/ModbusRecoveryPolicy.kt`) | NORMAL, AUTO_RECONNECTING, WAIT_MANUAL_RECOVERY, four timestamps | `onConnected`, `onDisconnected`, `resetToNormal`, `markDisconnectedAtStartup` | called by the monitor loop of `KaoChangAlgorithm` |
| Serial connection (`modbus/VMModbusHelper.kt`, `utils/ConnectManageHelper.kt`) | the open Modbus master, the attempt in flight, pending callbacks, the configured port | `connectModbus`, `connectStatus`, reads and writes, the thirty-second patrol | the policy, deliveries, every register access |
| Device status (`init/AppConfig*.{kt,java}`, `services/KaoChangAlgorithm.kt`, `fragments/MaintenanceFragment.kt`) | `onlineStatus`, `errorStatus`, `restStatusSource`, `isEnable`, `inspectionMode`, persisted as one object | business hours, recovery of the link, faults, maintenance page, orders, restart | written from at least six coroutines without a lock |
| Order intake (`ui/MainActivity.kt`, `ui/OrderActivity.kt`, `utils/OrderStateManager.kt`) | the state of every order number (memory and preferences), `moveStatus`, one coroutine per order | accept, refuse, wait for the arm, deliver item by item, wind up | device status, the arm |
| Mechanical transactions (`services/KaoChangOperate.kt`) | local variables of a transaction; registers 201, 203, 210–217, 220–227 of the board | linked load, linked delivery, single actions with retries | the board through the serial connection |
| Sell platform (`services/KaoChangOperate.kt`, `SellPlatformConfirmPolicy.kt`) | outcome of a sequence of pictures, window open or closed | watch until taken, discard after a timeout, close | camera, board |
| Scheduler (`services/KaoChangScheduler.kt`, `LowCurrentTrafficMode.kt`, `HighCurrentTrafficMode.kt`, `TrafficModeHelper.kt`, `model/KaoPanHelper.kt`) | a snapshot of batches and front pits, the state of every pan, traffic mode | `runCycle`: batches from loading over cooking to holding, changes between low and high traffic, compaction, backfill, discarding | mechanical transactions, heating zones |
| Availability and supply (`KaoChangAlgorithm.kt`) | `available`, the countdown latch, `supplyStatus` | `checkAvailable`, `refreshSupplyStatus` | scheduler, orders, MQTT reports |
| Heating zones (`KaoChangOperate.kt`) | which zone heats or keeps warm | `restoreHeatingStateFromCurrentPans` and others | board |
| MQTT connection (`mqtt/VMMqtt.kt`, `VMMqttHelper.kt`) | client, `isConnecting`, connection generation, wake lock, reconnect job | connect, subscribe, disconnect, scheduled and manual reconnect, patrol | order intake, remote control |
| Remote control and merge (`net/DataManagementAPI.kt`, `AppConfig.kt`) | last applied control sequence number, remote snapshot | runtime control, concurrency control, merge of a snapshot into the configuration | device status |
| Camera access (`services/CameraMonitor.kt`, `CameraService.kt`, `detecition/SauceDetectionUitls.kt`) | a queue of pictures, `takeStatus`, the service binding, the fields of the camera (ready, initializing, bound, pending shot) | ask, poll, shoot, time out, retry, restart, prewarm, release, stop | sell platform, life cycle of the activity |
| Self cleaning (`services/SelfCleanManager.kt`) | switched off by `SelfCleanFeatureToggle` | – | – |
| Image recognition (`detecition/`) | none | numerical | sell platform |
| Views, reports, vendored libraries | – | – | – |

What is hard in them, and what makes them right:

* **Recovery policy.** Samples come at irregular intervals, and the link may flap.
  A recovery has to rest on an unbroken run of answers, a silence has to be given
  up in time however often it is attempted, attempts must not pile up, and once a
  human is waited for nothing but a human may end it.
* **Serial connection.** Three callers ask for attempts of two strengths; a
  second request joins the attempt in flight. The board may come back on another
  port. It must be found again, and everybody who waits must be called back.
* **Device status.** One field says whether the machine sells. A fault, a lost
  link, the end of the day, an order and a human all read and write it on several
  threads without a lock, and it survives a restart. No decision taken after a fault
  may bring a faulty, disabled or waiting machine back into service, and no order of
  the writes may leave one at work for ever.
* **Order intake.** A message may come twice, before, during or after its order.
  `moveStatus` is a lock in name only: it is read first and written later by the
  orders (main thread) and the movements of the scheduler (other threads).
* **Mechanical transactions.** The answer to a command may be lost, the status
  register shows the last session until the board begins the next, and a failed
  attempt is repeated from START.
* **Sell platform.** Pictures fail and misread, the customer takes the sausage at any
  moment, and status 0 of the board means both "done" and "not begun". Every way out
  must close the window, and the order must learn what happened.
* **Scheduler.** A cycle suspends at every movement; meanwhile sausages are sold and
  pits registered, a movement may fail and the app may be killed, and finds pans and a
  snapshot that were not written together. A long sequence of
  legal cycles must never lose a sausage under heat, promise a place in the front
  twice, or leave a batch that nobody finishes.
* **MQTT.** Three threads connect, a reconnect job runs once, answers of earlier
  connections come late. Two sessions, a lock nobody owns or a connection without a
  subscription each leave the machine without orders.
* **Camera.** The queue, its timeouts and its restarts run on the main looper, errors
  of an internal camera on another thread, and a service that is destroyed leaves
  calls behind. Whoever waits for a picture must be answered, and the camera must
  not stay on.

`PROJECT.json` lists the hazards with their lines and the properties that cover
them, or why none does.

## 2. Modules

| Module | Models | Extends |
|---|---|---|
| `CommunicationState` | what the recovery policy promises, without a clock (abstract specification) | – |
| `ModbusRecovery` | the whole policy with its timers | Integers |
| `SerialLink` | the connection, its attempts, the patrol, the check before a delivery, the port of the board | `ModbusRecovery` |
| `DeviceStatus` | the business status and its writers | `CommunicationState` |
| `OrderService` | what an order number is promised across restarts, without messages, coroutines and the arm (abstract specification) | Naturals |
| `OrderIntake` | messages, order states, order coroutines, the arm status, the scheduler's movements, the merge of the back office | Naturals, FiniteSets |
| `LinkedTransaction` | one linked load or delivery with its retries, against the board | Naturals |
| `ActionExecution` | one action of the board over a command register and status register 201 | Naturals |
| `SellPlatform` | one sale at the window: pictures, the watch, closing or discarding, the outcome | `ActionExecution` |
| `MqttConnection` | connect attempts, late callbacks, reconnect jobs, patrol, wake lock | Naturals, FiniteSets |
| `SausageFlow` | what may happen to the sausages on the pans, whoever moves them (abstract specification) | – |
| `PanScheduler` | the cycle of the scheduler in both modes and both transitions, with its snapshot | Integers, FiniteSets, Sequences, Functions |
| `CameraCapture` | how a picture is asked for, taken, retried and answered | Naturals, Sequences, FiniteSets |
| `SerialLink_proofs`, `DeviceStatus_proofs`, `OrderIntake_proofs`, `LinkedTransaction_proofs`, `SellPlatform_proofs`, `MqttConnection_proofs`, `CameraCapture_proofs`, `PanScheduler_proofs` | theorems | the module of that name, TLAPS |
| `MC*` | what the runs check | the module of that name |

The compositions are `SerialLink` (policy, connection, patrol and delivery check
over one board) and `SellPlatform` (the watch and the action that ends it, over one
board and one customer). The other modules meet at one or two fields, which each of
them lets the others write at any time: `OrderIntake` and `DeviceStatus` at
`onlineStatus` and `errorStatus`, `PanScheduler` and the orders at the pans.

The names with *Fault:* before them are plausible bugs of the code; each property
is shown to catch one.

### How they correspond to the code

**ModbusRecovery.** A timestamp is the *age* of what it marks (`None`: not set), so
the reachable states are finite: every sample makes the ages older by the time `d`
since the last sample, up to `Horizon`, beyond which no comparison of the policy
changes. `OnDisconnected` and `OnConnected` are the two methods with their early
returns as disjuncts (`StartOutage`, `GiveUp`, `RetryFast`, `Rediscover`,
`ConnectedElsewhere`, `StartStableObservation`, `KeepObserving`, `AutoRecover`);
`decision` is the `ModbusRecoveryDecision` they return. The history variables
`upFor`, `downFor`, `sinceAttempt`, `attemptGap` measure the link itself, not what
the policy believes of it.

**CommunicationState.** The three states and what the monitor is told, with
silences and answers but no time. `ModbusRecovery` implements it
(`RefinesCommunicationState`), and `DeviceStatus` is built on it: the status
machine does not depend on the thresholds.

**SerialLink.** `connectModbus` confirms a live connection, joins an attempt in
flight whatever its strategy, or starts one. An attempt first gives the open port
up (`DropOldMaster`), then tries its candidates (`FinishAttempt`): the fast one only
the configured port and its neighbours (`here`), the full one every port
(`elsewhere` too), and the port that answered becomes the configured one. The
monitor probes in one step and decides in a later one; what it decides is the
policy's own action, so the composition changes nothing of the policy. The retries
inside one read or write and the list of serial profiles are abstracted to the
outcome.

**DeviceStatus.** Nobody takes a lock, and two lines without a suspension point
between them are not atomic either: the monitor and the poll run on
`Dispatchers.IO`, orders and the page on the main thread, mechanical actions in the
coroutines of the scheduler. So every read of `onlineStatus` or `errorStatus` that
another thread's write may follow, and every write, is a step of its own. `doing[t]`
is the next step of thread `t`, `target[t]` the status it has decided to write:

* a fault (`markDeviceErrorAndUpload`, the monitor giving up, an item that fails) is
  `RaiseFault`, then `WriteOnlineStatus`;
* a recovery, of the monitor (`RoundRecovers`) or the page (`ClickRecover`), reads what
  it goes by, then `ClearFault`, then `WriteOnlineStatus`; the page resets the policy
  after that (`ResetRecoveryState`);
* giving the link up reads the status (`LeaveService`), remembers it
  (`RememberAndFail`), and reports a fault;
* the hours are checked (`EndBusinessHours`, `StartBusinessHours`), `errorStatus` is read
  (`LookForFault`), the status is read again (`SwitchHours`), and written;
* the end of an order reads the status (`EndOrder`), then the fault (`WindUp`), then
  writes (`WriteEnd`). `AcceptOrder` reads and writes in one step, because nobody else
  writes the status it asks for (at work), on which alone it depends.

`Save` is the write of `saveAppConfig`. `Restart` is `startRuntimeAfterConfigLoaded` and
`runServer`. Saving is asynchronous (`apply`) and each pair of the two fields occurs
between some two writes, so the app may find any pair. Left out: the writes of the
back office (`mergeRemoteConfig`, `applyRemoteRuntimeControl`), so `config.status` is 1
throughout, and `isEnable` and `restStatusSource`, so whether a rest may end by itself
is a choice.

*What escapes.* A thread that has decided to put the device in service, and is still
between its check and its write when another thread takes the device out of it, does
put it in service. The code allows that, for example so:

* the monitor clears the fault (`KaoChangAlgorithm.kt:788`), a mechanical fault is
  written whole on another thread (`KaoChangOperate.kt:293-294`), and the monitor
  writes the status it restores (line 789);
* an order ends, reads 4 and finds no fault (`OrderActivity.kt:268-271`), a fault is
  written, and the order writes 1 (line 271, whose condition was read before).

Both end with `errorStatus` 2 and `onlineStatus` 1, and both are behaviours of the model.
The history `overtaken` holds the threads that are in this position, and `late` says
that the status in force was written by one of them (or was restored by a restart with
a fault or an order that it ignores). The safety properties set that status apart,
each says so, and say that there is no other way.

**OrderIntake.** `Receive` is the handler on the main thread: busy (recorded),
duplicate (refused) or accepted. An order's coroutine has a `stage` wherever
another thread can get in between; reading `moveStatus = 0` and writing it are two
steps on both sides. The four ways an item ends are `SausageHandedOver`,
`SausageFails` (from two places) and the refusal of `StartSausage`. The scheduler's
movements (supply 1, pan move 3, discard 4) wait, take, release and, after a
failure, report. `MergeRemoteConfig` is the answer of the back office written over
`onlineStatus` and `errorStatus` by another thread, at any time, also under an
order at work. `MaxDeliveries` says how often the message of each order may come,
and `completions`, the history, how often it was handed over whole. A final state is
in memory at once (`finished`) but is written with `apply`, so it stands in
`unwritten` until `WriteToDisk`, and a crash before that loses it.

**OrderService.** Each order is open, running, handed over or finished, a restart
opens again whatever is not finished, and no order is finished before it was handed
over. `OrderIntake` implements it (`RefinesOrderService`): an order is *handed* from
its last sausage until its final state is on the disk. What it says beyond the other
properties is that nothing but a restart ever opens a handed order.

**LinkedTransaction.** `executeLinkedLoadTransaction` and
`executeLinkedDeliveryTransaction` are the same protocol on other registers; one
model stands for both. The host prepares, writes START, polls, answers each
package with NEXT, and starts again up to twice. Deadline and stall timers are
choices. The board is external: it may begin late, keep a START it got in a
session or ignore it, fail in any package, and it shows what its last session
left. What it does as long as the host watches and hears it (`Watched`) lasts
longer than the half second between two polls. `inherited` marks the one case
in which the host cannot know better: the board already runs when it starts.

**ActionExecution.** `executeActionWithRetry`: see the board not busy (`Precheck`,
`Accept`), write the command (`Issue`, `IssueRefused`, `IssueFails`), poll
(`PollBusy`, `PollIdle`, `RunningTimeout`). A busy board, before or after the command,
starts the loop again, three times at most. No caller asks that RUNNING be seen first, so an idle
status always means success, also before the board has begun; the history variable
`late` marks that case.

**SellPlatform.** `PresenceShot` is one of the pictures that tell whether the
sausage has arrived; from there the sale watches (`MonitorSausage`, `MonitorEmpty`,
`MonitorFailure`, `MonitorDeadline`), or, if no picture could be taken at all, waits
without seeing (`NoVisionShot`, `NoVisionWaits`, `NoVisionDeadline`), until the
window is closed, the sausage discarded, or a failing camera makes it close the window
and report an error (`rescuing`). `SaleReturns` and `OrderTakesOutcome` are what is
booked. A picture may show anything (`misread` remembers that one was wrong), the
sausage may roll off, and the customer takes it whenever the window is open.

**MqttConnection.** A generation names an attempt, its client and its callbacks.
`connect` is three steps of its thread, `ConnectLocks`, `ConnectPrepares` and
`ConnectSends`, with `ConnectThrows` beside the last; the library answers
(`AttemptEnds`) and calls back later (`OnSuccess`, `OnFailure`, `SubscriptionGranted`,
`SubscriptionFails`, `ConnectionLost`), and every callback asks first whether its
generation is still the current one. `scheduleReconnect` checks in one step and
posts in another (`CheckForJob`, `PostJob`). An old client closes at some time
(`OldClientCloses`).

**PanScheduler.** `snap` is `SchedulerSnapshot` and `pan` the pans in memory, `saved` and
`panSaved` what is in the preferences of them, `cyc` where `runCycle` stands. A cycle suspends only at movements of the arm, so a step of the
model is what lies between two of them: `RunCycle` is its head (adopting the mode,
ending the time of the plans, ready batches, holding the low ones in place),
`Backfill`, `Evacuate`, `Load`, `Compact`, `Initialize` and `Discard` are one movement
each, `DecideLow`, `LaunchLow`, `Threshold`, `DecideHigh`, `DecideLowToHigh`, `Finalize`
and `DecideHighToLow` what is decided between them. Sales (`Sale`) empty a pan and
register its pit wherever the cycle suspends. A failing movement leaves
`up = FALSE`, the `errorStatus` that stops the cycle, until a human clears it. Each of
the steps that saves the snapshot does so itself (`Saved`: the end of a cycle, and each
pit that is registered, also in the middle of one).

The pans are saved apart from it: `saveKaoPanList` starts a coroutine
(`KaoPanHelper.kt:208-213`), which movements start in turn from another
(`KaoChangOperate.kt:1884-1887`, `2023-2025`, `2288-2290`), and some updates ask for no
saving at all. So `WritePans`, which saves the pans as they are, may happen at any time
or never, and `Kill`, which may happen anywhere, falls back on a snapshot and on pans
that may be older than it, or newer. The snapshot is taken to be on the disk before
pans that are saved after it, as writes that are applied are carried out in turn; if
neither was written it is as if the app had been killed before. (A write that the system
drops for a later one of the same file, within a tenth of a second, is not followed: no
movement of the arm fits in between.)

A kill after a snapshot and before the pans can so bring sausages back that had left
their pans. `revived` holds the rear pans where that happened, until they are empty
again, and `LowLeavesRearEmpty` sets them apart: beside a snapshot of low concurrency
they lie where nobody looks, and one of high concurrency without pits and batches is
changed to low as the configuration asks (`Adopted`) without a look at the pans. Nothing
in the code prevents that. The property says that no other sausage is ever left there,
after any kill. (The model follows the books of the app: a pan that is revived counts as
full, also where the sausage itself has gone to the front.)

**SausageFlow.** A pan is empty, heating or holding; sausages are loaded onto empty
pans, cook, move to empty pans once cooked, and are taken when warm. `PanScheduler`
implements it (`RefinesSausageFlow`) under a mapping that names where the code keeps
less than that: while planned moves are carried out (`tidying`, evacuation and
compaction) a sausage sold since the plan still has its new place booked (`Misbook`);
the compaction moves sausages that cook; and after a kill (`killed`) a launch or a
move may go by what is no longer true. Everywhere else none of the three may happen.

**CameraCapture.** An action is a message of the main looper, a callback of the
camera's executor or a step of the selling coroutine. `Poll` takes a request from
the queue and shoots (`TakePhoto`); a shot names its request and the retries left, so
that a late frame, timeout or error of an earlier shot can be told from one of the
current. `InitCamera` and `OnReady` are the asynchronous opening; `Unbind` destroys
the service with its posted messages and leaves `orphans` (calls that still wait for
the provider) and `cut` (pictures still being taken). `FailOnMain` and `PictureFails`
are the same restart on the main looper and off it, where it goes differently.

## 3. Runs

`MCx.tla` with `MCx.cfg` is the run of what holds; `MCx_y.cfg` is another instance, or
one statement of the code or its comments that does not hold.

| Run | Checks | Bounds |
|---|---|---|
| `link` | a recovery rests on a stable link (`RecoveryNeedsStableLink`), silence is given up in time (`SilentLinkEscalates`), attempts keep their distance (`AttemptsSpaced`), only a human leaves the last state (`OnlyResetLeavesWaitManual`), the policy implements its abstract promise (`RefinesCommunicationState`), the board is found on whatever port (`BoardFoundAgain`), every callback runs (`EveryCallbackRuns`) | timeout 4, stable delay 2, attempt interval 2, rediscovery 5, rounds of 1 or 2, horizon 5: the code's 15, 5, 3 and 30 seconds made small without turning their order round; the safety theorems cover the code's own values |
| `device` | waiting means maintenance (`MaintenanceWhileWaiting`), a fault keeps the device out of service (`FaultNotInService`), work has an order (`WorkHasOrder`), a disabled device stays disabled (`DisabledStaysDisabled`), silence leaves service (`SilentBoardLeavesService`), closing ends selling (`ClosedDeviceStopsSelling`) | two threads in the middle of something at a time (`MaxBusy`), any number of restarts with any pair of the two fields; one order at a time (the handler refuses a second while at 4) |
| `intake` | an order is served twice only if the app was killed (`ServedOncePerStart`), the life of an order number is the abstract one (`RefinesOrderService`), a busy arm has an owner (`ArmStatusHasOwner`), no second coroutine (`NoSecondCoroutine`), every order ends (`EveryOrderEnds`) | two orders of two sausages, one message comes twice, the supply movement, one crash |
| `linked` | success needs a movement (`SuccessNeedsMovement`), retries move no more than one sausage, disturbed ones no more than one per START (`RetriesMoveNoMore`), every transaction ends (`TransactionEnds`) | the code's two retries and four packages, five kinds of leftovers |
| `sell` | an outcome closes the window (`OutcomeClosesWindow`), *taken* means taken (`TakenMeansTaken`), a sausage that is left is a fault (`LeftSausageIsFault`), a command is carried out once (`CarriedOutOnce`), every sale ends (`EverySaleEnds`) | the code's limits: 3 busy retries, 4 first pictures, 2 failures in a row, 3 empty rounds |
| `mqtt` | neither lock nor the entry of a job is left behind (`NothingLeftBehind`), a live session is the current one (`LiveSessionIsCurrent`), the device ends up subscribed (`EndsUpSubscribed`) | two generations, the current one and one whose answer is late; two jobs posted |
| `sched` | a batch fits the front (`BatchFitsFront`), no sausage in the rear is forgotten (`SupplyTracked`), an assigned pit has its item (`PitHasBatch`), nothing is loaded onto a sausage (`LoadsOntoEmptyPan`), a batch that cooks is whole (`CookingBatchWhole`), the sausages go the ways the abstract flow allows (`RefinesSausageFlow`), every batch ends (`BatchEnds`) | one front, one primary, one secondary and two rear pans, one sausage expiring per cycle, no kill |
| `sched_kill` | low concurrency finds nothing in the rear but what a kill brought back (`LowLeavesRearEmpty`) | one front, one primary and two rear pans, two kills anywhere; what is saved after the last kill is forgotten, as nothing reads it |
| `camera` | a request that is waited for is not forgotten (`WaitingNotForgotten`), an answer comes (`AnswerComes`), the camera is not left on (`CameraNotLeftOn`) | two pictures with one retry each, a queue of one, one prewarming, one stop of the activity, internal and external cameras |
| `intake_twice` | **fails**: "the same order is never executed twice" (`NeverExecutedTwice`) | no crash |
| `sched_raw` | **fails**: a sausage that cooks stays on its pan until it is cooked (`CookingStaysPut`) | as `sched` |
| `camera_rebind` | **fails**: a restart brings the service back (`CameraComesBack`) | one picture with one retry |

Why these bounds reach the interesting cases: two orders are what is needed for a
second one to slip in, to overwrite the first one's arm status and to have its
working status wound up by the other; two sausages for an order that fails half
way; a second message for a repetition in every stage; one kill of an order for
everything the persisted fields can be left in. Two threads of `device` are needed for a
write to fall between the steps of another; three or four at once were checked for the
safety properties (`MaxBusy` 4, 4,940,996 states) and hold, and the proofs are for any
number. Two kills of `sched_kill` are needed for the second to find what was saved after
the first. No code compares more than one
order with the arm, one generation with the current one, or one batch with its zone.
Two rear pans are needed for a batch of which one part was moved; every zone of low
concurrency is there once because the zones are only compared with each other. A
larger instance of `sched` with a second front pan (no kill, 1,528,166 states) was
checked for the safety properties and holds. One prewarming and one stop can each
fall between any two messages of two pictures.

What the failing runs show:

* `intake_twice`: a failed order is released, so its next message runs it from the
  first sausage again, although some may have been handed over.
* `sched_raw`: the compaction from high to low concurrency takes every full pan of
  10 to 21, cooked or not, and the move books the sausage as holding. It is then for
  sale although it was not cooked to its time.
* `camera_rebind`: after an error of an internal camera the restart runs off the main
  looper: `close` only posts the unbinding, `startService` still finds the old service
  and binds nothing, and then the posted message unbinds it. Nothing binds one again
  until the next sale prewarms the camera or the activity resumes.

Some comments of the code that the models contradict without a run of their own are
noted at the hazards in `PROJECT.json`: a short outage clears a mechanical fault that
"waits for a human"; a restart in the middle of an order leaves the status at working;
the arm status is no lock between deliveries and movements; the generation check of
the wake lock can let go of a newer one.

### Fairness

* `FairLinkSpec`: the monitor and the patrol go round, an attempt in flight ends
  (every wait of `connectModbusInternal` is bounded). Nothing is owed to the board.
  Its refinement of `FairCommunicationSpec` shows the fairness of the abstract policy:
  a link that stays silent, or stays up, is found so. (Fairness of a sample as such
  would be too strong: once the ages are at their horizon another sample changes
  nothing, and fairness would force the link to change.)
* `FairDeviceSpec`: the loops go round, a thread that has begun something goes on with
  it, the policy keeps its promise, and the app is not killed for ever
  (`<>[][~Restart]_deviceVars`). The fairness of beginning to give up and of the poll is
  strong because `MaxBusy`, a bound of the model, may keep a thread waiting again and
  again; in the code nothing does.
* `FairIntakeSpec`: a coroutine that can go on does, a movement under way ends.
  Waiting inside `takeSausageResult` needs strong fairness: it polls every two
  seconds, and the arm is idle at least between two cycles of the scheduler, ten
  seconds long. For the wait of `purchaseOrder` none is assumed: it times out.
* `FairLinkedSpec`: the host goes on and its deadline passes. Nothing is owed to
  the board.
* `FairSellSpec`: pictures are asked for, deadlines pass, the call polls and the sale
  goes on. Nothing is owed to the camera, the board or the customer.
* `FairMqttSpec`: every thread that is inside `connect` goes on, the library answers
  (`connectionTimeout` is 30 s), the main looper runs its jobs, the patrol goes round.
  `EndsUpSubscribed` counts on a network that stays up in the end, and on a client
  that can be made in the end.
* `FairSchedSpec`: a movement ends one way or the other (weak), and cycles are begun
  again and again with every timer over (strong: a fault and empty boxes stop the
  loop for a while). `BatchEnds` is about a machine whose faults are cleared and whose
  boxes are filled in the end.
* `FairCameraSpec`: the main looper runs what is posted, a bound service connects, and
  looking at a picture comes to an end. The camera may never answer.

`CHECK_DEADLOCK FALSE` stands in the configurations of systems that may stop:
orders and messages, transactions, sales, pictures and kills are bounded or end, the
model of MQTT ends with `disConnect`, and a scheduler without stock or under a fault
waits for people.

## 4. Proofs

TLAPS proves for every value of the constants what TLC checks on the instances.
The type invariants of the modules are theorems, and so stand in no run. Every safety
property of a passing run, and the safety half of every refinement, is a theorem.

**SerialLink_proofs, the policy.** The inductive invariant `RecoveryInv` joins the type
invariant, the three safety properties and `TimersFollowHistory`, which relates the
policy's timers to the history: while the policy is reconnecting, `disconnectSince`
is the age of the silence and `lastReconnectAttempt` that of the last attempt, and in
WAIT_MANUAL_RECOVERY the last attempt is at least as old as the rediscovery timer
says. Without it the properties are not inductive: they speak of the link, the
policy of its timers. Assumption: the thresholds are positive natural numbers and
ages are kept up to a horizon that reaches all of them (`RecoveryAssumption`). From it
follow `RecoveryTypeCorrect`, `StableLinkRequired`, `SilenceEscalates`,
`AttemptsAreSpaced` and `OnlyResetRecovers`. `RefinesCommunication` maps the initial
states and every step to `CommunicationState`; its fairness is checked by TLC (`link`).

**SerialLink_proofs, the composition.** `LinkImplementsRecovery`: whatever the connection,
the patrol, a
delivery or the board do, every step of the composition is a step of the policy or
leaves it alone. So the theorems about the policy carry over
(`LinkStableLinkRequired`, `LinkSilenceEscalates`, `LinkAttemptsAreSpaced`,
`LinkOnlyResetRecovers`), with the thresholds of the code among the values covered.
`LinkTypeCorrect` adds that whoever waits for a connection waits for an attempt in
flight.

**DeviceStatus_proofs.** For any `MaxBusy` and any number of restarts. As every read is a
step, an invariant must say what a thread in the middle of something may still rely
on. That is `DecisionInv`: of a thread that has not been overtaken, what it has seen is
still so: no fault (`SawNoFault`), a device in service that was not disabled
(`SawService`). A write that takes the device out of service overtakes all who have
decided to put it there (`SaveKeepsDecisions`), every other write leaves true what they
rely on. So a write that is not late rests on what is still the case, and that is
`FaultNotInService`. `DeviceInv` joins it with the types, `WorkHasOrder`, `FaultTarget`
(who is about to report a fault will write maintenance) and `DisabledInv`: while the
mark `wasDisabled` is set, the device is disabled or in maintenance, and the status the
recovery comes back to (`lastRecoverableOnlineStatus`) is disabled. `WaitInv` adds that the
mark `worked` misses no order and that the policy is back to normal while the monitor
restores a status, and `ActionInv` that a mechanical action writes nothing but
maintenance. From these `DeviceTypeCorrect`,
`FaultOutOfService`, `WorkIsOwned`, `WaitingIsMaintenance` and the action property
`RecoveryKeepsDisabled`.

**OrderIntake_proofs.** `IntakeInv` joins the types and the properties with
`LockInv` (an order with a coroutine is in processing or finished),
`FinishedInv`, `ProgressInv` (how many sausages are left in which stage) and
`CompletionInv` (an order that is neither recorded nor about to be was handed over at
most once per crash; the record allows for once more: whether it had reached the disk
decides whether a crash pays for that). From it `IntakeTypeCorrect`,
`FinishedStaysFinished`, `ServedOnce`, `ArmStatusOwned`, `OneCoroutinePerOrder`, for
any set of orders, quantity, number of messages and crashes, and whatever the back
office writes. `RefinesService` maps every step of the intake to a step of
`OrderService` or to a stutter, whichever order it is about; it needs the invariant
to know that a message that is accepted, and a coroutine that gives up, never belongs
to an order that was handed over.

**LinkedTransaction_proofs.** `LinkedTypeCorrect` and `SuccessIsMovement`: for any
number of retries and packages, success is reported only after a sausage moved,
unless the board was running when the transaction began. The inductive invariant
says what an open gate is worth: the host watches a session that was begun after its
own first START, or that has already failed. `AttemptsMoveOnce` (`RetriesMoveNoMore`)
rests on two more. `OnceInv`: while nothing is lost and no deadline passes, nothing has
moved and no message is under way outside the polling, and only a session's own error
ends an attempt; a session that fails has not moved its sausage. `AttemptInv`, of any
transaction: the sessions of the board come in the order of the attempts, at most one
to each, and a session that has still to move its sausage is counted in advance.

**SellPlatform_proofs.** All safety of a sale: `SellTypeCorrect`, `OutcomeIsClosed`,
`TakenIsTaken`, `LeftIsFault`, `NotCarriedOutTwice`, for any limits of the code. The
inductive invariant `SellInv` joins the types with four parts: `CountersInv` (the
counters stay below their limits while the watch goes on), `CallInv` (what the board
holds of the call in each of its phases: a command is written again only after the board
has shown that it refused the last one, so it is carried out once), `WatchInv`
(where the sausage may be, given what was seen and whether a picture misread) and
`OutcomeInv` (the three properties of an outcome).

**MqttConnection_proofs.** `MqttTypeCorrect`, `LocksAreOwned` and `LiveIsCurrent` for any set
of generations and any number of jobs. The inductive invariant `MqttInv` adds
`OwnerInv`: the lock has *one* owner, a thread inside `connect` or the attempt it
sent, and only the client of the current generation can be connecting or connected.
That no two threads are inside at once is what makes replacing the client safe.
`WakeInv` does the same for the wake lock until `disConnect`: it belongs to the current
generation, and a thread, a session or an answer of that generation is left to let go of
it. It needs to know that a success still to be handled is that of a connection that
lives, and an entry of a job that the job is posted.

**CameraCapture_proofs.** `CameraTypeCorrect` and `NoRequestForgotten`, for any number of
pictures, retries, places in the queue, prewarmings and stops. Two facts make
`WaitingNotForgotten` inductive: a retry is waited for only if one is left
(`RetriesLeft`), and whenever a picture was asked for, all earlier ones are over
(`AskedInOrder`), so that the request cut off a full queue is not one that is waited
for. `FlowInv` adds that the queue moves: while the activity is in front the polling
goes on, a task is at work or the next may be taken, and a task whose picture is being
looked at has that picture, so nothing that is waited for stands still.

**PanScheduler_proofs.** `SchedTypeCorrect`, `LowFindsRearEmpty`, `SupplyNeverLost`,
`LoadsFindRoom`, `PitsAreOwned`, `RoomInFront`, `BatchesCookWhole` and `FlowIsRefined`,
for any areas of the machine that are disjoint and finite
(`SchedAssumption`), any number of sausages that expire, and any number of kills. Low
concurrency never looks at the rear heat zone. The code enters it when nothing is seen
on the rear pans, or when no batch is active and no pit waits; but after a kill
sausages lie there that no batch knows. So the invariant shows that such a sausage
always leaves a pit that waits. A sausage that a kill brought back leaves none, so the
invariant `SchedInv(R)` speaks of all rear pans but those of a set `R`: every step but a
kill keeps it for any `R` (`StepInv`), so also for the part of `R` that is still full
(`Narrowed`), a kill adds to `R` what it brings back (`KillInv`), and `revived` is such
an `R` (`Sound`). Until the first kill it is empty. The parts:

* `SnapInv`, of a snapshot beside the pans: in high concurrency, a full rear pan
  outside the batch and `R` implies a pit that no item of the batch takes (`FreePits`); low
  batches have lost their pits; a batch with items is active.
* `SavedInv`: while a kill is left, `SnapInv` holds of the saved snapshot too, beside the
  pans in memory. That is enough: the pans a kill finds differ from those only by
  sausages that are gone, which breaks nothing, or brought back, which `R` holds. Each pit that waits in memory waits in the saved one. That is
  what a kill in the middle of a launch relies on: the saved snapshot still has
  the pits the loads have taken.
* `LoadHighInv`: the loads of a high batch, done and to do, have a pit each and no pit
  twice, and a rear pan that was skipped or failed leaves its pit over, so what the
  next snapshot does not list still leaves a pit.
* `EvacuateInv` and `LoadLowInv`: what is planned for a low zone still fits while its
  neighbour is evacuated and sales go on; `BackfillInv` and `CompactInv`: the steps to
  come are items of the batch, or pans of the front.

`PitsAreOwned` and `RoomInFront` need more, which holds until the first kill (`Book`;
`BookInvariant` proves `Undisturbed => Book`):

* `PitsBooked`: an assigned pit is the pit of an item of its batch, or of a load of the
  launch that is going on. `OwnPits`: in high concurrency each item has a pit of its
  own that is still booked, so there are no more items than pits.
* `RoomInv`: the pits are no more than the free pans of the front. Emptying a pan frees
  one pan for the one pit it may add; filling one takes a pan for the pit it fulfils,
  although back filling may choose another pan than the pit it was planned for.
  Discarding registers a pit also for a pan that was sold empty meanwhile, so the pans
  it has still to come to are counted in advance (`Pending`).
* On the way to low concurrency the count is kept only while a batch is left in the rear
  (`Counts`): the compaction fills pans for no pit, and no batch is launched after it.
* `PhaseInv` and `GotInv`: an opening batch starts with no pit and nothing held, a batch
  is loaded or evacuated for only where none is active, and the loads of a launch are
  for different pans and, in the rear, for different pits.

`BatchesCookWhole` and `FlowIsRefined` rest on what is planned staying possible until
it is done (`FlowInv`):

* `PlanInv`: the pans that planned moves go to are empty and different, what is
  evacuated or discarded does not cook, a batch whose sausages are moved to the front
  is ready, and what a launch has loaded heats. Neither a sale nor a step of the plan
  itself breaks it.
* `CookInv`, until the first kill: a batch that cooks, outside the compaction, has items
  and all of them heat.

Each step is proved once for both: before it the plan allows the move that
`SausageFlow` names, after it the rest of the plan still holds. The holes of
`SausageFlow` are used only where its state says so.

Only model-checked: liveness, which needs fairness and ENABLED, beyond the prover's
reach. That concerns the liveness properties of the runs and the fairness half of
`RefinesCommunicationState`; `RefinesOrderService` and `RefinesSausageFlow` are safety
only and proved whole. No module uses RECURSIVE operators and no theorem needs induction
over data.

## 5. Not modelled, and what is left

* **Vendored C and C++** (`libuvc`, `libusb`, `libjpeg-turbo`, the serial port, the
  Modbus master, the MQTT client): third-party code. The app reaches the serial line
  and the broker through it, and models of these appear as the environment; the UVC
  camera library is not called by the flow of the app, which takes its pictures with
  CameraX. All of the program's own logic is Kotlin and Java.
* **Self cleaning** is switched off in this version. **Image recognition** is
  numerical. **Views and reports** keep no state the properties speak of.
* **Remote control**: what the back office holds, sends and in which order is not in the
  repository. Its effects are `MergeRemoteConfig` of `OrderIntake` and `Adopted` of
  `PanScheduler`; in `DeviceStatus` its writes are left out.
* **Availability and heating** compute what is displayed and heated from pans,
  temperatures and the clock, and hold no protocol. The check that keeps the scheduler
  from a cycle when sold out is `SoldOut`.
* **OrderIntake**: order states expire after 3 or 24 hours; there is no clock of hours.
* **Sell platform**: the guard that holds a supply back after a sale
  (`KaoChangOperate.kt:302-367`). The parameter `requireObservedRunningBeforeSuccess`
  is set by no caller.
* **MQTT**: publishing, unsubscribing and a change of the server; what is in flight at
  `disConnect` is not followed.
* **Scheduler**: tastes, the age of pits, heaters and the clock (a choice that depends on
  them is any choice), the reset of the pans by a human, the cleaning of a zone, and a
  kill while the arm moves. Sales happen at suspension points, and the back office
  changes the mode at the head of a cycle, where it is read. With a kill, the
  properties other than `LowLeavesRearEmpty` do not hold (the snapshot and
  the pans were not saved together) and are stated for runs without one.
* **Camera**: time is left out, so what was posted with a delay runs at any time; a
  service whose last client unbinds is destroyed at once. The test page that binds the
  service too is left out, the coordinator has no second owner, and
  `PhotoCaptureService` and `CameraUvc` are not used.

Left to model: the back office in `DeviceStatus`, and a clock for the expiry of orders.
