---------------------------- MODULE PanScheduler ------------------------------
(***************************************************************************)
(* The scheduler of the pans (KaoChangScheduler): it keeps a snapshot of   *)
(* what it is doing (mode, pits to fill, batches in the heat zones), runs  *)
(* one cycle after another over the pans, and suspends at every movement   *)
(* of the arm.  Sales empty pans and register pits meanwhile, movements    *)
(* fail, the app is killed and finds the snapshot and the pans it saved:   *)
(* the pans are saved apart from the snapshot, later or not at all.        *)
(*                                                                         *)
(* Tastes, the age of a pit and the heaters are left out: a choice that    *)
(* depends on a taste or an age is any choice.  So is the clock: a batch   *)
(* whose sausages cook may be over, or not, whenever the code asks.        *)
(***************************************************************************)
EXTENDS Integers, FiniteSets, Sequences, Functions

CONSTANTS
    Front,          \* 1..9
    Primary,        \* 13..15, LOW_PRIMARY
    Secondary,      \* 16..18, LOW_SECONDARY
    Outer,          \* 10..12 and 19..21
    Rear,           \* 25..33, HIGH_MAIN
    LowToHighPits,  \* pits at which low concurrency gives up
    CompactLimit,   \* sausages that high concurrency may leave behind
    MaxExpired,     \* bound: sausages that expire within one cycle
    MaxKills        \* bound: how often the app is killed

Supply == Primary \cup Secondary \cup Rear
HighFront == Front \cup Primary \cup Secondary \cup Outer
Pan == HighFront \cup Rear
Areas == <<Front, Primary, Secondary, Outer, Rear>>

ASSUME SchedAssumption ==
    /\ Pan \subseteq Nat \ {0} /\ IsFiniteSet(Pan)
    /\ Front # {} /\ Rear # {}
    /\ \A i, j \in DOMAIN Areas : i # j => Areas[i] \cap Areas[j] = {}
    /\ LowToHighPits \in Nat /\ CompactLimit \in 0..Cardinality(Front)
    /\ MaxExpired \in Nat /\ MaxKills \in Nat

VARIABLES
    pan,       \* isHasSausage and status of every pan, in memory
    panSaved,  \* the same in the preferences
    snap,      \* SchedulerSnapshot in memory
    saved,     \* SchedulerSnapshot in the preferences
    cyc,       \* where runCycle is
    up,        \* errorStatus = 0 and the device in business
    stock,     \* some box holds sausages
    kills,
    revived    \* pans of the rear that were empty when a kill brought back
               \* an older state of theirs, until they are empty again

coreVars == <<pan, snap, saved, cyc, up, stock, kills>>
schedVars == <<coreVars, panSaved, revived>>

Zone == {"primary", "secondary", "main"}
ZonePans == [primary |-> Primary, secondary |-> Secondary, main |-> Rear]
LowZones == {"primary", "secondary"}
OtherLow == [primary |-> "secondary", secondary |-> "primary"]

NoPit == 0     \* the pit of an item was fulfilled or cleared
NoItem == [pit |-> NoPit, target |-> NoPit]

\* pits: none, open, or assigned to the batch of a zone.
\* items: of the batches HEATING and READY, those not completed.
\* held: the pans of HELD batches, which stay in the list.
Snapshot ==
    [mode: {"LOW", "HIGH"},
     transition: {"NONE", "LOW_TO_HIGH", "HIGH_TO_LOW"},
     pit: [HighFront -> {"none", "open"} \cup Zone],
     item: [Supply -> [pit: HighFront \cup {NoPit}, target: Pan \cup {NoPit}]],
     batch: [Zone -> {"none", "HEATING", "READY"}],
     held: SUBSET (Primary \cup Secondary)]

\* What the cycle has still to do: pans to fill back from, to load at first
\* or to discard; movements of one pan to another; loads for pits.
Idle == [phase |-> "idle", zone |-> "main", todo |-> <<>>, picks |-> <<>>,
         got |-> {}, used |-> {}, go |-> FALSE]

Phases == {"idle", "backfill", "decide", "primary", "secondary", "threshold",
           "evacuate", "load", "finalize", "compact", "initialize", "discard"}

\* The pans among S that are booked so.
Full(pn, S) == {p \in S : pn[p] # "empty"}
Holding(pn, S) == {p \in S : pn[p] = "holding"}
Heating(pn, S) == {p \in S : pn[p] = "heating"}
Vacant(pn, S) == {p \in S : pn[p] = "empty"}

SchedTypeOK ==
    /\ pan \in [Pan -> {"empty", "heating", "holding"}]
    /\ snap \in Snapshot /\ saved \in Snapshot
    /\ cyc.phase \in Phases /\ cyc.zone \in Zone
    /\ cyc.go \in BOOLEAN /\ cyc.used \subseteq HighFront
    /\ cyc.got \subseteq [from: HighFront \cup {NoPit}, to: Pan]
    /\ \A s \in {cyc.todo, cyc.picks} : \A i \in DOMAIN s :
           s[i] \in [from: Pan \cup {NoPit}, to: Pan]
    /\ up \in BOOLEAN /\ stock \in BOOLEAN
    /\ kills \in 0..MaxKills
    /\ panSaved \in [Pan -> {"empty", "heating", "holding"}]
    /\ revived \subseteq Full(pan, Rear)

\* ensureSnapshot, the first start: nothing on the pans.
NewSnapshot(m) ==
    [mode |-> m, transition |-> "NONE",
     pit |-> [q \in HighFront |-> "none"],
     item |-> [s \in Supply |-> NoItem],
     batch |-> [z \in Zone |-> "none"], held |-> {}]

NoSausages == [p \in Pan |-> "empty"]

SchedInit ==
    /\ pan = NoSausages
    /\ \E m \in {"LOW", "HIGH"} : snap = NewSnapshot(m)
    /\ saved = snap
    /\ cyc = Idle
    /\ up = TRUE /\ stock = TRUE /\ kills = 0
    /\ panSaved = pan /\ revived = {}

-----------------------------------------------------------------------------
(* Reading the snapshot.                                                   *)

\* The elements of S in any order, and by position (there is one such order).
Orders(S) == Injection(1..Cardinality(S), S)
Sorted(S) == {q \in Orders(S) : \A i, j \in DOMAIN q : i < j => q[i] < q[j]}

Pits(s) == {q \in HighFront : s.pit[q] # "none"}
OpenPits(s) == {q \in HighFront : s.pit[q] = "open"}
Items(s, z) == {p \in ZonePans[z] : s.item[p] # NoItem}
Active(s, z) == s.batch[z] # "none"
LowStable(s) == s.mode = "LOW" /\ s.transition = "NONE"

\* frontPlan, by position.
FrontPlan(s) == IF s.mode = "LOW" THEN Front ELSE HighFront

\* A pit that is fulfilled is nobody's any more.
ForgetPit(s, q) ==
    [s EXCEPT !.pit = [r \in HighFront |-> IF r = q THEN "none" ELSE @[r]],
              !.item = [p \in Supply |->
                  IF @[p].pit = q THEN [@[p] EXCEPT !.pit = NoPit] ELSE @[p]]]

\* Fault: the pit of a completed item stays assigned.
CompleteKeepsPit(s, p) == [s EXCEPT !.item[p] = NoItem]

\* item.completed = true, and markPitFulfilled.
Complete(s, p) ==
    LET t == ForgetPit(s, s.item[p].pit) IN [t EXCEPT !.item[p] = NoItem]

\* currentSellPositions.
SellPositions(s) == IF LowStable(s) THEN HighFront \ Outer ELSE HighFront

\* registerFrontPit: the pit of a position is registered once.
RegisterFrontPit(s, q) ==
    IF s.pit[q] = "none" /\ q \in SellPositions(s)
    THEN [s EXCEPT !.pit[q] = "open"] ELSE s

\* refreshSupplyStatus: SUPPLY_STATUS_SOLD_OUT, no cycle is run.
SoldOut ==
    LET sell == SellPositions(snap)
    IN /\ ~stock /\ snap.transition = "NONE"
       /\ Holding(pan, sell) = {}
       /\ Heating(pan, sell \cup IF LowStable(snap) THEN {} ELSE Rear) = {}

-----------------------------------------------------------------------------
(* The head of a cycle, up to the first movement.                          *)

\* maybeAdoptExternalMode: the configuration may have got the other mode.
Adopted(s) ==
    IF s.transition = "NONE" /\ Pits(s) = {} /\ \A z \in Zone : ~Active(s, z)
    THEN {s, [s EXCEPT !.mode = IF @ = "LOW" THEN "HIGH" ELSE "LOW"]}
    ELSE {s}

MarkHolding(pn, S) ==
    [p \in Pan |-> IF p \in Heating(pn, S) THEN "holding" ELSE pn[p]]

\* completeFrontInitializationIfNeeded: one plan in low concurrency, two
\* otherwise; over: the pans of the plans whose time is over.
FrontPlans(s) == IF LowStable(s) THEN {"front"} ELSE {"front", "outer"}
PlanPans == [front |-> Front, outer |-> HighFront \ Front]
CompleteFrontInitialization(s, pn, over) ==
    MarkHolding(pn, UNION {PlanPans[f] : f \in FrontPlans(s) \cap over})

\* Fault: only the time counts, which a pan that holds has no more.
CookedByTime(s, pn, z, over) ==
    /\ s.batch[z] = "HEATING"
    /\ Vacant(pn, Items(s, z)) = {}
    /\ z \in over /\ Heating(pn, Items(s, z)) # {}

\* Whether a batch is cooked: every source is still full, and the time is
\* over or every one holds already.
Cooked(s, pn, z, over) ==
    /\ s.batch[z] = "HEATING"
    /\ Items(s, z) # {}
    /\ Vacant(pn, Items(s, z)) = {}
    /\ z \in over \/ Heating(pn, Items(s, z)) = {}

\* updateBatchStates.
ReadyZones(s, pn, over) == {z \in Zone : Cooked(s, pn, z, over)}
UpdateBatchStates(s, pn, over) ==
    [s EXCEPT !.batch = [z \in Zone |->
        IF z \in ReadyZones(s, pn, over) THEN "READY" ELSE @[z]]]
UpdatedPans(s, pn, over) ==
    MarkHolding(pn, UNION {Items(s, z) : z \in ReadyZones(s, pn, over)})

\* holdBatchInPlace: the low batches that are ready stay where they are.
HoldBatchInPlace(s) ==
    LET ready == {z \in LowZones : s.batch[z] = "READY"}
        items == UNION {Items(s, z) : z \in ready}
        pits == {s.item[p].pit : p \in items}
    IN [s EXCEPT !.batch = [z \in Zone |-> IF z \in ready THEN "none" ELSE @[z]],
                 !.item = [p \in Supply |-> IF p \in items THEN NoItem ELSE @[p]],
                 !.pit = [q \in HighFront |-> IF q \in pits THEN "none" ELSE @[q]],
                 !.held = @ \cup items]

Steps(S) == {[i \in DOMAIN q |-> [from |-> NoPit, to |-> q[i]]] : q \in Sorted(S)}

Goto(phase) == cyc' = [cyc EXCEPT !.phase = phase, !.todo = <<>>, !.used = {}]

\* saveSnapshot; what is saved matters only while a kill is left.
Saved(s) == IF kills < MaxKills THEN s ELSE saved

\* The end of processX: discardExpiredFrontPans lists what expired, and the
\* snapshot is saved after the last of it.
Finish(s, pn) ==
    \E expired \in {E \in SUBSET Holding(pn, HighFront) :
                        Cardinality(E) =< MaxExpired} :
        /\ snap' = s
        /\ IF expired = {}
           THEN cyc' = Idle /\ saved' = Saved(s)
           ELSE /\ \E todo \in Steps(expired) :
                       cyc' = [Idle EXCEPT !.phase = "discard", !.todo = todo]
                /\ UNCHANGED saved

\* processLowStable and processHighStable find nothing on any pan.
Bare(s, pn) ==
    /\ s.transition = "NONE"
    /\ Full(pn, HighFront \ (IF s.mode = "LOW" THEN Outer ELSE {})) = {}
    /\ s.mode = "HIGH" => Full(pn, Rear) = {}

RunCycle(over) ==
    /\ cyc.phase = "idle" /\ up /\ ~SoldOut
    /\ \E s0 \in Adopted(snap) :
        LET pn0 == CompleteFrontInitialization(s0, pan, over)
            s1 == UpdateBatchStates(s0, pn0, over)
            pn == UpdatedPans(s0, pn0, over)
            s2 == HoldBatchInPlace(s1)
        IN /\ pan' = pn
           /\ \/ /\ Bare(s0, pn) /\ stock
                 /\ snap' = NewSnapshot(s0.mode)
                 /\ \E todo \in Steps(FrontPlan(s0)) :
                        cyc' = [Idle EXCEPT !.phase = "initialize", !.todo = todo]
                 /\ UNCHANGED saved
              \/ /\ Bare(s0, pn)
                 /\ Finish(s1, pn)
              \/ /\ ~Bare(s0, pn)
                 /\ snap' = s2
                 /\ IF s2.batch["main"] = "READY"
                    THEN \E todo \in Steps(Items(s2, "main")) :
                            cyc' = [Idle EXCEPT !.phase = "backfill", !.todo = todo]
                    ELSE cyc' = [Idle EXCEPT !.phase = "decide"]
                 /\ UNCHANGED saved
    /\ UNCHANGED <<up, stock, kills>>

-----------------------------------------------------------------------------
(* Movements.                                                              *)

\* moveSausageToKaoPan: the pan cooks; it may have been the last in the box.
Loads(p) ==
    /\ up /\ stock
    /\ pan' = [pan EXCEPT ![p] = "heating"]
    /\ stock' \in BOOLEAN
    /\ UNCHANGED up

\* No box of the taste has any left, or the device is in fault.
LoadSkipped == UNCHANGED <<pan, up, stock>>

\* The transaction fails: markDeviceErrorAndUpload.
MoveFails == up' = FALSE /\ UNCHANGED <<pan, stock>>

\* Fault: the pan a sausage came from stays booked.
MovesKeepSource(p, q) ==
    /\ pan' = [pan EXCEPT ![q] = "holding"]
    /\ UNCHANGED <<up, stock>>

\* moveKaoPanToKaoPan: the source is not looked at again.
Moves(p, q) ==
    /\ pan' = [pan EXCEPT ![q] = "holding", ![p] = "empty"]
    /\ UNCHANGED <<up, stock>>

\* initializeLow, initializeHigh.
Initialize ==
    /\ cyc.phase = "initialize"
    /\ LET p == Head(cyc.todo).to
       IN \/ pan[p] = "empty" /\ Loads(p)
          \/ pan[p] = "empty" /\ up /\ MoveFails
          \/ LoadSkipped
    /\ IF Len(cyc.todo) = 1
       THEN Finish(snap, pan')
       ELSE cyc' = [cyc EXCEPT !.todo = Tail(@)] /\ UNCHANGED <<snap, saved>>
    /\ UNCHANGED kills

\* resolveLowToHighFrontBackfillTarget: a front pan if there is one.
Targets(s) ==
    LET free == Vacant(pan, FrontPlan(s)) \ cyc.used
    IN IF free \cap Front # {} THEN free \cap Front ELSE free

\* The items are done or left: a batch without items is COMPLETED.
AfterItem(s) ==
    IF Len(cyc.todo) = 1
    THEN /\ snap' = IF Items(s, "main") = {}
                    THEN [s EXCEPT !.batch["main"] = "none"] ELSE s
         /\ Goto("decide")
    ELSE /\ snap' = s
         /\ cyc' = [cyc EXCEPT !.todo = Tail(@)]

\* backfillBatch, one item.
Backfill ==
    /\ cyc.phase = "backfill"
    /\ LET p == Head(cyc.todo).to
       IN \/ /\ pan[p] = "empty"
             /\ AfterItem(Complete(snap, p))
             /\ UNCHANGED <<pan, up, stock>>
          \/ /\ pan[p] # "empty" /\ Targets(snap) = {}
             /\ pan[snap.item[p].target] # "empty"
             /\ AfterItem(snap)
             /\ UNCHANGED <<pan, up, stock>>
          \/ \E q \in IF Targets(snap) = {} THEN {snap.item[p].target}
                      ELSE Targets(snap) :
                /\ pan[p] # "empty" /\ pan[q] = "empty"
                /\ LET s == [snap EXCEPT !.item[p].target = q]
                   IN \/ /\ Moves(p, q)
                         /\ LET t == Complete(s, p)
                            IN IF Len(cyc.todo) = 1
                               THEN AfterItem(t)
                               ELSE /\ snap' = t
                                    /\ cyc' = [cyc EXCEPT !.todo = Tail(@),
                                                          !.used = @ \cup {q}]
                      \/ /\ MoveFails
                         /\ snap' = s
                         /\ Goto("decide")
    /\ UNCHANGED <<saved, kills>>

-----------------------------------------------------------------------------
(* Launching a batch.                                                      *)

\* schedulingEnabled, boxSupplyAvailable and not before the close of business.
MayGo == {FALSE, stock}

\* Pits for the pans of a zone, in whatever order they were registered.
Picks(z) ==
    LET n == Cardinality(ZonePans[z])
    IN {[i \in 1..n |-> [from |-> f[i], to |-> S[i]]] :
            f \in Injection(1..n, OpenPits(snap)), S \in Sorted(ZonePans[z])}

\* Fault: sausages that cook are evacuated too.
SourcesCookingToo(z) == Full(pan, ZonePans[OtherLow[z]])

\* planLowSecondaryHoldingEvacuation: the other low zone must not hold
\* sausages while this one heats.
Sources(z) == Holding(pan, ZonePans[OtherLow[z]])
Evacuations(z) ==
    LET n == Cardinality(Sources(z))
    IN IF Heating(pan, Front) # {} THEN {}
       ELSE {[i \in 1..n |-> [from |-> S[i], to |-> f[i]]] :
                f \in Injection(1..n, Vacant(pan, Front)), S \in Sorted(Sources(z))}

Following == [primary |-> "secondary", secondary |-> "threshold",
              main |-> "finalize"]

Launch(z, picks, go) ==
    cyc' = [Idle EXCEPT !.phase = "load", !.zone = z, !.todo = picks, !.go = go]

\* Fault: the sausages held in the zone are overlooked.
ZoneHasNoBatch(z) == ~Active(snap, z) /\ ZonePans[z] # {}

\* (An instance may leave a zone out.)
ZoneFree(z) ==
    ~Active(snap, z) /\ Full(pan, ZonePans[z]) = {} /\ ZonePans[z] # {}

\* launchLowBatchIfNeeded.
LaunchLow(z) ==
    /\ cyc.phase = z
    /\ \/ /\ cyc.go /\ ZoneFree(z)
          /\ \E picks \in Picks(z) :
                \/ Sources(z) = {} /\ Launch(z, picks, TRUE)
                \/ /\ Sources(z) # {}
                   /\ \E moves \in Evacuations(z) :
                         cyc' = [cyc EXCEPT !.phase = "evacuate", !.zone = z,
                                            !.todo = moves, !.picks = picks]
       \/ /\ \/ ~cyc.go \/ ~ZoneFree(z)
             \/ Picks(z) = {} \/ Sources(z) # {}
          /\ cyc' = [Idle EXCEPT !.phase = Following[z], !.go = cyc.go]
    /\ UNCHANGED <<pan, snap, saved, up, stock, kills>>

\* evacuateLowSecondaryHoldingIfNeeded, one move.
Evacuate ==
    /\ cyc.phase = "evacuate"
    /\ LET mv == Head(cyc.todo)
       IN \/ /\ Moves(mv.from, mv.to)
             /\ snap' = ForgetPit(snap, mv.to)
             /\ LET picks == [i \in DOMAIN cyc.picks |->
                        IF cyc.picks[i].from = mv.to
                        THEN [cyc.picks[i] EXCEPT !.from = NoPit] ELSE cyc.picks[i]]
                IN cyc' = IF Len(cyc.todo) = 1
                          THEN [cyc EXCEPT !.phase = "load", !.todo = picks,
                                           !.picks = <<>>, !.got = {}]
                          ELSE [cyc EXCEPT !.todo = Tail(@), !.picks = picks]
          \/ /\ MoveFails
             /\ cyc' = [Idle EXCEPT !.phase = Following[cyc.zone], !.go = cyc.go]
             /\ UNCHANGED snap
    /\ UNCHANGED <<saved, kills>>

\* Fault: the batch is added only if every load succeeded.
AddBatchIfWhole(s, z, got) ==
    IF Cardinality(got) < Cardinality(ZonePans[z]) THEN s
    ELSE [s EXCEPT !.batch[z] = "HEATING",
                   !.item = [p \in Supply |->
                       IF \E l \in got : l.to = p
                       THEN [pit |-> (CHOOSE l \in got : l.to = p).from,
                             target |-> p] ELSE @[p]]]

\* The batch enters the snapshot after its last load, if one succeeded.
\* The planned target of a low batch is its own pan.
AddBatch(s, z, got) ==
    IF got = {} THEN s
    ELSE [s EXCEPT !.batch[z] = "HEATING",
                   !.item = [p \in Supply |->
                       IF \E l \in got : l.to = p
                       THEN LET l == CHOOSE l \in got : l.to = p
                            IN [pit |-> l.from,
                                target |-> IF z = "main" THEN l.from ELSE p]
                       ELSE @[p]]]

\* One load of createHighBatch or launchLowBatchIfNeeded.
Load ==
    /\ cyc.phase = "load"
    /\ LET l == Head(cyc.todo)
           z == cyc.zone
           Then(s, got) ==
               IF Len(cyc.todo) = 1
               THEN /\ snap' = AddBatch(s, z, got)
                    /\ cyc' = [Idle EXCEPT !.phase = Following[z], !.go = cyc.go]
               ELSE /\ snap' = s
                    /\ cyc' = [cyc EXCEPT !.todo = Tail(@), !.got = got]
       IN \/ /\ Loads(l.to)
             /\ Then(IF l.from = NoPit THEN snap
                     ELSE [snap EXCEPT !.pit[l.from] = z], cyc.got \cup {l})
          \/ /\ LoadSkipped \/ (up /\ MoveFails)
             /\ Then(snap, cyc.got)
    /\ UNCHANGED <<saved, kills>>

-----------------------------------------------------------------------------
(* What the mode and the transition ask for.                               *)

\* reconcileLowFrontPits.
ReconcileLowFrontPits(s) ==
    IF Full(pan, Front) = {} THEN s
    ELSE [s EXCEPT !.pit = [q \in HighFront |->
            IF q \notin Front THEN @[q]
            ELSE IF pan[q] # "empty" /\ @[q] = "open" THEN "none"
            ELSE IF pan[q] = "empty" /\ @[q] = "none" THEN "open" ELSE @[q]]]

\* processLowStable, after the ready batches.  Whether the device is in
\* fault is asked once for both batches.
DecideLow ==
    /\ cyc.phase = "decide" /\ LowStable(snap)
    /\ snap' = ReconcileLowFrontPits(snap)
    /\ \E go \in MayGo :
           cyc' = [Idle EXCEPT !.phase = "primary", !.go = go /\ up]
    /\ UNCHANGED <<pan, saved, up, stock, kills>>

\* lowCapacityAlreadyMaxed.
LowMaxed ==
    \/ \A z \in LowZones : Active(snap, z)
    \/ Vacant(pan, Primary \cup Secondary) = {}

\* Fault: a pit for every position of the new front plan.
EnterLowToHighEverywhere ==
    [snap EXCEPT
        !.mode = "HIGH", !.transition = "LOW_TO_HIGH",
        !.pit = [q \in HighFront |-> "open"],
        !.item = [p \in Supply |-> [@[p] EXCEPT !.pit = NoPit]]]

\* enterLowToHighTransition: the pits begin anew, where nothing is and no low
\* batch has its place.
EnterLowToHigh ==
    LET reserved == snap.held \cup Items(snap, "primary") \cup Items(snap, "secondary")
    IN [snap EXCEPT
            !.mode = "HIGH", !.transition = "LOW_TO_HIGH",
            !.pit = [q \in HighFront |->
                IF pan[q] = "empty" /\ q \notin reserved THEN "open" ELSE "none"],
            !.item = [p \in Supply |-> [@[p] EXCEPT !.pit = NoPit]]]

Threshold ==
    /\ cyc.phase = "threshold"
    /\ Finish(IF cyc.go /\ up /\ Cardinality(Pits(snap)) >= LowToHighPits /\ LowMaxed
              THEN EnterLowToHigh ELSE snap, pan)
    /\ UNCHANGED <<pan, up, stock, kills>>

\* launchHighBatchIfNeeded, launchHighTransitionBatch: only the first looks at
\* the pans.
MayLaunchHigh ==
    /\ up /\ ~Active(snap, "main")
    /\ snap.transition = "NONE" => Full(pan, Rear) = {}

\* processHighStable, after the ready batches.
DecideHigh ==
    /\ cyc.phase = "decide" /\ snap.mode = "HIGH" /\ snap.transition = "NONE"
    /\ \/ Finish([snap EXCEPT !.transition = "HIGH_TO_LOW"], pan)
       \/ /\ TRUE \in MayGo /\ MayLaunchHigh
          /\ \E picks \in Picks("main") : Launch("main", picks, FALSE)
          /\ UNCHANGED <<snap, saved>>
       \/ Finish(snap, pan)
    /\ UNCHANGED <<pan, up, stock, kills>>

\* processLowToHigh, after the ready batches.
DecideLowToHigh ==
    /\ cyc.phase = "decide" /\ snap.transition = "LOW_TO_HIGH"
    /\ \E go \in MayGo :
           \/ /\ go /\ MayLaunchHigh
              /\ \E picks \in Picks("main") : Launch("main", picks, go)
           \/ cyc' = [Idle EXCEPT !.phase = "finalize", !.go = go]
    /\ UNCHANGED <<pan, snap, saved, up, stock, kills>>

\* The transition is over when nothing cooks, or when nothing may be started.
CanFinalize ==
    /\ \A z \in Zone : ~Active(snap, z)
    /\ Full(pan, Rear) = {}

Finalize ==
    /\ cyc.phase = "finalize"
    /\ Finish(IF snap.transition = "LOW_TO_HIGH" /\ (CanFinalize \/ ~cyc.go)
              THEN [snap EXCEPT !.transition = "NONE"] ELSE snap, pan)
    /\ UNCHANGED <<pan, up, stock, kills>>

\* planHighToLowCompaction: to the first free front pans, oldest first.
Compactions ==
    LET from == Full(pan, HighFront \ Front)
        free == Vacant(pan, Front)
    IN IF Cardinality(Full(pan, HighFront)) > CompactLimit
          \/ Cardinality(from) > Cardinality(free) THEN {}
       ELSE {[i \in DOMAIN q |-> [from |-> q[i], to |-> to[i]]] :
                q \in Orders(from), to \in Sorted(free)}

\* collapseToLow.
CollapseToLow == NewSnapshot("LOW")

\* Fault: sausages that belong to no batch are overlooked.
RearHasNoBatch == ~Active(snap, "main")

RearDone == Full(pan, Rear) = {} /\ ~Active(snap, "main")

\* processHighToLow, after the ready batches.
DecideHighToLow ==
    /\ cyc.phase = "decide" /\ snap.transition = "HIGH_TO_LOW"
    /\ IF RearDone /\ Compactions # {}
       THEN \E moves \in Compactions :
               \/ /\ moves = <<>>
                  /\ Finish(CollapseToLow, pan)
               \/ /\ moves # <<>>
                  /\ cyc' = [cyc EXCEPT !.phase = "compact", !.todo = moves]
                  /\ UNCHANGED <<snap, saved>>
       ELSE Finish(snap, pan)
    /\ UNCHANGED <<pan, up, stock, kills>>

\* compactHighFrontToLow, one move.
Compact ==
    /\ cyc.phase = "compact"
    /\ \/ /\ Moves(Head(cyc.todo).from, Head(cyc.todo).to)
          /\ IF Len(cyc.todo) = 1
             THEN Finish(CollapseToLow, pan')
             ELSE cyc' = [cyc EXCEPT !.todo = Tail(@)] /\ UNCHANGED <<snap, saved>>
       \/ /\ MoveFails
          /\ Finish(snap, pan)
    /\ UNCHANGED kills

\* discardSausage for the next of those that had expired when they were
\* listed.  A discard that fails is a fault.
Discard ==
    /\ cyc.phase = "discard"
    /\ LET p == Head(cyc.todo).to
           last == Len(cyc.todo) = 1
       IN /\ \/ /\ pan' = [pan EXCEPT ![p] = "empty"]
                /\ snap' = RegisterFrontPit(snap, p)
                /\ saved' = Saved(snap')
                /\ UNCHANGED <<up, stock>>
             \/ /\ MoveFails
                /\ UNCHANGED snap
                /\ saved' = IF last THEN Saved(snap) ELSE saved
          /\ cyc' = IF last THEN Idle ELSE [cyc EXCEPT !.todo = Tail(@)]
    /\ UNCHANGED kills

-----------------------------------------------------------------------------
(* The others.                                                             *)

\* Between two movements, and between two cycles.
Suspended == cyc.phase \in {"idle", "backfill", "evacuate", "load", "compact",
                           "initialize", "discard"}

\* purchase: a sausage is sold; one whose delivery ends as an error has left
\* its pan, or has not, and registers no pit.
Sale(p) ==
    /\ Suspended
    /\ up /\ pan[p] = "holding"
    /\ \/ /\ pan' = [pan EXCEPT ![p] = "empty"]
          /\ snap' = RegisterFrontPit(snap, p) /\ saved' = Saved(snap')
          /\ up' \in BOOLEAN
       \/ /\ pan' \in {pan, [pan EXCEPT ![p] = "empty"]}
          /\ up' = FALSE
          /\ UNCHANGED <<snap, saved>>
    /\ UNCHANGED <<cyc, stock, kills>>

\* The operator puts the device back into business, or refills the boxes.
Resume == ~up /\ up' = TRUE /\ UNCHANGED <<pan, snap, saved, cyc, stock, kills>>
Restock == ~stock /\ stock' = TRUE /\ UNCHANGED <<pan, snap, saved, cyc, up, kills>>

\* saveKaoPanList: a coroutine of its own that applies the pans to the
\* preferences, which are written when the system gets to it.  Some updates
\* of a pan ask for none, so a later one writes what they left.
WritePans ==
    /\ kills < MaxKills
    /\ panSaved' = pan
    /\ UNCHANGED <<coreVars, revived>>

\* The app is killed, within a cycle or not, and started again: the snapshot
\* is the saved one, and the pans are as they were last written.  (What is
\* applied is written in order: if the snapshot is not written either, it is
\* as if the app had been killed before.)  After the last kill nothing reads
\* what is saved, which is then forgotten.
Kill ==
    /\ kills < MaxKills
    /\ kills' = kills + 1
    /\ cyc' = Idle /\ snap' = saved
    /\ pan' = panSaved
    /\ revived' = Full(pan', Rear) \cap (revived \cup Vacant(pan, Rear))
    /\ IF kills' < MaxKills
       THEN UNCHANGED <<panSaved, saved>>
       ELSE panSaved' = NoSausages /\ saved' = NewSnapshot("LOW")
    /\ UNCHANGED <<up, stock>>

CycleStep ==
    \/ Initialize \/ Backfill
    \/ DecideLow \/ (\E z \in LowZones : LaunchLow(z)) \/ Evacuate \/ Load \/ Threshold
    \/ DecideHigh \/ DecideLowToHigh \/ Finalize
    \/ DecideHighToLow \/ Compact \/ Discard

Timers == Zone \cup {"front", "outer"}
Running ==
    {z \in Zone : snap.batch[z] = "HEATING"}
        \cup {f \in {"front", "outer"} : Heating(pan, PlanPans[f]) # {}}

\* The steps on the pans and the snapshot in memory.
Step ==
    \/ \E over \in SUBSET Running : RunCycle(over)
    \/ CycleStep
    \/ \E p \in HighFront : Sale(p)
    \/ Resume \/ Restock

Unwritten ==
    /\ UNCHANGED panSaved
    /\ revived' = revived \cap Full(pan', Rear)

SchedNext ==
    \/ Step /\ Unwritten
    \/ WritePans \/ Kill

SchedSpec == SchedInit /\ [][SchedNext]_schedVars

\* Cycles are run again and again, what cooks is done in the end, and a
\* movement ends one way or the other.
FairSchedSpec ==
    /\ SchedSpec
    /\ WF_schedVars(CycleStep /\ Unwritten)
    /\ SF_schedVars(RunCycle(Timers) /\ Unwritten)

-----------------------------------------------------------------------------
(* Properties.                                                             *)

Undisturbed == kills = 0

(* What a batch has still to bring to the front finds room there, whatever *)
(* was sold, discarded, retargeted or given up since its pits were chosen. *)
BatchFitsFront ==
    Undisturbed => Cardinality(Items(snap, "main"))
                       =< Cardinality(Vacant(pan, HighFront))

(* Low concurrency, which never looks at the heat zone of high             *)
(* concurrency, is entered only when nothing is left there, also if the    *)
(* app is killed on the way and finds older pans beside its snapshot.  A   *)
(* sausage may be there for one reason only: it had left, and a kill       *)
(* brought it back because its leaving was not written yet.                *)
LowLeavesRearEmpty == LowStable(snap) => Full(pan, Rear) \subseteq revived

(* Every sausage in the heat zone of high concurrency belongs to a batch   *)
(* or to the one that is being launched: nobody else ever moves it.        *)
SupplyTracked ==
    Undisturbed => \A p \in Full(pan, Rear) :
        \/ p \in Items(snap, "main")
        \/ \E l \in cyc.got : l.to = p

(* A pit that is assigned, and so asked for by nobody else, is one that an *)
(* item brings a sausage for.                                              *)
PitHasBatch ==
    Undisturbed => \A q \in HighFront, z \in Zone : snap.pit[q] = z =>
        \/ \E p \in Items(snap, z) : snap.item[p].pit = q
        \/ cyc.zone = z /\ \E l \in cyc.got : l.from = q

(* A sausage is never loaded onto a pan that has one.                      *)
LoadsOntoEmptyPan ==
    Undisturbed /\ cyc.phase = "load"
        => \A i \in DOMAIN cyc.todo : pan[cyc.todo[i].to] = "empty"

(* A batch that cooks is whole: each sausage it counts on is still on its  *)
(* pan and still cooks, whatever is sold, evacuated, discarded or tidied   *)
(* up around it.  Otherwise it would never be found cooked.  (On the way   *)
(* to low concurrency the compaction may take sausages of a low batch.)    *)
CookingBatchWhole ==
    Undisturbed => \A z \in Zone :
        snap.batch[z] = "HEATING" /\ (z = "main" \/ snap.transition # "HIGH_TO_LOW")
            => /\ Items(snap, z) # {}
               /\ Heating(pan, Items(snap, z)) = Items(snap, z)

(* A batch comes to its end: its sausages are cooked and in the front, or  *)
(* held where they are.                                                    *)
BatchEnds ==
    <>[](up /\ stock) =>
        \A z \in Zone : Active(snap, z) ~> ~Active(snap, z) \/ ~Undisturbed

(* A sausage that cooks stays on its pan until it is cooked.               *)
CookingStaysPut ==
    [][\A p \in Pan : pan[p] = "heating" => pan'[p] # "empty"]_pan

(* The scheduler's cycles, the sales, the failures and the kills do with   *)
(* the sausages only what SausageFlow allows.                              *)
TidyWork == {"evacuate", "compact"}

Sausages == INSTANCE SausageFlow
    WITH killed <- ~Undisturbed,
         tidying <- IF cyc.phase \in TidyWork THEN cyc.phase ELSE "none"

RefinesSausageFlow == Sausages!FlowSpec
=============================================================================
