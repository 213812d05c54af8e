------------------------- MODULE PanScheduler_proofs -------------------------
(***************************************************************************)
(* Types of the scheduler, and what it knows of the sausages in the heat   *)
(* zone of high concurrency, for any number of pans and kills.             *)
(*                                                                         *)
(* A kill leaves sausages in the rear that no batch of the snapshot knows. *)
(* Low concurrency would never find them, and it is entered when no batch  *)
(* is active and no pit waits.  So the invariant has to show that such a   *)
(* sausage always leaves a pit that waits (SnapInv), in the snapshot in    *)
(* memory as in the saved one, which is older (SavedInv), and while the    *)
(* loads of a batch go on and fail one by one (LoadHighInv).               *)
(*                                                                         *)
(* The pans that a kill finds were not saved with the snapshot, but before *)
(* or after it: a sausage that had left may be back, and nothing is known  *)
(* of it.  So the invariant speaks of all sausages of the rear but those   *)
(* of a set R.  A step of the scheduler keeps it for any R that was right  *)
(* before, a kill adds to R what it brings back, and R is what the model   *)
(* calls revived (Sound).                                                  *)
(*                                                                         *)
(* Without a kill more is known (Book): who has which pit, and that the    *)
(* pits never outnumber the free pans of the front.                        *)
(*                                                                         *)
(* That a batch cooks as a whole (CookInv), and that the scheduler handles *)
(* the sausages as SausageFlow allows, needs besides what the movements    *)
(* under way rely on, though the pans change between two of them           *)
(* (PlanInv).                                                              *)
(***************************************************************************)
EXTENDS PanScheduler, FiniteSetTheorems, SequenceTheorems, TLAPS

LowPans == Primary \cup Secondary
PanTable == [Pan -> {"empty", "heating", "holding"}]

(* The pits that no batch of high concurrency brings a sausage for.        *)
FreePits(s) == Pits(s) \ {s.item[p].pit : p \in Items(s, "main")}

\* An item is gone as a whole, and one of the rear goes to the front.
ItemsWhole(s) ==
    /\ \A p \in Supply : s.item[p].target = NoPit => s.item[p] = NoItem
    /\ \A p \in Rear : s.item[p].target \notin Rear

\* High concurrency: the low batches have lost their pits, and a sausage in
\* the rear that belongs to no batch, and is not in R, leaves a pit waiting.
HighInv(s, pn, R) ==
    s.mode = "HIGH" =>
        /\ \A p \in LowPans : s.item[p].pit = NoPit
        /\ ~(Full(pn, Rear) \subseteq Items(s, "main") \cup R) => FreePits(s) # {}

LowInv(s, pn, R) ==
    s.mode = "LOW" => s.transition = "NONE" /\ Full(pn, Rear) \subseteq R

(* What a snapshot is worth beside the pans as they are, without those in  *)
(* R, but for a batch whose last item was just completed.                  *)
SnapCore(s, pn, R) ==
    /\ s \in Snapshot /\ ItemsWhole(s)
    /\ LowInv(s, pn, R) /\ HighInv(s, pn, R)
    /\ \A z \in Zone : s.batch[z] = "none" => Items(s, z) = {}

SnapInv(s, pn, R) ==
    /\ SnapCore(s, pn, R)
    /\ s.batch["main"] = "READY" => Items(s, "main") # {}

-----------------------------------------------------------------------------
(* The areas of the machine.                                               *)

LEMMA AreaFacts ==
    /\ Front \subseteq HighFront /\ LowPans \subseteq HighFront
    /\ LowPans \subseteq Supply /\ Rear \subseteq Supply
    /\ Supply \subseteq Pan /\ HighFront \subseteq Pan
    /\ Pan = HighFront \cup Rear
    /\ HighFront \cap Rear = {} /\ Primary \cap Secondary = {}
    /\ LowPans \cap Rear = {} /\ Front \cap LowPans = {}
    /\ NoPit \notin Pan /\ NoPit \notin HighFront
    /\ Front # {} /\ Rear # {}
    /\ MaxExpired \in Nat /\ MaxKills \in Nat
<1>1. \A i, j \in 1..5 : i # j => Areas[i] \cap Areas[j] = {}
  BY SchedAssumption DEF Areas
<1>2. /\ Areas[1] = Front /\ Areas[2] = Primary /\ Areas[3] = Secondary
      /\ Areas[4] = Outer /\ Areas[5] = Rear
  BY DEF Areas
<1>3. /\ Front \cap Rear = {} /\ Primary \cap Rear = {} /\ Secondary \cap Rear = {}
      /\ Outer \cap Rear = {} /\ Primary \cap Secondary = {}
      /\ Front \cap Primary = {} /\ Front \cap Secondary = {}
  <2> HIDE DEF Areas
  <2> QED
    BY <1>1, <1>2
<1> QED
  BY <1>3, SchedAssumption DEF Pan, HighFront, Supply, LowPans, NoPit

LEMMA ZoneFacts ==
    /\ ZonePans["primary"] = Primary /\ ZonePans["secondary"] = Secondary
    /\ ZonePans["main"] = Rear
    /\ \A z \in Zone : ZonePans[z] \subseteq Supply
    /\ \A z \in LowZones : /\ z \in Zone /\ z # "main" /\ ZonePans[z] \subseteq LowPans
                           /\ OtherLow[z] \in LowZones
    /\ \A z \in Zone : z = "main" \/ z \in LowZones
    /\ \A z \in Zone : IsFiniteSet(ZonePans[z])
<1>1. IsFiniteSet(Primary) /\ IsFiniteSet(Secondary) /\ IsFiniteSet(Rear)
  BY SchedAssumption, FS_Subset DEF Pan, HighFront
<1> QED
  BY <1>1 DEF ZonePans, Zone, LowZones, OtherLow, Supply, LowPans

-----------------------------------------------------------------------------
(* The steps of a cycle are sequences.                                     *)

LEMMA OrderFacts ==
    ASSUME NEW S, IsFiniteSet(S), NEW q \in Orders(S)
    PROVE  /\ q \in Seq(S) /\ DOMAIN q = 1..Cardinality(S)
           /\ Cardinality(S) \in Nat
           /\ \A i, j \in DOMAIN q : i # j => q[i] # q[j]
           /\ \A i \in DOMAIN q : q[i] \in S
           /\ \A x \in S : \E i \in DOMAIN q : q[i] = x
<1>1. Cardinality(S) \in Nat
  BY FS_CardinalityType
<1>2. /\ q \in [1..Cardinality(S) -> S]
      /\ \A i, j \in 1..Cardinality(S) : q[i] = q[j] => i = j
  BY DEF Orders, Injection, IsInjective
<1>3. q \in Surjection(1..Cardinality(S), S)
  <2>1. IsFiniteSet(1..Cardinality(S)) /\ Cardinality(1..Cardinality(S)) = Cardinality(S)
    BY <1>1, FS_Interval
  <2>2. q \in Injection(1..Cardinality(S), S)
    BY DEF Orders
  <2> QED
    BY <2>1, <2>2, FS_Injection
<1>4. \A x \in S : \E i \in 1..Cardinality(S) : q[i] = x
  BY <1>3 DEF Surjection
<1>5. q \in Seq(S)
  BY <1>1, <1>2
<1> QED
  BY <1>1, <1>2, <1>4, <1>5

LEMMA HeadTail ==
    ASSUME NEW S, NEW q \in Seq(S), q # <<>>
    PROVE  /\ Head(q) \in S /\ Head(q) = q[1] /\ 1 \in DOMAIN q
           /\ Tail(q) \in Seq(S)
           /\ Len(q) # 1 => Tail(q) # <<>>
           /\ Len(q) = 1 => DOMAIN q = {1}
           /\ \A i \in DOMAIN Tail(q) : /\ i + 1 \in DOMAIN q /\ i + 1 # 1
                                        /\ Tail(q)[i] = q[i + 1]
           /\ \A i \in DOMAIN q :
                 i # 1 => i - 1 \in DOMAIN Tail(q) /\ Tail(q)[i - 1] = q[i]
           /\ DOMAIN Tail(q) \subseteq Nat
<1>1. /\ Tail(q) \in Seq(S) /\ Head(q) \in S
      /\ Len(Tail(q)) = Len(q) - 1
      /\ \A i \in 1..Len(Tail(q)) : Tail(q)[i] = q[i + 1]
  BY HeadTailProperties
<1>2. Len(q) \in Nat \ {0} /\ DOMAIN q = 1..Len(q)
  BY EmptySeq, LenProperties
<1>3. DOMAIN Tail(q) = 1..(Len(q) - 1)
  BY <1>1, <1>2, LenProperties
<1>4. Head(q) = q[1]
  BY <1>2
<1>5. Len(q) # 1 => Tail(q) # <<>>
  <2> SUFFICES ASSUME Tail(q) = <<>> PROVE Len(q) = 1
    OBVIOUS
  <2>1. Len(<<>>) = 0
    BY EmptySeq
  <2>2. Len(q) - 1 = 0
    BY <1>1, <2>1
  <2> QED
    BY <1>2, <2>2
<1>6. \A i \in 1..(Len(q) - 1) : i + 1 \in 1..Len(q) /\ i + 1 # 1
  BY <1>2
<1>7. \A i \in 1..Len(q) :
         i # 1 => i - 1 \in 1..(Len(q) - 1) /\ Tail(q)[i - 1] = q[i]
  <2> TAKE i \in 1..Len(q)
  <2>1. i # 1 => i - 1 \in 1..(Len(q) - 1) /\ (i - 1) + 1 = i
    BY <1>2
  <2> QED
    BY <1>1, <1>2, <2>1
<1>8. 1 \in 1..Len(q) /\ (Len(q) = 1 => 1..Len(q) = {1})
  BY <1>2
<1>9. \A i \in DOMAIN Tail(q) : /\ i + 1 \in DOMAIN q /\ i + 1 # 1
                                /\ Tail(q)[i] = q[i + 1]
  BY <1>1, <1>2, <1>3, <1>6
<1>10. \A i \in DOMAIN q : i # 1 => i - 1 \in DOMAIN Tail(q) /\ Tail(q)[i - 1] = q[i]
  BY <1>2, <1>3, <1>7
<1> QED
  BY <1>1, <1>2, <1>3, <1>4, <1>5, <1>8, <1>9, <1>10

-----------------------------------------------------------------------------
(* What the changes of a snapshot do to its fields.                        *)

LEMMA PanShrinks ==
    ASSUME NEW R, NEW s, NEW pn, NEW pm, Full(pm, Rear) \subseteq Full(pn, Rear)
    PROVE  /\ SnapCore(s, pn, R) => SnapCore(s, pm, R)
           /\ SnapInv(s, pn, R) => SnapInv(s, pm, R)
BY DEF SnapInv, SnapCore, LowInv, HighInv

\* A pan of the rear that was empty, or set apart, may be set apart.
LEMMA SetApart ==
    ASSUME NEW R, NEW T, NEW s, NEW pn, NEW pm, SnapInv(s, pn, R),
           Full(pm, Rear) \subseteq Full(pn, Rear) \cup T,
           Full(pm, Rear) \cap R \subseteq T
    PROVE  SnapInv(s, pm, T)
BY DEF SnapInv, SnapCore, LowInv, HighInv

\* A registered pit only adds to those that wait.
LEMMA RegisterKeeps ==
    ASSUME NEW R, NEW s, NEW pn, SnapInv(s, pn, R), NEW q \in HighFront,
           NEW t, t = RegisterFrontPit(s, q)
    PROVE  /\ SnapInv(t, pn, R)
           /\ t.mode = s.mode /\ t.transition = s.transition
           /\ t.item = s.item /\ t.batch = s.batch
           /\ Pits(s) \subseteq Pits(t) /\ FreePits(s) \subseteq FreePits(t)
           /\ \A z \in Zone : Items(t, z) = Items(s, z)
<1>1. s \in Snapshot
  BY DEF SnapInv, SnapCore
<1>2. /\ t \in Snapshot /\ t.mode = s.mode /\ t.transition = s.transition
      /\ t.item = s.item /\ t.batch = s.batch
      /\ \A r \in HighFront : s.pit[r] # "none" => t.pit[r] # "none"
  BY <1>1 DEF RegisterFrontPit, Snapshot
<1>3. \A z \in Zone : Items(t, z) = Items(s, z)
  BY <1>2 DEF Items
<1>4. Pits(s) \subseteq Pits(t)
  BY <1>2 DEF Pits
<1>5. FreePits(s) \subseteq FreePits(t)
  BY <1>2, <1>3, <1>4 DEF FreePits, Zone
<1>6. SnapInv(t, pn, R)
  BY <1>2, <1>3, <1>5 DEF SnapInv, SnapCore, LowInv, HighInv, ItemsWhole, Zone
<1> QED
  BY <1>2, <1>3, <1>4, <1>5, <1>6

\* A pit that is forgotten takes itself out of the pits and the items.
LEMMA ForgetFields ==
    ASSUME NEW s \in Snapshot, ItemsWhole(s), NEW q, NEW t, t = ForgetPit(s, q)
    PROVE  /\ t \in Snapshot /\ ItemsWhole(t)
           /\ t.mode = s.mode /\ t.transition = s.transition
           /\ t.batch = s.batch /\ t.held = s.held
           /\ Pits(t) = Pits(s) \ {q}
           /\ \A r \in HighFront : t.pit[r] = IF r = q THEN "none" ELSE s.pit[r]
           /\ \A p \in Supply :
                 /\ t.item[p].target = s.item[p].target
                 /\ t.item[p].pit = IF s.item[p].pit = q THEN NoPit ELSE s.item[p].pit
           /\ \A z \in Zone : Items(t, z) = Items(s, z)
<1>1. /\ s.item \in [Supply -> [pit: HighFront \cup {NoPit}, target: Pan \cup {NoPit}]]
      /\ s.pit \in [HighFront -> {"none", "open"} \cup Zone]
  BY DEF Snapshot
<1> DEFINE pits == [r \in HighFront |-> IF r = q THEN "none" ELSE s.pit[r]]
           items == [p \in Supply |->
                 IF s.item[p].pit = q THEN [s.item[p] EXCEPT !.pit = NoPit]
                 ELSE s.item[p]]
<1>2. t = [s EXCEPT !.pit = pits, !.item = items]
  BY DEF ForgetPit
<1>3. /\ items \in [Supply -> [pit: HighFront \cup {NoPit}, target: Pan \cup {NoPit}]]
      /\ pits \in [HighFront -> {"none", "open"} \cup Zone]
  BY <1>1
<1>4. /\ t \in Snapshot /\ t.mode = s.mode /\ t.transition = s.transition
      /\ t.batch = s.batch /\ t.held = s.held /\ t.pit = pits /\ t.item = items
  BY <1>2, <1>3 DEF Snapshot
<1>5. \A p \in Supply :
         /\ items[p].target = s.item[p].target
         /\ items[p].pit = IF s.item[p].pit = q THEN NoPit ELSE s.item[p].pit
         /\ items[p] = NoItem <=> s.item[p] = NoItem
  <2> TAKE p \in Supply
  <2>1. s.item[p] \in [pit: HighFront \cup {NoPit}, target: Pan \cup {NoPit}]
    BY <1>1
  <2>2. s.item[p].target = NoPit => s.item[p] = NoItem
    BY DEF ItemsWhole
  <2> QED
    BY <2>1, <2>2 DEF NoItem
<1>6. ItemsWhole(t)
  BY <1>4, <1>5, AreaFacts DEF ItemsWhole
<1>7. Pits(t) = Pits(s) \ {q}
  BY <1>4 DEF Pits
<1>8. \A z \in Zone : Items(t, z) = Items(s, z)
  BY <1>4, <1>5, ZoneFacts DEF Items
<1>9. \A r \in HighFront : t.pit[r] = IF r = q THEN "none" ELSE s.pit[r]
  BY <1>4
<1> HIDE DEF items, pits
<1> QED
  BY <1>4, <1>5, <1>6, <1>7, <1>8, <1>9

\* A completed item takes its pit with it, so what waits still waits.
LEMMA CompleteKeeps ==
    ASSUME NEW R, NEW s, NEW pn, SnapCore(s, pn, R), NEW p \in Rear,
           NEW pm, Full(pm, Rear) \subseteq Full(pn, Rear) \ {p},
           NEW t, t = Complete(s, p)
    PROVE  /\ SnapCore(t, pm, R)
           /\ t.mode = s.mode /\ t.transition = s.transition /\ t.batch = s.batch
           /\ Items(t, "main") = Items(s, "main") \ {p}
           /\ \A z \in Zone : Items(t, z) = Items(s, z) \ {p}
           /\ FreePits(t) = FreePits(s)
           /\ Pits(t) = Pits(s) \ {s.item[p].pit}
           /\ \A r \in HighFront :
                 t.pit[r] = IF r = s.item[p].pit THEN "none" ELSE s.pit[r]
           /\ \A r \in Supply \ {p} :
                 t.item[r].pit = IF s.item[r].pit = s.item[p].pit THEN NoPit
                                 ELSE s.item[r].pit
<1> DEFINE q == s.item[p].pit
           u == ForgetPit(s, q)
<1>1. /\ s \in Snapshot /\ ItemsWhole(s) /\ p \in Supply
  BY AreaFacts DEF SnapCore
<1>2. /\ u \in Snapshot /\ ItemsWhole(u)
      /\ u.mode = s.mode /\ u.transition = s.transition /\ u.batch = s.batch
      /\ Pits(u) = Pits(s) \ {q}
      /\ \A r \in HighFront : u.pit[r] = IF r = q THEN "none" ELSE s.pit[r]
      /\ \A r \in Supply :
            u.item[r].pit = IF s.item[r].pit = q THEN NoPit ELSE s.item[r].pit
      /\ \A z \in Zone : Items(u, z) = Items(s, z)
  <2> HIDE DEF q
  <2> QED
    BY <1>1, ForgetFields
<1>3. t = [u EXCEPT !.item[p] = NoItem]
  BY DEF Complete
<1> HIDE DEF u
<1>4. /\ t \in Snapshot
      /\ t.mode = u.mode /\ t.transition = u.transition /\ t.batch = u.batch
      /\ t.pit = u.pit
      /\ \A r \in Supply : t.item[r] = IF r = p THEN NoItem ELSE u.item[r]
  <2>1. NoItem \in [pit: HighFront \cup {NoPit}, target: Pan \cup {NoPit}]
    BY DEF NoItem
  <2>2. u.item \in [Supply -> [pit: HighFront \cup {NoPit}, target: Pan \cup {NoPit}]]
    BY <1>2 DEF Snapshot
  <2>3. [u.item EXCEPT ![p] = NoItem]
           \in [Supply -> [pit: HighFront \cup {NoPit}, target: Pan \cup {NoPit}]]
    BY <2>1, <2>2
  <2>4. t = [u EXCEPT !.item = [u.item EXCEPT ![p] = NoItem]]
    BY <1>2, <1>3 DEF Snapshot
  <2>5. /\ t \in Snapshot
        /\ t.mode = u.mode /\ t.transition = u.transition /\ t.batch = u.batch
        /\ t.pit = u.pit /\ t.item = [u.item EXCEPT ![p] = NoItem]
    BY <1>2, <2>3, <2>4 DEF Snapshot
  <2> QED
    BY <2>2, <2>5
<1>5. ItemsWhole(t)
  BY <1>1, <1>2, <1>4, AreaFacts DEF ItemsWhole, NoItem
<1>6. \A z \in Zone : Items(t, z) = Items(u, z) \ {p}
  BY <1>1, <1>4, ZoneFacts DEF Items
<1>7. Items(t, "main") = Items(s, "main") \ {p}
  BY <1>2, <1>6 DEF Zone
<1>8. Pits(t) = Pits(s) \ {q}
  BY <1>2, <1>4 DEF Pits
<1>9. FreePits(t) = FreePits(s)
  <2>1. p \notin Items(s, "main") => q = NoPit
    BY <1>1, ZoneFacts DEF Items, NoItem
  <2>2. Pits(s) \subseteq HighFront
    BY DEF Pits
  <2>3. ASSUME NEW r PROVE r \in FreePits(t) <=> r \in FreePits(s)
    <3>1. \A x \in Items(t, "main") :
             t.item[x].pit = IF s.item[x].pit = q THEN NoPit ELSE s.item[x].pit
      BY <1>2, <1>4, <1>7, ZoneFacts, AreaFacts DEF Items
    <3>2. r \in FreePits(t) <=>
             /\ r \in Pits(s) \ {q}
             /\ \A x \in Items(s, "main") \ {p} : t.item[x].pit # r
      BY <1>7, <1>8 DEF FreePits
    <3>3. r \in FreePits(s) <=>
             /\ r \in Pits(s)
             /\ \A x \in Items(s, "main") : s.item[x].pit # r
      BY DEF FreePits
    <3>4. r \in Pits(s) => r # NoPit
      BY <2>2, AreaFacts
    <3> HIDE DEF q
    <3>5. s.item[p].pit = q
      BY DEF q
    <3> QED
      BY <1>7, <2>1, <3>1, <3>2, <3>3, <3>4, <3>5
  <2> QED
    BY <2>3
<1>10. SnapCore(t, pm, R)
  <2>1. LowInv(t, pm, R)
    BY <1>2, <1>4 DEF SnapCore, LowInv
  <2>2. t.mode = "HIGH" => \A r \in LowPans : t.item[r].pit = NoPit
    BY <1>2, <1>4, AreaFacts DEF SnapCore, HighInv, NoItem
  <2>3. HighInv(t, pm, R)
    BY <1>2, <1>4, <1>7, <1>9, <2>2 DEF SnapCore, HighInv
  <2>4. \A z \in Zone : t.batch[z] = "none" => Items(t, z) = {}
    BY <1>2, <1>4, <1>6 DEF SnapCore
  <2> QED
    BY <1>4, <1>5, <2>1, <2>3, <2>4 DEF SnapCore
<1>11. \A z \in Zone : Items(t, z) = Items(s, z) \ {p}
  BY <1>2, <1>6
<1>12. q = s.item[p].pit
  OBVIOUS
<1> HIDE DEF q
<1> QED
  BY <1>2, <1>4, <1>7, <1>8, <1>9, <1>10, <1>11, <1>12

\* The end of the back filling: a batch without items is over.
LEMMA CloseKeeps ==
    ASSUME NEW R, NEW s, NEW pn, SnapCore(s, pn, R),
           NEW t, t = IF Items(s, "main") = {}
                      THEN [s EXCEPT !.batch["main"] = "none"] ELSE s
    PROVE  /\ SnapInv(t, pn, R)
           /\ t.mode = s.mode /\ t.transition = s.transition
           /\ Items(t, "main") = Items(s, "main")
           /\ FreePits(t) = FreePits(s)
<1>1. /\ t \in Snapshot /\ t.mode = s.mode /\ t.transition = s.transition
      /\ t.item = s.item /\ t.pit = s.pit
      /\ \A z \in LowZones : t.batch[z] = s.batch[z]
      /\ Items(s, "main") = {} => t.batch["main"] = "none"
      /\ Items(s, "main") # {} => t.batch["main"] = s.batch["main"]
  BY DEF SnapCore, Snapshot, LowZones, Zone
<1>2. \A z \in Zone : Items(t, z) = Items(s, z)
  BY <1>1 DEF Items
<1>3. FreePits(t) = FreePits(s)
  BY <1>1, <1>2 DEF FreePits, Pits, Zone
<1>4. SnapCore(t, pn, R)
  BY <1>1, <1>2, <1>3, ZoneFacts DEF SnapCore, LowInv, HighInv, ItemsWhole
<1> QED
  BY <1>1, <1>2, <1>3, <1>4 DEF SnapInv, Zone

\* An item that is sent to another pan stays an item.
LEMMA RetargetKeeps ==
    ASSUME NEW R, NEW s, NEW pn, SnapInv(s, pn, R), NEW p \in Items(s, "main"),
           NEW q, q \in HighFront \/ q = s.item[p].target,
           NEW t, t = [s EXCEPT !.item[p].target = q]
    PROVE  /\ SnapInv(t, pn, R) /\ q \in HighFront
           /\ t.mode = s.mode /\ t.transition = s.transition
           /\ Items(t, "main") = Items(s, "main")
           /\ FreePits(t) = FreePits(s)
           /\ t.pit = s.pit /\ t.batch = s.batch
           /\ \A r \in Supply : t.item[r].pit = s.item[r].pit
           /\ \A z \in Zone : Items(t, z) = Items(s, z)
<1>1. /\ s \in Snapshot /\ ItemsWhole(s) /\ p \in Rear /\ p \in Supply
      /\ s.item[p] # NoItem
  BY AreaFacts, ZoneFacts DEF SnapInv, SnapCore, Items
<1>2. q \in HighFront /\ q # NoPit
  BY <1>1, AreaFacts DEF ItemsWhole, Snapshot
<1>3. /\ t \in Snapshot /\ t.mode = s.mode /\ t.transition = s.transition
      /\ t.batch = s.batch /\ t.pit = s.pit
      /\ t.item = [s.item EXCEPT ![p].target = q]
  <2>1. s.item[p] \in [pit: HighFront \cup {NoPit}, target: Pan \cup {NoPit}]
    BY <1>1 DEF Snapshot
  <2>2. [s.item[p] EXCEPT !.target = q]
           \in [pit: HighFront \cup {NoPit}, target: Pan \cup {NoPit}]
    BY <1>2, <2>1, AreaFacts
  <2>3. [s.item EXCEPT ![p].target = q]
           \in [Supply -> [pit: HighFront \cup {NoPit}, target: Pan \cup {NoPit}]]
    BY <1>1, <2>2 DEF Snapshot
  <2>4. t = [s EXCEPT !.item = [s.item EXCEPT ![p].target = q]]
    BY <1>1 DEF Snapshot
  <2> QED
    BY <1>1, <2>3, <2>4 DEF Snapshot
<1>4. \A r \in Supply : /\ t.item[r].pit = s.item[r].pit
                        /\ r # p => t.item[r] = s.item[r]
                        /\ t.item[p].target = q
  BY <1>1, <1>3 DEF Snapshot
<1>5. \A r \in Supply : t.item[r] = NoItem <=> s.item[r] = NoItem
  BY <1>1, <1>2, <1>4 DEF NoItem
<1>6. ItemsWhole(t)
  BY <1>1, <1>2, <1>4, <1>5, AreaFacts DEF ItemsWhole
<1>7. \A z \in Zone : Items(t, z) = Items(s, z)
  BY <1>5, ZoneFacts DEF Items
<1>8. FreePits(t) = FreePits(s)
  BY <1>3, <1>4, <1>7, ZoneFacts, AreaFacts DEF FreePits, Pits, Items, Zone
<1>9. SnapInv(t, pn, R)
  BY <1>3, <1>4, <1>6, <1>7, <1>8, AreaFacts
     DEF SnapInv, SnapCore, LowInv, HighInv, Zone
<1> QED
  BY <1>2, <1>3, <1>4, <1>7, <1>8, <1>9 DEF Zone

\* Another mode is adopted only when nothing waits and nothing cooks, so a
\* sausage in the rear would be one that leaves a pit.
LEMMA AdoptedKeeps ==
    ASSUME NEW R, NEW s, NEW pn, SnapInv(s, pn, R), NEW t \in Adopted(s)
    PROVE  /\ SnapInv(t, pn, R)
           /\ t.batch = s.batch /\ t.item = s.item
           /\ Pits(t) = Pits(s) /\ FreePits(t) = FreePits(s)
           /\ t.mode # s.mode => FreePits(t) = {}
           /\ t.pit = s.pit
           /\ \/ t = s
              \/ Pits(t) = {} /\ \A z \in Zone : t.batch[z] = "none"
<1>1. CASE t = s
  BY <1>1
<1>2. CASE /\ t = [s EXCEPT !.mode = IF s.mode = "LOW" THEN "HIGH" ELSE "LOW"]
           /\ s.transition = "NONE" /\ Pits(s) = {} /\ \A z \in Zone : ~Active(s, z)
  <2>1. /\ t \in Snapshot /\ t.transition = "NONE"
        /\ t.batch = s.batch /\ t.item = s.item /\ t.pit = s.pit
        /\ s.mode = "HIGH" <=> t.mode = "LOW"
    BY <1>2 DEF SnapInv, SnapCore, Snapshot
  <2>2. /\ \A z \in Zone : Items(t, z) = Items(s, z) /\ Items(s, z) = {}
        /\ Pits(t) = {}
    BY <1>2, <2>1 DEF SnapInv, SnapCore, Active, Items, Pits
  <2>3. FreePits(t) = {} /\ FreePits(s) = {}
    BY <1>2, <2>2 DEF FreePits
  <2>4. Full(pn, Rear) \subseteq R
    BY <1>2, <2>1, <2>2, <2>3 DEF SnapInv, SnapCore, LowInv, HighInv, Snapshot, Zone
  <2>5. \A p \in LowPans : s.item[p] = NoItem
    BY <2>2, ZoneFacts DEF Items, LowPans, Zone
  <2>6. SnapInv(t, pn, R)
    BY <2>1, <2>2, <2>4, <2>5
       DEF SnapInv, SnapCore, LowInv, HighInv, ItemsWhole, NoItem, Zone
  <2>7. \A z \in Zone : t.batch[z] = "none"
    BY <1>2, <2>1 DEF Active
  <2> QED
    BY <1>2, <2>1, <2>2, <2>3, <2>6, <2>7
<1> QED
  BY <1>1, <1>2 DEF Adopted

\* A batch is found ready only with its items.
LEMMA UpdateKeeps ==
    ASSUME NEW R, NEW s, NEW pn, SnapInv(s, pn, R), NEW pm, NEW over,
           NEW t, t = UpdateBatchStates(s, pm, over)
    PROVE  /\ SnapInv(t, pn, R)
           /\ t.mode = s.mode /\ t.transition = s.transition
           /\ t.item = s.item /\ t.pit = s.pit
           /\ \A z \in Zone : t.batch[z] = "none" <=> s.batch[z] = "none"
           /\ Pits(t) = Pits(s) /\ FreePits(t) = FreePits(s)
<1>1. s \in Snapshot
  BY DEF SnapInv, SnapCore
<1>2. /\ t \in Snapshot /\ t.mode = s.mode /\ t.transition = s.transition
      /\ t.item = s.item /\ t.pit = s.pit
      /\ \A z \in Zone : t.batch[z] =
            IF z \in ReadyZones(s, pm, over) THEN "READY" ELSE s.batch[z]
  BY <1>1 DEF UpdateBatchStates, Snapshot
<1>3. \A z \in Zone : Items(t, z) = Items(s, z)
  BY <1>2 DEF Items
<1>4. Pits(t) = Pits(s) /\ FreePits(t) = FreePits(s)
  BY <1>2, <1>3 DEF FreePits, Pits, Zone
<1>5. \A z \in ReadyZones(s, pm, over) : Items(s, z) # {}
  BY DEF ReadyZones, Cooked
<1>6. /\ \A z \in Zone : t.batch[z] = "none" => Items(t, z) = {}
      /\ t.batch["main"] = "READY" => Items(t, "main") # {}
  BY <1>2, <1>3, <1>5 DEF SnapInv, SnapCore, Zone
<1>7. SnapInv(t, pn, R)
  BY <1>2, <1>3, <1>4, <1>6
     DEF SnapInv, SnapCore, LowInv, HighInv, ItemsWhole, Zone
<1>8. \A z \in Zone : t.batch[z] = "none" <=> s.batch[z] = "none"
  BY <1>2 DEF ReadyZones, Cooked
<1> QED
  BY <1>2, <1>4, <1>7, <1>8

\* Low batches that are held take their items and their pits along; in high
\* concurrency they have none that waits.
\* Each pit of t was one of s, and has the item that it had there.
KeepsPits(s, t) ==
    \A q \in HighFront : t.pit[q] # "none" =>
        /\ t.pit[q] = s.pit[q]
        /\ \A z \in Zone : \A p \in Items(s, z) :
              s.item[p].pit = q => p \in Items(t, z) /\ t.item[p].pit = q

LEMMA HoldKeeps ==
    ASSUME NEW R, NEW s, NEW pn, SnapInv(s, pn, R), NEW t, t = HoldBatchInPlace(s)
    PROVE  /\ SnapInv(t, pn, R)
           /\ t.mode = s.mode /\ t.transition = s.transition
           /\ t.batch["main"] = s.batch["main"]
           /\ Items(t, "main") = Items(s, "main")
           /\ Pits(t) \subseteq Pits(s) /\ FreePits(t) \subseteq FreePits(s)
           /\ \A p \in Rear : t.item[p] = s.item[p]
           /\ s.mode = "HIGH" => Pits(t) = Pits(s)
           /\ KeepsPits(s, t)
<1> DEFINE ready == {z \in LowZones : s.batch[z] = "READY"}
           items == UNION {Items(s, z) : z \in ready}
           pits == {s.item[p].pit : p \in items}
           bt == [z \in Zone |-> IF z \in ready THEN "none" ELSE s.batch[z]]
           it == [p \in Supply |-> IF p \in items THEN NoItem ELSE s.item[p]]
           pt == [q \in HighFront |-> IF q \in pits THEN "none" ELSE s.pit[q]]
<1>1. /\ s \in Snapshot /\ ItemsWhole(s)
      /\ \A z \in Zone : Items(s, z) \subseteq ZonePans[z]
  BY DEF SnapInv, SnapCore, Items
<1>2. items \subseteq LowPans
  BY <1>1, ZoneFacts
<1>3. NoItem \in [pit: HighFront \cup {NoPit}, target: Pan \cup {NoPit}]
  BY DEF NoItem
<1>4. /\ bt \in [Zone -> {"none", "HEATING", "READY"}]
      /\ it \in [Supply -> [pit: HighFront \cup {NoPit}, target: Pan \cup {NoPit}]]
      /\ pt \in [HighFront -> {"none", "open"} \cup Zone]
      /\ s.held \cup items \in SUBSET LowPans
  BY <1>1, <1>2, <1>3 DEF Snapshot, LowPans
<1>5. t = [s EXCEPT !.batch = bt, !.item = it, !.pit = pt, !.held = s.held \cup items]
  BY DEF HoldBatchInPlace
<1>6. /\ t \in Snapshot /\ t.mode = s.mode /\ t.transition = s.transition
      /\ t.batch = bt /\ t.item = it /\ t.pit = pt
  <2> HIDE DEF bt, it, pt, items
  <2> QED
    BY <1>1, <1>4, <1>5 DEF Snapshot, LowPans
<1>7. /\ \A p \in Supply : it[p] = IF p \in items THEN NoItem ELSE s.item[p]
      /\ \A p \in Rear : it[p] = s.item[p]
  BY <1>2, AreaFacts
<1>8. Items(t, "main") = Items(s, "main")
  BY <1>6, <1>7, ZoneFacts DEF Items
<1>9. /\ bt["main"] = s.batch["main"]
      /\ \A z \in LowZones : bt[z] = IF z \in ready THEN "none" ELSE s.batch[z]
  BY ZoneFacts DEF LowZones, Zone
<1>10. Pits(t) \subseteq Pits(s)
  BY <1>6 DEF Pits
<1>11. FreePits(t) \subseteq FreePits(s)
  <2>1. \A x \in Items(s, "main") : t.item[x] = s.item[x]
    BY <1>6, <1>7, ZoneFacts DEF Items
  <2> QED
    BY <1>8, <1>10, <2>1 DEF FreePits
<1>12. s.mode = "HIGH" => FreePits(t) = FreePits(s) /\ Pits(t) = Pits(s)
  <2> SUFFICES ASSUME s.mode = "HIGH"
               PROVE  FreePits(s) \subseteq FreePits(t) /\ Pits(t) = Pits(s)
    BY <1>11
  <2>1. pits \subseteq {NoPit}
    BY <1>2 DEF SnapInv, SnapCore, HighInv
  <2>2. Pits(t) = Pits(s)
    BY <1>6, <2>1, AreaFacts DEF Pits
  <2> QED
    BY <1>6, <1>7, <1>8, <2>2, ZoneFacts DEF FreePits, Items
<1>13. \A z \in Zone : t.batch[z] = "none" => Items(t, z) = {}
  <2> SUFFICES ASSUME NEW z \in Zone, t.batch[z] = "none", NEW p \in Items(t, z)
               PROVE  FALSE
    OBVIOUS
  <2>1. p \in Supply /\ p \in ZonePans[z] /\ p \notin items /\ s.item[p] # NoItem
    BY <1>6, <1>7, ZoneFacts DEF Items
  <2>2. p \in Items(s, z)
    BY <2>1 DEF Items
  <2>3. s.batch[z] # "none"
    BY <2>2 DEF SnapInv, SnapCore
  <2>4. z \in ready
    BY <1>6, <1>9, <2>3, ZoneFacts
  <2> QED
    BY <2>1, <2>2, <2>4
<1>14. ItemsWhole(t)
  <2> HIDE DEF it, items
  <2> QED
    BY <1>1, <1>6, <1>7, AreaFacts DEF ItemsWhole, NoItem
<1>15. HighInv(t, pn, R) /\ LowInv(t, pn, R)
  <2>1. s.mode = "HIGH" => \A p \in LowPans : t.item[p].pit = NoPit
    BY <1>6, <1>7, AreaFacts DEF SnapInv, SnapCore, HighInv, NoItem
  <2> HIDE DEF items, bt, it, pt, ready
  <2> QED
    BY <1>6, <1>8, <1>12, <2>1 DEF SnapInv, SnapCore, HighInv, LowInv
<1>16. ASSUME NEW q \in HighFront, t.pit[q] # "none"
       PROVE  /\ t.pit[q] = s.pit[q]
              /\ \A z \in Zone : \A p \in Items(s, z) :
                    s.item[p].pit = q => p \in Items(t, z) /\ t.item[p].pit = q
  <2>1. q \notin pits /\ t.pit[q] = s.pit[q]
    BY <1>6, <1>16
  <2>2. ASSUME NEW z \in Zone, NEW p \in Items(s, z), s.item[p].pit = q
        PROVE  p \in Items(t, z) /\ t.item[p].pit = q
    <3>1. p \notin items
      BY <2>1, <2>2
    <3>2. p \in Supply /\ p \in ZonePans[z] /\ s.item[p] # NoItem
      BY ZoneFacts DEF Items
    <3>3. t.item[p] = s.item[p]
      BY <1>6, <1>7, <3>1, <3>2
    <3> QED
      BY <2>2, <3>2, <3>3 DEF Items
  <2> QED
    BY <2>1, <2>2
<1>17. \A p \in Rear : t.item[p] = s.item[p]
  BY <1>6, <1>7
<1> HIDE DEF bt, it, pt, items
<1>18. SnapInv(t, pn, R)
  BY <1>6, <1>8, <1>9, <1>13, <1>14, <1>15 DEF SnapInv, SnapCore
<1>19. KeepsPits(s, t)
  BY <1>16 DEF KeepsPits
<1> QED
  BY <1>6, <1>8, <1>9, <1>10, <1>11, <1>12, <1>17, <1>18, <1>19

LEMMA NewKeeps ==
    ASSUME NEW R, NEW m \in {"LOW", "HIGH"}, NEW pn,
           Full(pn, Rear) \subseteq R, NEW t, t = NewSnapshot(m)
    PROVE  /\ SnapInv(t, pn, R) /\ t.mode = m
           /\ \A z \in Zone : Items(t, z) = {}
           /\ Pits(t) = {} /\ FreePits(t) = {}
<1>1. t.item = [p \in Supply |-> NoItem] /\ t.pit = [q \in HighFront |-> "none"]
  BY DEF NewSnapshot
<1>2. t \in Snapshot
  <2>1. NoItem \in [pit: HighFront \cup {NoPit}, target: Pan \cup {NoPit}]
    BY DEF NoItem
  <2> QED
    BY <2>1 DEF NewSnapshot, Snapshot
<1>3. t.mode = m /\ t.transition = "NONE" /\ t.batch = [z \in Zone |-> "none"]
  BY DEF NewSnapshot
<1>4. \A z \in Zone : Items(t, z) = {}
  BY <1>1, ZoneFacts DEF Items
<1>5. Pits(t) = {} /\ FreePits(t) = {}
  BY <1>1 DEF Pits, FreePits
<1>6. ItemsWhole(t) /\ \A p \in LowPans : t.item[p].pit = NoPit
  BY <1>1, AreaFacts DEF ItemsWhole, NoItem
<1>7. SnapInv(t, pn, R)
  BY <1>2, <1>3, <1>4, <1>6 DEF SnapInv, SnapCore, LowInv, HighInv, Zone
<1> QED
  BY <1>3, <1>4, <1>5, <1>7

\* Pits may be added at any time, and taken away in low concurrency.
LEMMA PitsKeep ==
    ASSUME NEW R, NEW s, NEW pn, SnapInv(s, pn, R), NEW t \in Snapshot,
           t.mode = s.mode, t.transition = s.transition,
           t.item = s.item, t.batch = s.batch,
           s.mode = "HIGH" => Pits(s) \subseteq Pits(t)
    PROVE  SnapInv(t, pn, R) /\ \A z \in Zone : Items(t, z) = Items(s, z)
<1>1. \A z \in Zone : Items(t, z) = Items(s, z)
  BY DEF Items
<1>2. s.mode = "HIGH" => FreePits(s) \subseteq FreePits(t)
  BY <1>1 DEF FreePits, Zone
<1> QED
  BY <1>1, <1>2 DEF SnapInv, SnapCore, LowInv, HighInv, ItemsWhole, Zone

\* A transition of high concurrency begins or is over.
LEMMA TransitionKeeps ==
    ASSUME NEW R, NEW s, NEW pn, SnapInv(s, pn, R), s.mode = "HIGH",
           NEW x \in {"NONE", "LOW_TO_HIGH", "HIGH_TO_LOW"},
           NEW t, t = [s EXCEPT !.transition = x]
    PROVE  SnapInv(t, pn, R) /\ t.mode = "HIGH" /\ Items(t, "main") = Items(s, "main")
<1>1. /\ t \in Snapshot /\ t.mode = s.mode
      /\ t.item = s.item /\ t.batch = s.batch /\ t.pit = s.pit
  BY DEF SnapInv, SnapCore, Snapshot
<1>2. \A z \in Zone : Items(t, z) = Items(s, z)
  BY <1>1 DEF Items
<1>3. FreePits(t) = FreePits(s)
  BY <1>1, <1>2 DEF FreePits, Pits, Zone
<1> QED
  BY <1>1, <1>2, <1>3 DEF SnapInv, SnapCore, LowInv, HighInv, ItemsWhole, Zone

\* Low concurrency gives up: its batches lose their pits, the rear is empty.
LEMMA EnterKeeps ==
    ASSUME NEW R, SnapInv(snap, pan, R), snap.mode = "LOW"
    PROVE  /\ SnapInv(EnterLowToHigh, pan, R)
           /\ Items(EnterLowToHigh, "main") = Items(snap, "main")
           /\ EnterLowToHigh.mode = "HIGH"
           /\ EnterLowToHigh.batch = snap.batch
           /\ \A q \in HighFront :
                 /\ EnterLowToHigh.pit[q] \in {"none", "open"}
                 /\ EnterLowToHigh.pit[q] = "open" => pan[q] = "empty"
<1> DEFINE t == EnterLowToHigh
           it == [p \in Supply |-> [snap.item[p] EXCEPT !.pit = NoPit]]
<1>1. /\ snap.item \in [Supply -> [pit: HighFront \cup {NoPit},
                                   target: Pan \cup {NoPit}]]
      /\ ItemsWhole(snap) /\ Full(pan, Rear) \subseteq R
  BY DEF SnapInv, SnapCore, LowInv, Snapshot
<1>2. /\ it \in [Supply -> [pit: HighFront \cup {NoPit}, target: Pan \cup {NoPit}]]
      /\ \A p \in Supply : it[p].pit = NoPit /\ it[p].target = snap.item[p].target
      /\ \A p \in Supply : it[p] = NoItem <=> snap.item[p] = NoItem
  <2>1. \A p \in Supply : it[p] = [snap.item[p] EXCEPT !.pit = NoPit]
    OBVIOUS
  <2>2. ASSUME NEW p \in Supply
        PROVE  /\ it[p] \in [pit: HighFront \cup {NoPit}, target: Pan \cup {NoPit}]
               /\ it[p].pit = NoPit /\ it[p].target = snap.item[p].target
               /\ it[p] = NoItem <=> snap.item[p] = NoItem
    <3>1. snap.item[p] \in [pit: HighFront \cup {NoPit}, target: Pan \cup {NoPit}]
      BY <1>1
    <3>2. snap.item[p].target = NoPit => snap.item[p] = NoItem
      BY <1>1 DEF ItemsWhole
    <3> QED
      BY <2>1, <3>1, <3>2 DEF NoItem
  <2> QED
    BY <2>2
<1>3. /\ t \in Snapshot /\ t.mode = "HIGH" /\ t.batch = snap.batch /\ t.item = it
  <2>1. \E pt \in [HighFront -> {"none", "open"} \cup Zone] :
           t = [snap EXCEPT !.mode = "HIGH", !.transition = "LOW_TO_HIGH",
                            !.pit = pt, !.item = it]
    BY DEF EnterLowToHigh
  <2> HIDE DEF t, it
  <2>2. PICK pt \in [HighFront -> {"none", "open"} \cup Zone] :
           t = [snap EXCEPT !.mode = "HIGH", !.transition = "LOW_TO_HIGH",
                            !.pit = pt, !.item = it]
    BY <2>1
  <2>3. snap \in Snapshot
    BY DEF SnapInv, SnapCore
  <2> QED
    BY <1>2, <2>2, <2>3 DEF Snapshot
<1> HIDE DEF it
<1>4. \A q \in HighFront : /\ t.pit[q] \in {"none", "open"}
                           /\ t.pit[q] = "open" => pan[q] = "empty"
  BY DEF EnterLowToHigh
<1>5. \A z \in Zone : Items(t, z) = Items(snap, z)
  BY <1>2, <1>3, ZoneFacts DEF Items
<1>6. ItemsWhole(t) /\ \A p \in LowPans : t.item[p].pit = NoPit
  BY <1>1, <1>2, <1>3, AreaFacts DEF ItemsWhole
<1> HIDE DEF t
<1>7. SnapInv(t, pan, R)
  BY <1>1, <1>3, <1>5, <1>6 DEF SnapInv, SnapCore, LowInv, HighInv, Zone
<1> QED
  BY <1>3, <1>4, <1>5, <1>7 DEF Zone, t

\* The batch enters the snapshot with the loads it got.
LEMMA AddFields ==
    ASSUME NEW s \in Snapshot, ItemsWhole(s), NEW z \in Zone,
           NEW got \in SUBSET [from: HighFront \cup {NoPit}, to: Pan], got # {},
           \A l \in got : /\ l.to \in ZonePans[z]
                          /\ z = "main" => l.from \in HighFront,
           NEW t, t = AddBatch(s, z, got)
    PROVE  /\ t \in Snapshot /\ ItemsWhole(t)
           /\ t.mode = s.mode /\ t.transition = s.transition /\ t.pit = s.pit
           /\ t.batch = [s.batch EXCEPT ![z] = "HEATING"]
           /\ \A p \in Supply : p \notin {l.to : l \in got} => t.item[p] = s.item[p]
           /\ \A p \in {l.to : l \in got} :
                 /\ t.item[p] # NoItem
                 /\ \E l \in got : l.to = p /\ t.item[p].pit = l.from
<1> DEFINE Of(p) == CHOOSE l \in got : l.to = p
           Made(p) == [pit |-> Of(p).from,
                       target |-> IF z = "main" THEN Of(p).from ELSE p]
           it == [p \in Supply |->
                     IF \E l \in got : l.to = p THEN Made(p) ELSE s.item[p]]
<1>1. ASSUME NEW p \in {l.to : l \in got}
      PROVE  /\ p \in Supply /\ Of(p) \in got /\ Of(p).to = p
             /\ Made(p) \in [pit: HighFront \cup {NoPit}, target: Pan \cup {NoPit}]
             /\ Made(p).target # NoPit /\ Made(p).target \notin Rear
             /\ Made(p) # NoItem
             /\ Made(p).pit = Of(p).from
  <2>1. \E l \in got : l.to = p
    OBVIOUS
  <2>2. Of(p) \in got /\ Of(p).to = p
    BY <2>1
  <2>3. p \in ZonePans[z] /\ p \in Supply /\ p # NoPit /\ p \in Pan
    BY <2>2, ZoneFacts, AreaFacts
  <2>4. Of(p).from \in HighFront \cup {NoPit} /\ (z = "main" => Of(p).from \in HighFront)
    BY <2>2
  <2>5. z # "main" => p \notin Rear
    BY <2>3, ZoneFacts, AreaFacts
  <2> HIDE DEF Of
  <2> QED
    BY <2>2, <2>3, <2>4, <2>5, AreaFacts DEF NoItem
<1>2. t = [s EXCEPT !.batch[z] = "HEATING", !.item = it]
  BY DEF AddBatch
<1> HIDE DEF Made, Of
<1>3. \A p \in Supply : it[p] = IF p \in {l.to : l \in got} THEN Made(p) ELSE s.item[p]
  OBVIOUS
<1>4. it \in [Supply -> [pit: HighFront \cup {NoPit}, target: Pan \cup {NoPit}]]
  <2>1. \A p \in Supply :
           it[p] \in [pit: HighFront \cup {NoPit}, target: Pan \cup {NoPit}]
    BY <1>1, <1>3 DEF Snapshot
  <2> QED
    BY <2>1
<1> HIDE DEF it
<1>5. /\ t \in Snapshot /\ t.mode = s.mode /\ t.transition = s.transition
      /\ t.pit = s.pit /\ t.item = it
      /\ t.batch = [s.batch EXCEPT ![z] = "HEATING"]
  <2>1. [s.batch EXCEPT ![z] = "HEATING"] \in [Zone -> {"none", "HEATING", "READY"}]
    BY DEF Snapshot
  <2>2. t = [s EXCEPT !.batch = [s.batch EXCEPT ![z] = "HEATING"], !.item = it]
    BY <1>2
  <2> QED
    BY <1>4, <2>1, <2>2 DEF Snapshot
<1>6. ItemsWhole(t)
  BY <1>1, <1>3, <1>5, AreaFacts DEF ItemsWhole
<1> QED
  BY <1>1, <1>3, <1>5, <1>6

LEMMA AddLowKeeps ==
    ASSUME NEW R, NEW s, NEW pn, SnapInv(s, pn, R), s.mode = "LOW", NEW z \in LowZones,
           NEW got \in SUBSET [from: HighFront \cup {NoPit}, to: Pan],
           \A l \in got : l.to \in ZonePans[z],
           NEW t, t = AddBatch(s, z, got)
    PROVE  SnapInv(t, pn, R) /\ t.mode = "LOW"
<1>1. CASE got = {}
  BY <1>1 DEF AddBatch
<1>2. CASE got # {}
  <2>1. s \in Snapshot /\ ItemsWhole(s) /\ z \in Zone /\ z # "main"
    BY ZoneFacts DEF SnapInv, SnapCore
  <2>2. /\ t \in Snapshot /\ ItemsWhole(t)
        /\ t.mode = s.mode /\ t.transition = s.transition
        /\ t.batch = [s.batch EXCEPT ![z] = "HEATING"]
        /\ \A p \in Supply : p \notin {l.to : l \in got} => t.item[p] = s.item[p]
    BY <1>2, <2>1, AddFields
  <2>3. \A y \in Zone : /\ y # z => t.batch[y] = s.batch[y]
                        /\ t.batch[z] = "HEATING"
    BY <2>1, <2>2 DEF Snapshot
  <2>4. ASSUME NEW y \in Zone, y # z
        PROVE  Items(t, y) = Items(s, y)
    <3>1. ZonePans[y] \cap ZonePans[z] = {}
      BY <2>4, ZoneFacts, AreaFacts DEF LowZones
    <3>2. \A p \in ZonePans[y] : t.item[p] = s.item[p]
      BY <2>2, <3>1, ZoneFacts
    <3> QED
      BY <3>2 DEF Items
  <2>5. \A y \in Zone : t.batch[y] = "none" => Items(t, y) = {}
    BY <2>3, <2>4 DEF SnapInv, SnapCore
  <2> QED
    BY <2>1, <2>2, <2>3, <2>4, <2>5
       DEF SnapInv, SnapCore, LowInv, HighInv, Zone
<1> QED
  BY <1>1, <1>2

\* A pan of the rear that was not loaded leaves a pit, or the batch has all.
LEMMA AddHighKeeps ==
    ASSUME NEW R, NEW s, NEW pn, SnapInv(s, pn, R),
           s.mode = "HIGH", s.batch["main"] = "none",
           NEW got \in SUBSET [from: HighFront \cup {NoPit}, to: Pan],
           \A l \in got : l.to \in Rear /\ l.from \in Pits(s),
           \A p \in Rear : \/ \E l \in got : l.to = p
                           \/ \E q \in Pits(s) : \A l \in got : l.from # q,
           NEW t, t = AddBatch(s, "main", got)
    PROVE  /\ SnapInv(t, pn, R) /\ t.mode = "HIGH"
           /\ Items(t, "main") = {l.to : l \in got}
           /\ FreePits(t) \subseteq FreePits(s)
<1>1. s \in Snapshot /\ ItemsWhole(s) /\ Items(s, "main") = {} /\ "main" \in Zone
  BY DEF SnapInv, SnapCore, Zone
<1>2. CASE got = {}
  BY <1>1, <1>2 DEF AddBatch
<1>3. CASE got # {}
  <2>1. Pits(s) \subseteq HighFront
    BY DEF Pits
  <2>2. /\ t \in Snapshot /\ ItemsWhole(t)
        /\ t.mode = s.mode /\ t.transition = s.transition /\ t.pit = s.pit
        /\ t.batch = [s.batch EXCEPT !["main"] = "HEATING"]
        /\ \A p \in Supply : p \notin {l.to : l \in got} => t.item[p] = s.item[p]
        /\ \A p \in {l.to : l \in got} :
              /\ t.item[p] # NoItem
              /\ \E l \in got : t.item[p].pit = l.from
    <3>1. \A l \in got : l.to \in ZonePans["main"] /\ l.from \in HighFront
      BY <2>1, ZoneFacts
    <3> QED
      BY <1>1, <1>3, <3>1, AddFields
  <2>3. {l.to : l \in got} \subseteq Rear
    OBVIOUS
  <2>4. Items(t, "main") = {l.to : l \in got}
    <3>1. \A p \in Rear : s.item[p] = NoItem
      BY <1>1, ZoneFacts DEF Items
    <3>2. \A p \in Rear : t.item[p] # NoItem <=> p \in {l.to : l \in got}
      BY <2>2, <3>1, AreaFacts
    <3> QED
      BY <2>3, <3>2, ZoneFacts DEF Items
  <2>5. Pits(t) = Pits(s) /\ FreePits(s) = Pits(s)
    BY <1>1, <2>2 DEF Pits, FreePits
  <2>6. \A q \in Pits(s) : (\A l \in got : l.from # q) => q \in FreePits(t)
    BY <2>2, <2>4, <2>5 DEF FreePits
  <2>7. ~(Full(pn, Rear) \subseteq Items(t, "main") \cup R) => FreePits(t) # {}
    BY <2>4, <2>6 DEF Full
  <2>8. \A p \in LowPans : t.item[p] = s.item[p]
    BY <2>2, <2>3, AreaFacts
  <2>9. HighInv(t, pn, R) /\ LowInv(t, pn, R)
    BY <2>2, <2>7, <2>8 DEF HighInv, LowInv, SnapInv, SnapCore
  <2>10. /\ t.batch["main"] = "HEATING"
         /\ \A z \in LowZones : t.batch[z] = s.batch[z] /\ Items(t, z) = Items(s, z)
    BY <1>1, <2>2, <2>8, ZoneFacts DEF Snapshot, Items
  <2>11. SnapInv(t, pn, R)
    BY <2>2, <2>9, <2>10, ZoneFacts DEF SnapInv, SnapCore
  <2> QED
    BY <2>2, <2>4, <2>5, <2>11 DEF FreePits
<1> QED
  BY <1>2, <1>3

-----------------------------------------------------------------------------
(* The inductive invariant.                                                *)

StepRecord == [from: Pan \cup {NoPit}, to: Pan]
Pick == [from: HighFront \cup {NoPit}, to: Pan]

CycleRecord ==
    [phase: Phases, zone: Zone, todo: Seq(StepRecord), picks: Seq(StepRecord),
     got: SUBSET Pick, used: SUBSET HighFront, go: BOOLEAN]

StepsTo(q, S) == \A i \in DOMAIN q : q[i].to \in S
StepsFrom(q, S) == \A i \in DOMAIN q : q[i].from \in S
DistinctTo(q) == \A i, j \in DOMAIN q : i # j => q[i].to # q[j].to
DistinctFrom(q) == \A i, j \in DOMAIN q : i # j => q[i].from # q[j].from

InitializeInv(R) ==
    cyc.phase = "initialize" =>
        Full(pan, Rear) \subseteq R /\ StepsTo(cyc.todo, HighFront)

DiscardInv == cyc.phase = "discard" => StepsTo(cyc.todo, HighFront)

\* What is still to be filled back are items of the batch.
BackfillInv ==
    cyc.phase = "backfill" =>
        StepsTo(cyc.todo, Items(snap, "main")) /\ DistinctTo(cyc.todo)

CompactInv ==
    cyc.phase = "compact" =>
        /\ Full(pan, Rear) = {}
        /\ StepsTo(cyc.todo, Front) /\ StepsFrom(cyc.todo, HighFront)

LowPhases == {"primary", "secondary", "threshold", "evacuate"}

\* The picks of a zone can be loaded.
LoadableInv(q, z) ==
    /\ q # <<>> /\ StepsTo(q, ZonePans[z]) /\ DistinctTo(q)
    /\ StepsTo(q, Vacant(pan, Pan))
    /\ StepsFrom(q, HighFront \cup {NoPit})

EvacuateInv ==
    cyc.phase = "evacuate" =>
        /\ cyc.zone \in LowZones
        /\ StepsTo(cyc.todo, Front) /\ StepsFrom(cyc.todo, LowPans)
        /\ LoadableInv(cyc.picks, cyc.zone)

LoadLowInv ==
    cyc.phase = "load" /\ cyc.zone # "main" =>
        /\ snap.mode = "LOW"
        /\ LoadableInv(cyc.todo, cyc.zone)
        /\ \A l \in cyc.got : l.to \in ZonePans[cyc.zone]

(* The loads of a batch of high concurrency, done and to do, each have a   *)
(* pit of their own, and a pan that is loaded in vain leaves a pit over.   *)
LoadHighInv ==
    cyc.phase = "load" /\ cyc.zone = "main" =>
        /\ snap.mode = "HIGH" /\ snap.batch["main"] = "none"
        /\ StepsTo(cyc.todo, Rear) /\ DistinctTo(cyc.todo)
        /\ Undisturbed => StepsTo(cyc.todo, Vacant(pan, Pan))
        /\ StepsFrom(cyc.todo, Pits(snap)) /\ DistinctFrom(cyc.todo)
        /\ \A l \in cyc.got : /\ l.to \in Rear /\ l.from \in Pits(snap)
                              /\ \A i \in DOMAIN cyc.todo : l.from # cyc.todo[i].from
        /\ \A p \in Rear :
               \/ \E l \in cyc.got : l.to = p
               \/ \E i \in DOMAIN cyc.todo : cyc.todo[i].to = p
               \/ \E q \in Pits(snap) :
                     /\ \A l \in cyc.got : l.from # q
                     /\ \A i \in DOMAIN cyc.todo : cyc.todo[i].from # q

CycleInv(R) ==
    /\ cyc \in CycleRecord
    /\ cyc.phase \in {"initialize", "backfill", "evacuate", "load", "compact",
                      "discard"} => cyc.todo # <<>>
    /\ cyc.phase # "load" => cyc.got = {}
    /\ cyc.phase \in LowPhases => snap.mode = "LOW"
    /\ InitializeInv(R) /\ DiscardInv /\ BackfillInv /\ CompactInv
    /\ EvacuateInv /\ LoadLowInv /\ LoadHighInv

(* While a kill is left, the saved snapshot is good for the pans too: what *)
(* waits in memory waits there, but for what is saved after a discard.     *)
SavedInv(R) ==
    /\ saved \in Snapshot
    /\ kills < MaxKills =>
           /\ SnapInv(saved, pan, R)
           /\ cyc.phase = "idle" => saved = snap
           /\ cyc.phase # "discard" /\ snap.mode = "HIGH" /\ FreePits(snap) # {}
                  => saved.mode = "HIGH" /\ FreePits(snap) \subseteq FreePits(saved)

SchedInv(R) ==
    /\ pan \in PanTable
    /\ SnapInv(snap, pan, R) /\ CycleInv(R) /\ SavedInv(R)
    /\ SupplyTracked
    /\ up \in BOOLEAN /\ stock \in BOOLEAN /\ kills \in 0..MaxKills
    /\ Undisturbed => R = {}

(* The invariant: what is set apart are the sausages that a kill brought   *)
(* back.                                                                   *)
Sound ==
    /\ SchedInv(revived) /\ panSaved \in PanTable
    /\ revived \subseteq Full(pan, Rear)

LEMMA InvImplies ==
    Sound => SchedTypeOK /\ LowLeavesRearEmpty /\ LoadsOntoEmptyPan
<1> SUFFICES ASSUME Sound PROVE SchedTypeOK /\ LowLeavesRearEmpty /\ LoadsOntoEmptyPan
  OBVIOUS
<1> USE DEF Sound
<1>1. \A q \in Seq(StepRecord) : \A i \in DOMAIN q : q[i] \in StepRecord
  OBVIOUS
<1>2. SchedTypeOK
  BY <1>1 DEF SchedInv, CycleInv, CycleRecord, SavedInv, SchedTypeOK, PanTable,
     SnapInv, SnapCore, StepRecord, Pick
<1>3. LowLeavesRearEmpty
  BY DEF SchedInv, SnapInv, SnapCore, LowInv, LowLeavesRearEmpty, LowStable
<1>4. LoadsOntoEmptyPan
  BY DEF SchedInv, CycleInv, LoadLowInv, LoadHighInv, LoadableInv, StepsTo, Vacant,
     LoadsOntoEmptyPan
<1> QED
  BY <1>2, <1>3, <1>4

LEMMA InitInv == SchedInit => Sound
<1> SUFFICES ASSUME SchedInit PROVE Sound
  OBVIOUS
<1>1. PICK m \in {"LOW", "HIGH"} : snap = NewSnapshot(m)
  BY DEF SchedInit
<1>2. pan \in PanTable /\ Full(pan, Rear) = {} /\ revived = {}
  BY AreaFacts DEF SchedInit, NoSausages, PanTable, Full
<1>3. SnapInv(snap, pan, {}) /\ FreePits(snap) = {}
  BY <1>1, <1>2, NewKeeps
<1>4. Idle \in CycleRecord
  BY DEF Idle, CycleRecord, Phases, Zone
<1>5. CycleInv({})
  BY <1>4 DEF SchedInit, Idle, CycleInv, InitializeInv, DiscardInv, BackfillInv,
     CompactInv, EvacuateInv, LoadLowInv, LoadHighInv, LowPhases
<1>6. SavedInv({})
  BY <1>3 DEF SchedInit, SavedInv, SnapInv, SnapCore
<1>7. SchedInv({})
  BY <1>2, <1>3, <1>5, <1>6, AreaFacts DEF SchedInit, SchedInv, SupplyTracked
<1>8. panSaved \in PanTable
  BY <1>2 DEF SchedInit
<1> QED
  BY <1>2, <1>7, <1>8 DEF Sound

-----------------------------------------------------------------------------
(* The saved snapshot, and the end of a cycle.                             *)

LEMMA SavedNow ==
    ASSUME NEW R, SchedInv(R), kills' = kills, saved' = Saved(snap'),
           SnapInv(snap', pan', R)
    PROVE  SavedInv(R)'
BY DEF SchedInv, SavedInv, Saved, SnapInv, SnapCore

\* In the middle of a cycle pits are only used up.
LEMMA SavedLater ==
    ASSUME NEW R, SchedInv(R), kills' = kills, saved' = saved,
           Full(pan', Rear) \subseteq Full(pan, Rear),
           cyc'.phase # "idle",
           cyc'.phase # "discard" => cyc.phase # "discard",
           \/ cyc'.phase = "discard"
           \/ snap'.mode = snap.mode /\ FreePits(snap') \subseteq FreePits(snap)
           \/ FreePits(snap') = {}
           \/ snap'.mode = "LOW"
    PROVE  SavedInv(R)'
<1>1. kills < MaxKills => SnapInv(saved, pan', R)
  BY PanShrinks DEF SchedInv, SavedInv
<1> QED
  BY <1>1 DEF SchedInv, SavedInv

\* Only loads of high concurrency put something into the rear.
LEMMA OtherPan ==
    ASSUME pan \in PanTable, NEW p \in Pan, p \notin Rear, NEW x \in {"heating", "holding"},
           pan' = [pan EXCEPT ![p] = x]
    PROVE  pan' \in PanTable /\ Full(pan', Rear) = Full(pan, Rear)
BY AreaFacts DEF PanTable, Full

LEMMA EmptiedPan ==
    ASSUME pan \in PanTable, NEW p \in Pan, pan' = [pan EXCEPT ![p] = "empty"]
    PROVE  /\ pan' \in PanTable
           /\ Full(pan', Rear) = Full(pan, Rear) \ {p}
           /\ Vacant(pan, Pan) \subseteq Vacant(pan', Pan)
BY AreaFacts DEF PanTable, Full, Vacant

LEMMA MovedPan ==
    ASSUME pan \in PanTable, NEW p \in Pan, NEW q \in HighFront, Moves(p, q)
    PROVE  /\ pan' \in PanTable
           /\ Full(pan', Rear) = Full(pan, Rear) \ {p}
           /\ Vacant(pan, Pan) \ {q} \subseteq Vacant(pan', Pan)
<1>1. q \in Pan /\ q \notin Rear
  BY AreaFacts
<1>2. \A r \in Pan : pan'[r] = IF r = p THEN "empty" ELSE IF r = q THEN "holding" ELSE pan[r]
  BY <1>1 DEF PanTable, Moves
<1>3. pan' \in PanTable
  BY <1>1 DEF PanTable, Moves
<1> QED
  BY <1>1, <1>2, <1>3, AreaFacts DEF Full, Vacant

LEMMA StepsFacts ==
    ASSUME NEW S \in SUBSET Pan, NEW todo \in Steps(S)
    PROVE  /\ todo \in Seq(StepRecord) /\ StepsTo(todo, S) /\ DistinctTo(todo)
           /\ S # {} => todo # <<>>
<1>1. IsFiniteSet(S)
  BY SchedAssumption, FS_Subset
<1>2. PICK q \in Orders(S) : todo = [i \in DOMAIN q |-> [from |-> NoPit, to |-> q[i]]]
  BY DEF Steps, Sorted
<1>3. /\ DOMAIN q = 1..Cardinality(S) /\ Cardinality(S) \in Nat
      /\ \A i, j \in DOMAIN q : i # j => q[i] # q[j]
      /\ \A i \in DOMAIN q : q[i] \in S
      /\ \A x \in S : \E i \in DOMAIN q : q[i] = x
  BY <1>1, OrderFacts
<1>4. /\ DOMAIN todo = 1..Cardinality(S)
      /\ \A i \in 1..Cardinality(S) : todo[i] \in StepRecord /\ todo[i].to = q[i]
  BY <1>2, <1>3 DEF StepRecord
<1>5. todo \in Seq(StepRecord)
  BY <1>2, <1>3, <1>4
<1>6. S # {} => todo # <<>>
  <2> SUFFICES ASSUME S # {} PROVE todo # <<>>
    OBVIOUS
  <2>1. PICK i \in DOMAIN todo : TRUE
    BY <1>3, <1>4
  <2> QED
    BY <2>1
<1> QED
  BY <1>3, <1>4, <1>5, <1>6 DEF StepsTo, DistinctTo

\* A new place in the cycle that has nothing loaded.
LEMMA PlainCycle ==
    ASSUME NEW R, cyc' \in CycleRecord, cyc'.got = {},
           \/ cyc'.phase \in {"idle", "decide", "finalize"}
           \/ cyc'.phase \in LowPhases \ {"evacuate"} /\ snap'.mode = "LOW"
    PROVE  CycleInv(R)'
BY DEF CycleInv, InitializeInv, DiscardInv, BackfillInv, CompactInv, EvacuateInv,
   LoadLowInv, LoadHighInv, LowPhases

\* The cycle ends, or goes on with what has expired.
LEMMA FinishKeeps ==
    ASSUME NEW R, SchedInv(R), NEW s, NEW pn, pn = pan', Finish(s, pn), SnapInv(s, pn, R),
           pn \in PanTable, Full(pn, Rear) \subseteq Full(pan, Rear),
           Undisturbed => Full(pn, Rear) \subseteq Items(s, "main"),
           kills' = kills, up' \in BOOLEAN, stock' \in BOOLEAN
    PROVE  SchedInv(R)'
<1>1. PICK expired \in SUBSET HighFront :
         /\ snap' = s
         /\ IF expired = {}
            THEN cyc' = Idle /\ saved' = Saved(s)
            ELSE /\ \E todo \in Steps(expired) :
                       cyc' = [Idle EXCEPT !.phase = "discard", !.todo = todo]
                 /\ UNCHANGED saved
  BY DEF Finish, Holding
<1>2. CycleInv(R)' /\ cyc'.got = {}
  <2>1. CASE expired = {}
    <3>1. cyc' = Idle /\ Idle \in CycleRecord /\ Idle.got = {} /\ Idle.phase = "idle"
      BY <1>1, <2>1 DEF Idle, CycleRecord, Phases, Zone
    <3> QED
      BY <3>1, PlainCycle
  <2>2. CASE expired # {}
    <3>1. PICK todo \in Steps(expired) :
             cyc' = [Idle EXCEPT !.phase = "discard", !.todo = todo]
      BY <1>1, <2>2
    <3>2. todo \in Seq(StepRecord) /\ StepsTo(todo, HighFront) /\ todo # <<>>
      <4>1. expired \in SUBSET Pan
        BY AreaFacts
      <4> QED
        BY <2>2, <4>1, StepsFacts DEF StepsTo
    <3>3. /\ cyc' \in CycleRecord /\ cyc'.phase = "discard" /\ cyc'.todo = todo
          /\ cyc'.got = {}
      <4>1. cyc' = [phase |-> "discard", zone |-> "main", todo |-> todo, picks |-> <<>>,
                    got |-> {}, used |-> {}, go |-> FALSE]
        BY <3>1 DEF Idle
      <4>2. <<>> \in Seq(StepRecord)
        OBVIOUS
      <4> QED
        BY <3>2, <4>1, <4>2 DEF CycleRecord, Phases, Zone
    <3> QED
      BY <3>2, <3>3 DEF CycleInv, InitializeInv, DiscardInv, BackfillInv, CompactInv,
         EvacuateInv, LoadLowInv, LoadHighInv, LowPhases
  <2> QED
    BY <2>1, <2>2
<1>3. SavedInv(R)'
  <2>1. CASE expired = {}
    BY <1>1, <2>1, SavedNow
  <2>2. CASE expired # {}
    <3>1. cyc'.phase = "discard" /\ saved' = saved
      BY <1>1, <2>2 DEF Idle
    <3> QED
      BY <3>1, SavedLater
  <2> QED
    BY <2>1, <2>2
<1> QED
  BY <1>1, <1>2, <1>3 DEF SchedInv, SupplyTracked, Undisturbed

-----------------------------------------------------------------------------
(* The others.                                                             *)

\* Whatever is sold meanwhile: pans get empty, pits are registered.
LEMMA QuietCycle ==
    ASSUME NEW R, SchedInv(R), cyc' = cyc, kills' = kills,
           Full(pan', Rear) \subseteq Full(pan, Rear),
           Vacant(pan, Pan) \subseteq Vacant(pan', Pan),
           snap'.mode = snap.mode, snap'.batch = snap.batch,
           Items(snap', "main") = Items(snap, "main"),
           Pits(snap) \subseteq Pits(snap')
    PROVE  CycleInv(R)'
<1>1. CycleInv(R)
  BY DEF SchedInv
<1>2. /\ cyc' \in CycleRecord
      /\ cyc'.phase \in {"initialize", "backfill", "evacuate", "load", "compact",
                         "discard"} => cyc'.todo # <<>>
      /\ cyc'.phase # "load" => cyc'.got = {}
      /\ cyc'.phase \in LowPhases => snap'.mode = "LOW"
  BY <1>1 DEF CycleInv
<1>3. InitializeInv(R)' /\ DiscardInv' /\ BackfillInv' /\ CompactInv'
  BY <1>1 DEF CycleInv, InitializeInv, DiscardInv, BackfillInv, CompactInv
<1>4. \A q, z : LoadableInv(q, z) => LoadableInv(q, z)'
  BY DEF LoadableInv, StepsTo
<1>5. EvacuateInv' /\ LoadLowInv'
  BY <1>1, <1>4 DEF CycleInv, EvacuateInv, LoadLowInv
<1>6. LoadHighInv'
  BY <1>1 DEF CycleInv, LoadHighInv, StepsTo, StepsFrom, Undisturbed
<1> QED
  BY <1>2, <1>3, <1>5, <1>6 DEF CycleInv

LEMMA SaleInv ==
    ASSUME NEW R, SchedInv(R), NEW p \in HighFront, Sale(p)
    PROVE  SchedInv(R)'
<1>1. /\ cyc' = cyc /\ kills' = kills /\ stock' = stock
      /\ up' \in BOOLEAN
  BY DEF Sale, SchedInv
<1>2. /\ pan' \in PanTable
      /\ Full(pan', Rear) = Full(pan, Rear)
      /\ Vacant(pan, Pan) \subseteq Vacant(pan', Pan)
  <2>1. pan' = pan \/ pan' = [pan EXCEPT ![p] = "empty"]
    BY DEF Sale
  <2>2. pan \in PanTable /\ p \in Pan /\ p \notin Rear
    BY AreaFacts DEF SchedInv
  <2> QED
    BY <2>1, <2>2, EmptiedPan DEF Full
<1>3. SnapInv(snap, pan', R)
  BY <1>2, PanShrinks DEF SchedInv
<1>4. \/ snap' = snap /\ saved' = saved
      \/ snap' = RegisterFrontPit(snap, p) /\ saved' = Saved(snap')
  BY DEF Sale
<1>5. /\ SnapInv(snap', pan', R)
      /\ snap'.mode = snap.mode /\ snap'.batch = snap.batch
      /\ Items(snap', "main") = Items(snap, "main")
      /\ Pits(snap) \subseteq Pits(snap')
  BY <1>3, <1>4, RegisterKeeps DEF Zone
<1>6. CycleInv(R)'
  BY <1>1, <1>2, <1>5, QuietCycle
<1>7. SavedInv(R)'
  <2>1. CASE saved' = Saved(snap')
    BY <1>1, <1>5, <2>1, SavedNow
  <2>2. CASE snap' = snap /\ saved' = saved
    <3>1. kills < MaxKills => SnapInv(saved, pan', R)
      BY <1>2, PanShrinks DEF SchedInv, SavedInv
    <3> QED
      BY <1>1, <2>2, <3>1 DEF SchedInv, SavedInv
  <2> QED
    BY <1>4, <2>1, <2>2
<1> QED
  BY <1>1, <1>2, <1>5, <1>6, <1>7 DEF SchedInv, SupplyTracked, Undisturbed

LEMMA PeopleInv ==
    ASSUME NEW R, SchedInv(R), Resume \/ Restock \/ UNCHANGED coreVars
    PROVE  SchedInv(R)'
<1>1. /\ UNCHANGED <<pan, snap, saved, cyc, kills>>
      /\ up' \in BOOLEAN /\ stock' \in BOOLEAN
  BY DEF SchedInv, Resume, Restock, coreVars
<1>2. CycleInv(R)'
  BY <1>1, QuietCycle
<1>3. SavedInv(R)'
  BY <1>1 DEF SchedInv, SavedInv
<1> QED
  BY <1>1, <1>2, <1>3 DEF SchedInv, SupplyTracked, Undisturbed

\* After a kill the saved snapshot is as good as the one in memory was, but
\* for the sausages that the kill brought back.
LEMMA KillInv ==
    ASSUME NEW R, R = revived, SchedInv(R), panSaved \in PanTable, Kill,
           NEW T, T = revived'
    PROVE  SchedInv(T)' /\ panSaved' \in PanTable
<1>1. /\ kills < MaxKills /\ kills' = kills + 1
      /\ cyc' = Idle /\ snap' = saved /\ pan' = panSaved
      /\ T = Full(pan', Rear) \cap (R \cup Vacant(pan, Rear))
      /\ kills' < MaxKills => panSaved' = panSaved /\ saved' = saved
      /\ ~(kills' < MaxKills) => panSaved' = NoSausages /\ saved' = NewSnapshot("LOW")
      /\ UNCHANGED <<up, stock>>
  BY DEF Kill
<1>2. kills \in 0..MaxKills /\ kills' \in 0..MaxKills /\ kills' # 0
  BY <1>1, AreaFacts DEF SchedInv
<1>3. SnapInv(snap', pan', T)
  <2>1. SnapInv(saved, pan, R)
    BY <1>1 DEF SchedInv, SavedInv
  <2>2. /\ Full(pan', Rear) \subseteq Full(pan, Rear) \cup T
        /\ Full(pan', Rear) \cap R \subseteq T
    BY <1>1 DEF Full, Vacant
  <2> QED
    BY <1>1, <2>1, <2>2, SetApart
<1>4. CycleInv(T)'
  <2>1. cyc' = Idle /\ Idle \in CycleRecord /\ Idle.got = {} /\ Idle.phase = "idle"
    BY <1>1 DEF Idle, CycleRecord, Phases, Zone
  <2> QED
    BY <2>1, PlainCycle
<1>5. panSaved' \in PanTable /\ saved' \in Snapshot
  <2>1. NoSausages \in PanTable
    BY DEF NoSausages, PanTable
  <2>2. NewSnapshot("LOW") \in Snapshot
    <3>1. Full(NoSausages, Rear) \subseteq {}
      BY AreaFacts DEF Full, NoSausages
    <3> QED
      BY <3>1, NewKeeps DEF SnapInv, SnapCore
  <2> QED
    BY <1>1, <2>1, <2>2 DEF SchedInv, SavedInv
<1>6. SavedInv(T)'
  BY <1>1, <1>3, <1>5 DEF SavedInv
<1> QED
  BY <1>1, <1>2, <1>3, <1>4, <1>5, <1>6 DEF SchedInv, SupplyTracked, Undisturbed

-----------------------------------------------------------------------------
(* The first filling, and what has expired.                                *)

\* The same phase goes on with the rest of its steps.
LEMMA TailCycle ==
    ASSUME cyc \in CycleRecord, cyc.todo # <<>>, Len(cyc.todo) # 1,
           cyc' = [cyc EXCEPT !.todo = Tail(cyc.todo)]
    PROVE  /\ cyc' \in CycleRecord /\ cyc'.todo # <<>> /\ cyc'.todo = Tail(cyc.todo)
           /\ cyc'.phase = cyc.phase /\ cyc'.zone = cyc.zone
           /\ cyc'.got = cyc.got /\ cyc'.picks = cyc.picks
<1>1. cyc.todo \in Seq(StepRecord)
  BY DEF CycleRecord
<1>2. Tail(cyc.todo) \in Seq(StepRecord) /\ Tail(cyc.todo) # <<>>
  BY <1>1, HeadTail
<1> QED
  BY <1>2 DEF CycleRecord

\* Whatever holds of all steps holds of the next and of the rest.
LEMMA RestFacts ==
    ASSUME NEW q \in Seq(StepRecord), q # <<>>
    PROVE  /\ Head(q) \in StepRecord
           /\ \A S : StepsTo(q, S) => Head(q).to \in S /\ StepsTo(Tail(q), S)
           /\ \A S : StepsFrom(q, S) => Head(q).from \in S /\ StepsFrom(Tail(q), S)
           /\ DistinctTo(q) => /\ DistinctTo(Tail(q))
                               /\ \A i \in DOMAIN Tail(q) : Tail(q)[i].to # Head(q).to
           /\ DistinctFrom(q) => /\ DistinctFrom(Tail(q))
                                 /\ \A i \in DOMAIN Tail(q) : Tail(q)[i].from # Head(q).from
<1>1. /\ Head(q) \in StepRecord /\ Head(q) = q[1] /\ 1 \in DOMAIN q
      /\ \A i \in DOMAIN Tail(q) : /\ i + 1 \in DOMAIN q /\ i + 1 # 1
                                   /\ Tail(q)[i] = q[i + 1]
      /\ DOMAIN Tail(q) \subseteq Nat
  BY HeadTail
<1>2. \A i, j \in DOMAIN Tail(q) : i # j => i + 1 # j + 1
  BY <1>1
<1>3. \A S : StepsTo(q, S) => Head(q).to \in S /\ StepsTo(Tail(q), S)
  BY <1>1 DEF StepsTo
<1>4. \A S : StepsFrom(q, S) => Head(q).from \in S /\ StepsFrom(Tail(q), S)
  BY <1>1 DEF StepsFrom
<1>5. DistinctTo(q) => /\ DistinctTo(Tail(q))
                       /\ \A i \in DOMAIN Tail(q) : Tail(q)[i].to # Head(q).to
  BY <1>1, <1>2 DEF DistinctTo
<1>6. DistinctFrom(q) => /\ DistinctFrom(Tail(q))
                         /\ \A i \in DOMAIN Tail(q) : Tail(q)[i].from # Head(q).from
  BY <1>1, <1>2 DEF DistinctFrom
<1> QED
  BY <1>1, <1>3, <1>4, <1>5, <1>6

LEMMA InitializeKeeps ==
    ASSUME NEW R, SchedInv(R), Initialize
    PROVE  SchedInv(R)'
<1>1. /\ cyc \in CycleRecord /\ cyc.phase = "initialize" /\ cyc.todo # <<>>
      /\ Full(pan, Rear) \subseteq R /\ StepsTo(cyc.todo, HighFront) /\ cyc.got = {}
  BY DEF Initialize, SchedInv, CycleInv, InitializeInv
<1>2. /\ Head(cyc.todo).to \in HighFront /\ StepsTo(Tail(cyc.todo), HighFront)
  BY <1>1, RestFacts DEF CycleRecord
<1>3. /\ pan' \in PanTable /\ Full(pan', Rear) = Full(pan, Rear)
      /\ up' \in BOOLEAN /\ stock' \in BOOLEAN /\ kills' = kills
  <2>1. CASE Loads(Head(cyc.todo).to)
    BY <1>1, <1>2, <2>1, OtherPan, AreaFacts DEF Loads, SchedInv, Initialize
  <2>2. CASE MoveFails \/ LoadSkipped
    BY <1>1, <2>2 DEF MoveFails, LoadSkipped, SchedInv, Initialize
  <2> QED
    BY <2>1, <2>2 DEF Initialize
<1>4. SnapInv(snap, pan', R)
  BY <1>1, <1>3, PanShrinks DEF SchedInv
<1>5. CASE Finish(snap, pan')
  <2>1. Undisturbed => Full(pan', Rear) \subseteq Items(snap, "main")
    BY <1>1, <1>3 DEF SchedInv, SupplyTracked
  <2> QED
    BY <1>1, <1>3, <1>4, <1>5, <2>1, FinishKeeps
<1>6. CASE /\ Len(cyc.todo) # 1 /\ cyc' = [cyc EXCEPT !.todo = Tail(cyc.todo)]
           /\ UNCHANGED <<snap, saved>>
  <2>1. /\ cyc' \in CycleRecord /\ cyc'.todo # <<>> /\ cyc'.todo = Tail(cyc.todo)
        /\ cyc'.phase = "initialize" /\ cyc'.got = {}
    BY <1>1, <1>6, TailCycle
  <2>2. CycleInv(R)'
    BY <1>1, <1>2, <1>3, <2>1 DEF CycleInv, InitializeInv, DiscardInv, BackfillInv,
       CompactInv, EvacuateInv, LoadLowInv, LoadHighInv, LowPhases
  <2>3. SavedInv(R)'
    BY <1>1, <1>3, <1>6, <2>1, SavedLater
  <2> QED
    BY <1>3, <1>4, <1>6, <2>2, <2>3 DEF SchedInv, SupplyTracked, Undisturbed
<1> QED
  BY <1>5, <1>6 DEF Initialize

LEMMA DiscardKeeps ==
    ASSUME NEW R, SchedInv(R), Discard
    PROVE  SchedInv(R)'
<1> DEFINE p == Head(cyc.todo).to
           last == Len(cyc.todo) = 1
<1>1. /\ cyc \in CycleRecord /\ cyc.phase = "discard" /\ cyc.todo # <<>>
      /\ StepsTo(cyc.todo, HighFront) /\ cyc.got = {} /\ kills' = kills
  BY DEF Discard, SchedInv, CycleInv, DiscardInv
<1>2. p \in HighFront /\ StepsTo(Tail(cyc.todo), HighFront)
  BY <1>1, RestFacts DEF CycleRecord
<1>3. \/ /\ pan' = [pan EXCEPT ![p] = "empty"]
         /\ snap' = RegisterFrontPit(snap, p) /\ saved' = Saved(snap')
         /\ UNCHANGED <<up, stock>>
      \/ /\ MoveFails /\ snap' = snap
         /\ saved' = IF last THEN Saved(snap) ELSE saved
  BY DEF Discard
<1> HIDE DEF p
<1>4. /\ pan' \in PanTable /\ Full(pan', Rear) = Full(pan, Rear)
      /\ up' \in BOOLEAN /\ stock' \in BOOLEAN
  <2>1. pan \in PanTable /\ p \in Pan /\ p \notin Rear
        /\ up \in BOOLEAN /\ stock \in BOOLEAN
    BY <1>2, AreaFacts DEF SchedInv
  <2> QED
    BY <1>3, <2>1, EmptiedPan DEF MoveFails, Full
<1>5. SnapInv(snap, pan', R)
  BY <1>4, PanShrinks DEF SchedInv
<1>6. SnapInv(snap', pan', R) /\ Items(snap', "main") = Items(snap, "main")
  BY <1>2, <1>3, <1>5, RegisterKeeps DEF Zone
<1>7. CycleInv(R)' /\ cyc'.got = {} /\ cyc'.phase \in {"idle", "discard"}
      /\ (cyc'.phase = "idle" => last)
  <2>1. CASE last
    <3>1. cyc' = Idle /\ Idle \in CycleRecord /\ Idle.got = {} /\ Idle.phase = "idle"
      BY <2>1 DEF Discard, Idle, CycleRecord, Phases, Zone
    <3> QED
      BY <2>1, <3>1, PlainCycle
  <2>2. CASE ~last
    <3>1. cyc' = [cyc EXCEPT !.todo = Tail(cyc.todo)]
      BY <2>2 DEF Discard
    <3>2. /\ cyc' \in CycleRecord /\ cyc'.todo # <<>> /\ cyc'.todo = Tail(cyc.todo)
          /\ cyc'.phase = "discard" /\ cyc'.got = {}
      BY <1>1, <2>2, <3>1, TailCycle
    <3> QED
      BY <1>2, <3>2 DEF CycleInv, InitializeInv, DiscardInv, BackfillInv,
         CompactInv, EvacuateInv, LoadLowInv, LoadHighInv, LowPhases
  <2> QED
    BY <2>1, <2>2
<1>8. SavedInv(R)'
  <2>1. CASE saved' = Saved(snap')
    BY <1>1, <1>6, <2>1, SavedNow
  <2>2. CASE snap' = snap /\ saved' = saved /\ ~last
    BY <1>1, <1>4, <1>7, <2>2, SavedLater
  <2> QED
    BY <1>3, <2>1, <2>2
<1> QED
  BY <1>1, <1>4, <1>6, <1>7, <1>8 DEF SchedInv, SupplyTracked, Undisturbed

-----------------------------------------------------------------------------
(* The head of a cycle.                                                    *)

LEMMA MarkFacts ==
    ASSUME NEW pn \in PanTable, NEW S, NEW pm, pm = MarkHolding(pn, S)
    PROVE  pm \in PanTable /\ Full(pm, Rear) = Full(pn, Rear)
BY AreaFacts DEF PanTable, MarkHolding, Heating, Full

LEMMA RunCycleInv ==
    ASSUME NEW R, SchedInv(R), NEW over, RunCycle(over)
    PROVE  SchedInv(R)'
<1>1. PICK s0 \in Adopted(snap) :
        LET pn0 == CompleteFrontInitialization(s0, pan, over)
            s1 == UpdateBatchStates(s0, pn0, over)
            pn == UpdatedPans(s0, pn0, over)
            s2 == HoldBatchInPlace(s1)
        IN /\ pan' = pn
           /\ \/ /\ Bare(s0, pn) /\ stock
                 /\ snap' = NewSnapshot(s0.mode)
                 /\ \E todo \in Steps(FrontPlan(s0)) :
                        cyc' = [Idle EXCEPT !.phase = "initialize", !.todo = todo]
                 /\ UNCHANGED saved
              \/ /\ Bare(s0, pn)
                 /\ Finish(s1, pn)
              \/ /\ ~Bare(s0, pn)
                 /\ snap' = s2
                 /\ IF s2.batch["main"] = "READY"
                    THEN \E todo \in Steps(Items(s2, "main")) :
                            cyc' = [Idle EXCEPT !.phase = "backfill", !.todo = todo]
                    ELSE cyc' = [Idle EXCEPT !.phase = "decide"]
                 /\ UNCHANGED saved
  BY DEF RunCycle
<1> DEFINE pn0 == CompleteFrontInitialization(s0, pan, over)
           s1 == UpdateBatchStates(s0, pn0, over)
           pn == UpdatedPans(s0, pn0, over)
           s2 == HoldBatchInPlace(s1)
<1>2. /\ cyc.phase = "idle" /\ cyc.got = {}
      /\ up' = up /\ stock' = stock /\ kills' = kills
      /\ up \in BOOLEAN /\ stock \in BOOLEAN
  BY DEF RunCycle, SchedInv, CycleInv
<1>3. pan' = pn
  BY <1>1
<1>4. pn \in PanTable /\ Full(pn, Rear) = Full(pan, Rear)
  <2>1. pan \in PanTable
    BY DEF SchedInv
  <2>2. pn0 \in PanTable /\ Full(pn0, Rear) = Full(pan, Rear)
    BY <2>1, MarkFacts DEF CompleteFrontInitialization
  <2> HIDE DEF pn0
  <2> QED
    BY <2>2, MarkFacts DEF UpdatedPans
<1>5. /\ SnapInv(s0, pn, R) /\ s0.item = snap.item /\ FreePits(s0) = FreePits(snap)
      /\ s0.mode # snap.mode => FreePits(s0) = {}
      /\ Items(s0, "main") = Items(snap, "main")
  <2>1. SnapInv(snap, pn, R)
    BY <1>4, PanShrinks DEF SchedInv
  <2> HIDE DEF pn
  <2>2. /\ SnapInv(s0, pn, R) /\ s0.item = snap.item /\ FreePits(s0) = FreePits(snap)
        /\ s0.mode # snap.mode => FreePits(s0) = {}
    BY <2>1, AdoptedKeeps
  <2> QED
    BY <2>2 DEF Items
<1> HIDE DEF pn, pn0
<1>6. /\ SnapInv(s1, pn, R) /\ s1.mode = s0.mode /\ FreePits(s1) = FreePits(s0)
      /\ Items(s1, "main") = Items(snap, "main")
  <2>1. /\ SnapInv(s1, pn, R) /\ s1.mode = s0.mode /\ FreePits(s1) = FreePits(s0)
        /\ s1.item = s0.item
    BY <1>5, UpdateKeeps
  <2> QED
    BY <1>5, <2>1 DEF Items
<1> HIDE DEF s1
<1>7. /\ SnapInv(s2, pn, R) /\ s2.mode = s1.mode /\ FreePits(s2) \subseteq FreePits(s1)
      /\ Items(s2, "main") = Items(snap, "main")
  <2>1. s2 = HoldBatchInPlace(s1)
    OBVIOUS
  <2> HIDE DEF s2
  <2> QED
    BY <1>6, <2>1, HoldKeeps
<1> HIDE DEF s2
<1>8. Undisturbed => Full(pn, Rear) \subseteq Items(snap, "main")
  BY <1>2, <1>4 DEF SchedInv, SupplyTracked
<1>9. <<>> \in Seq(StepRecord) /\ IsFiniteSet({})
  BY FS_EmptySet
<1>10. CASE /\ Bare(s0, pn)
            /\ snap' = NewSnapshot(s0.mode)
            /\ \E todo \in Steps(FrontPlan(s0)) :
                   cyc' = [Idle EXCEPT !.phase = "initialize", !.todo = todo]
            /\ UNCHANGED saved
  <2>1. s0.mode \in {"LOW", "HIGH"}
    BY <1>5 DEF SnapInv, SnapCore, Snapshot
  <2>2. Full(pn, Rear) \subseteq R
    BY <1>5, <1>10, <2>1 DEF Bare, SnapInv, SnapCore, LowInv
  <2>3. SnapInv(snap', pan', R) /\ FreePits(snap') = {}
    BY <1>3, <1>10, <2>1, <2>2, NewKeeps
  <2>4. PICK todo \in Steps(FrontPlan(s0)) :
           cyc' = [Idle EXCEPT !.phase = "initialize", !.todo = todo]
    BY <1>10
  <2>5. todo \in Seq(StepRecord) /\ StepsTo(todo, HighFront) /\ todo # <<>>
    <3>1. /\ FrontPlan(s0) \in SUBSET Pan /\ FrontPlan(s0) \subseteq HighFront
          /\ FrontPlan(s0) # {}
      BY AreaFacts DEF FrontPlan
    <3> QED
      BY <3>1, StepsFacts DEF StepsTo
  <2>6. cyc' = [phase |-> "initialize", zone |-> "main", todo |-> todo, picks |-> <<>>,
                got |-> {}, used |-> {}, go |-> FALSE]
    BY <2>4 DEF Idle
  <2>7. /\ cyc' \in CycleRecord /\ cyc'.phase = "initialize" /\ cyc'.todo = todo
        /\ cyc'.got = {}
    BY <1>9, <2>5, <2>6 DEF CycleRecord, Phases, Zone
  <2>8. CycleInv(R)'
    BY <1>3, <2>2, <2>5, <2>7 DEF CycleInv, InitializeInv, DiscardInv, BackfillInv,
       CompactInv, EvacuateInv, LoadLowInv, LoadHighInv, LowPhases
  <2>9. SavedInv(R)'
    BY <1>2, <1>3, <1>4, <1>10, <2>3, <2>7, SavedLater
  <2> QED
    BY <1>2, <1>3, <1>4, <2>2, <2>3, <2>8, <2>9
       DEF SchedInv, SupplyTracked, Undisturbed
<1>11. CASE Finish(s1, pn)
  BY <1>2, <1>3, <1>4, <1>6, <1>8, <1>11, FinishKeeps
<1>12. CASE /\ snap' = s2
            /\ IF s2.batch["main"] = "READY"
               THEN \E todo \in Steps(Items(s2, "main")) :
                       cyc' = [Idle EXCEPT !.phase = "backfill", !.todo = todo]
               ELSE cyc' = [Idle EXCEPT !.phase = "decide"]
            /\ UNCHANGED saved
  <2>1. CycleInv(R)' /\ cyc'.phase \in {"backfill", "decide"} /\ cyc'.got = {}
    <3>1. CASE s2.batch["main"] = "READY"
      <4>1. PICK todo \in Steps(Items(s2, "main")) :
               cyc' = [Idle EXCEPT !.phase = "backfill", !.todo = todo]
        BY <1>12, <3>1
      <4>2. Items(s2, "main") \in SUBSET Pan /\ Items(s2, "main") # {}
        BY <1>7, <3>1, ZoneFacts, AreaFacts DEF SnapInv, Items
      <4>3. /\ todo \in Seq(StepRecord) /\ StepsTo(todo, Items(s2, "main"))
            /\ DistinctTo(todo) /\ todo # <<>>
        BY <4>2, StepsFacts
      <4>4. cyc' = [phase |-> "backfill", zone |-> "main", todo |-> todo,
                    picks |-> <<>>, got |-> {}, used |-> {}, go |-> FALSE]
        BY <4>1 DEF Idle
      <4>5. /\ cyc' \in CycleRecord /\ cyc'.phase = "backfill" /\ cyc'.todo = todo
            /\ cyc'.got = {}
        BY <1>9, <4>3, <4>4 DEF CycleRecord, Phases, Zone
      <4> QED
        BY <1>12, <4>3, <4>5 DEF CycleInv, InitializeInv, DiscardInv, BackfillInv,
           CompactInv, EvacuateInv, LoadLowInv, LoadHighInv, LowPhases
    <3>2. CASE s2.batch["main"] # "READY"
      <4>1. cyc' = [phase |-> "decide", zone |-> "main", todo |-> <<>>,
                    picks |-> <<>>, got |-> {}, used |-> {}, go |-> FALSE]
        BY <1>12, <3>2 DEF Idle
      <4>2. cyc' \in CycleRecord /\ cyc'.phase = "decide" /\ cyc'.got = {}
        BY <1>9, <4>1 DEF CycleRecord, Phases, Zone
      <4> QED
        BY <4>2, PlainCycle
    <3> QED
      BY <3>1, <3>2
  <2>2. SavedInv(R)'
    <3>1. \/ snap'.mode = snap.mode /\ FreePits(snap') \subseteq FreePits(snap)
          \/ FreePits(snap') = {}
      BY <1>5, <1>6, <1>7, <1>12
    <3>2. Full(pan', Rear) \subseteq Full(pan, Rear)
      BY <1>3, <1>4
    <3> QED
      BY <1>2, <1>12, <2>1, <3>1, <3>2, SavedLater
  <2> QED
    BY <1>2, <1>3, <1>4, <1>7, <1>8, <1>12, <2>1, <2>2
       DEF SchedInv, SupplyTracked, Undisturbed
<1> QED
  BY <1>1, <1>10, <1>11, <1>12 DEF pn, pn0, s1, s2

-----------------------------------------------------------------------------
(* Back filling.                                                           *)

LEMMA GotoCycle ==
    ASSUME cyc \in CycleRecord, NEW ph \in Phases, Goto(ph)
    PROVE  cyc' \in CycleRecord /\ cyc'.phase = ph /\ cyc'.got = cyc.got
<1>1. cyc' = [phase |-> ph, zone |-> cyc.zone, todo |-> <<>>, picks |-> cyc.picks,
              got |-> cyc.got, used |-> {}, go |-> cyc.go]
  BY DEF CycleRecord, Goto
<1>2. <<>> \in Seq(StepRecord)
  OBVIOUS
<1> QED
  BY <1>1, <1>2 DEF CycleRecord

\* One item is done or left: the next is at work, or the batch is closed.
LEMMA NextItem ==
    ASSUME NEW R, SchedInv(R), cyc.phase = "backfill", NEW s, SnapCore(s, pan', R),
           s.mode = snap.mode, FreePits(s) \subseteq FreePits(snap),
           \/ AfterItem(s)
           \/ /\ Len(cyc.todo) # 1 /\ snap' = s
              /\ \E q \in HighFront : cyc' = [cyc EXCEPT !.todo = Tail(cyc.todo),
                                                         !.used = cyc.used \cup {q}],
           StepsTo(Tail(cyc.todo), Items(s, "main")),
           pan' \in PanTable, Full(pan', Rear) \subseteq Full(pan, Rear),
           Undisturbed => Full(pan', Rear) \subseteq Items(s, "main"),
           UNCHANGED <<saved, kills>>, up' \in BOOLEAN, stock' \in BOOLEAN
    PROVE  SchedInv(R)'
<1>1. /\ cyc \in CycleRecord /\ cyc.todo \in Seq(StepRecord) /\ cyc.todo # <<>>
      /\ cyc.got = {} /\ DistinctTo(cyc.todo)
  BY DEF SchedInv, CycleInv, CycleRecord, BackfillInv
<1>2. CASE Len(cyc.todo) = 1
  <2>1. /\ snap' = IF Items(s, "main") = {}
                   THEN [s EXCEPT !.batch["main"] = "none"] ELSE s
        /\ Goto("decide")
    BY <1>2 DEF AfterItem
  <2>2. /\ SnapInv(snap', pan', R) /\ snap'.mode = s.mode
        /\ Items(snap', "main") = Items(s, "main")
        /\ FreePits(snap') = FreePits(s)
    BY <2>1, CloseKeeps
  <2>3. /\ cyc' \in CycleRecord /\ cyc'.phase = "decide" /\ cyc'.got = {}
    BY <1>1, <2>1, GotoCycle DEF Phases
  <2>4. CycleInv(R)'
    BY <2>3, PlainCycle
  <2>5. SavedInv(R)'
    BY <2>2, <2>3, SavedLater
  <2> QED
    BY <2>2, <2>3, <2>4, <2>5 DEF SchedInv, SupplyTracked, Undisturbed
<1>3. CASE Len(cyc.todo) # 1
  <2>1. snap' = s
    BY <1>3 DEF AfterItem
  <2>2. Tail(cyc.todo) \in Seq(StepRecord) /\ Tail(cyc.todo) # <<>>
    BY <1>1, <1>3, HeadTail
  <2>3. /\ cyc' \in CycleRecord /\ cyc'.phase = "backfill" /\ cyc'.got = {}
        /\ cyc'.todo = Tail(cyc.todo)
    <3>1. CASE cyc' = [cyc EXCEPT !.todo = Tail(cyc.todo)]
      BY <1>1, <1>3, <3>1, TailCycle
    <3>2. CASE \E q \in HighFront : cyc' = [cyc EXCEPT !.todo = Tail(cyc.todo),
                                                       !.used = cyc.used \cup {q}]
      <4>1. PICK q \in HighFront : cyc' = [cyc EXCEPT !.todo = Tail(cyc.todo),
                                                     !.used = cyc.used \cup {q}]
        BY <3>2
      <4>2. cyc' = [phase |-> cyc.phase, zone |-> cyc.zone, todo |-> Tail(cyc.todo),
                    picks |-> cyc.picks, got |-> cyc.got,
                    used |-> cyc.used \cup {q}, go |-> cyc.go]
        BY <1>1, <4>1 DEF CycleRecord
      <4> QED
        BY <1>1, <2>2, <4>2 DEF CycleRecord
    <3> QED
      BY <1>3, <3>1, <3>2 DEF AfterItem
  <2>4. Items(s, "main") # {}
    <3>1. 1 \in DOMAIN Tail(cyc.todo)
      BY <2>2, HeadTail
    <3> QED
      BY <3>1 DEF StepsTo
  <2>5. SnapInv(snap', pan', R)
    BY <2>1, <2>4 DEF SnapInv
  <2>6. DistinctTo(Tail(cyc.todo))
    BY <1>1, RestFacts
  <2>7. CycleInv(R)'
    BY <2>1, <2>2, <2>3, <2>6 DEF CycleInv, InitializeInv, DiscardInv, BackfillInv,
       CompactInv, EvacuateInv, LoadLowInv, LoadHighInv, LowPhases
  <2>8. SavedInv(R)'
    BY <2>1, <2>3, SavedLater
  <2> QED
    BY <2>1, <2>3, <2>5, <2>7, <2>8 DEF SchedInv, SupplyTracked, Undisturbed
<1> QED
  BY <1>2, <1>3

LEMMA BackfillKeeps ==
    ASSUME NEW R, SchedInv(R), Backfill
    PROVE  SchedInv(R)'
<1> DEFINE p == Head(cyc.todo).to
<1>1. /\ cyc.phase = "backfill" /\ cyc \in CycleRecord
      /\ cyc.todo \in Seq(StepRecord) /\ cyc.todo # <<>> /\ cyc.got = {}
      /\ StepsTo(cyc.todo, Items(snap, "main")) /\ DistinctTo(cyc.todo)
  BY DEF Backfill, SchedInv, CycleInv, CycleRecord, BackfillInv
<1>2. /\ p \in Items(snap, "main") /\ StepsTo(Tail(cyc.todo), Items(snap, "main"))
      /\ \A i \in DOMAIN Tail(cyc.todo) : Tail(cyc.todo)[i].to # p
  BY <1>1, RestFacts
<1>3. StepsTo(Tail(cyc.todo), Items(snap, "main") \ {p})
  BY <1>2 DEF StepsTo
<1>4. p \in Rear /\ p \in Pan
  BY <1>2, ZoneFacts, AreaFacts DEF Items
<1>5. /\ pan \in PanTable /\ SnapInv(snap, pan, R) /\ SnapCore(snap, pan, R)
      /\ up \in BOOLEAN /\ stock \in BOOLEAN
      /\ Undisturbed => Full(pan, Rear) \subseteq Items(snap, "main")
      /\ UNCHANGED <<saved, kills>>
  BY <1>1 DEF SchedInv, SnapInv, SupplyTracked, Backfill
<1>6. CASE /\ pan[p] = "empty" /\ AfterItem(Complete(snap, p))
           /\ UNCHANGED <<pan, up, stock>>
  <2> DEFINE t == Complete(snap, p)
  <2>1. Full(pan', Rear) = Full(pan, Rear) /\ p \notin Full(pan, Rear)
    BY <1>6 DEF Full
  <2> HIDE DEF p
  <2>2. /\ SnapCore(t, pan', R) /\ t.mode = snap.mode
        /\ Items(t, "main") = Items(snap, "main") \ {p}
        /\ FreePits(t) = FreePits(snap)
    <3>1. Full(pan', Rear) \subseteq Full(pan, Rear) \ {p}
      BY <2>1
    <3> HIDE DEF t
    <3>2. t = Complete(snap, p)
      BY DEF t
    <3> QED
      BY <1>4, <1>5, <3>1, <3>2, CompleteKeeps
  <2> HIDE DEF t
  <2>3. AfterItem(t)
    BY <1>6 DEF t
  <2>4. Undisturbed => Full(pan', Rear) \subseteq Items(t, "main")
    BY <1>5, <2>1, <2>2
  <2> QED
    BY <1>1, <1>3, <1>5, <1>6, <2>1, <2>2, <2>3, <2>4, NextItem
<1>7. CASE AfterItem(snap) /\ UNCHANGED <<pan, up, stock>>
  BY <1>1, <1>2, <1>5, <1>7, NextItem
<1>8. ASSUME NEW q \in IF Targets(snap) = {} THEN {snap.item[p].target}
                       ELSE Targets(snap),
             NEW s, s = [snap EXCEPT !.item[p].target = q],
             \/ /\ Moves(p, q)
                /\ LET t == Complete(s, p)
                   IN IF Len(cyc.todo) = 1
                      THEN AfterItem(t)
                      ELSE /\ snap' = t
                           /\ cyc' = [cyc EXCEPT !.todo = Tail(@), !.used = @ \cup {q}]
             \/ /\ MoveFails /\ snap' = s /\ Goto("decide")
      PROVE  SchedInv(R)'
  <2>1. q \in HighFront \/ q = snap.item[p].target
    BY <1>8, AreaFacts DEF Targets, FrontPlan, Vacant
  <2> HIDE DEF p
  <2>2. /\ SnapInv(s, pan, R) /\ q \in HighFront /\ s.mode = snap.mode
        /\ Items(s, "main") = Items(snap, "main") /\ FreePits(s) = FreePits(snap)
    BY <1>2, <1>5, <1>8, <2>1, RetargetKeeps
  <2>3. CASE MoveFails /\ snap' = s /\ Goto("decide")
    <3>1. cyc' \in CycleRecord /\ cyc'.phase = "decide" /\ cyc'.got = {}
      BY <1>1, <2>3, GotoCycle DEF Phases
    <3>2. CycleInv(R)'
      BY <3>1, PlainCycle
    <3>3. pan' = pan /\ up' \in BOOLEAN /\ stock' = stock
      BY <2>3 DEF MoveFails
    <3>4. SavedInv(R)'
      BY <1>1, <1>5, <2>2, <2>3, <3>1, <3>3, SavedLater
    <3> QED
      BY <1>5, <2>2, <2>3, <3>1, <3>2, <3>3, <3>4
         DEF SchedInv, SupplyTracked, Undisturbed
  <2>4. CASE /\ Moves(p, q)
             /\ LET t == Complete(s, p)
                IN IF Len(cyc.todo) = 1
                   THEN AfterItem(t)
                   ELSE /\ snap' = t
                        /\ cyc' = [cyc EXCEPT !.todo = Tail(@), !.used = @ \cup {q}]
    <3> DEFINE t == Complete(s, p)
    <3>1. /\ pan' \in PanTable /\ Full(pan', Rear) = Full(pan, Rear) \ {p}
          /\ up' = up /\ stock' = stock
      BY <1>4, <1>5, <2>2, <2>4, MovedPan DEF Moves
    <3>2. /\ SnapCore(t, pan', R) /\ t.mode = s.mode
          /\ Items(t, "main") = Items(s, "main") \ {p}
          /\ FreePits(t) = FreePits(s)
      <4>1. SnapCore(s, pan, R) /\ Full(pan', Rear) \subseteq Full(pan, Rear) \ {p}
        BY <2>2, <3>1 DEF SnapInv
      <4> HIDE DEF t
      <4>2. t = Complete(s, p)
        BY DEF t
      <4> QED
        BY <1>4, <4>1, <4>2, CompleteKeeps
    <3>3. \/ AfterItem(t)
          \/ /\ Len(cyc.todo) # 1 /\ snap' = t
             /\ \E r \in HighFront : cyc' = [cyc EXCEPT !.todo = Tail(cyc.todo),
                                                        !.used = cyc.used \cup {r}]
      BY <2>2, <2>4
    <3> HIDE DEF t
    <3>4. Undisturbed => Full(pan', Rear) \subseteq Items(t, "main")
      BY <1>5, <2>2, <3>1, <3>2
    <3>5. /\ t.mode = snap.mode /\ FreePits(t) \subseteq FreePits(snap)
          /\ StepsTo(Tail(cyc.todo), Items(t, "main"))
          /\ Full(pan', Rear) \subseteq Full(pan, Rear)
      BY <1>3, <2>2, <3>1, <3>2
    <3> QED
      BY <1>1, <1>5, <3>1, <3>2, <3>3, <3>4, <3>5, NextItem
  <2> QED
    BY <1>8, <2>3, <2>4
<1> QED
  BY <1>6, <1>7, <1>8 DEF Backfill

-----------------------------------------------------------------------------
(* Launching a batch.                                                      *)

LEMMA PicksFacts ==
    ASSUME NEW R, SchedInv(R), NEW z \in Zone, ZonePans[z] # {}, NEW picks \in Picks(z)
    PROVE  /\ picks \in Seq(StepRecord) /\ picks # <<>>
           /\ StepsTo(picks, ZonePans[z]) /\ DistinctTo(picks)
           /\ StepsFrom(picks, OpenPits(snap)) /\ DistinctFrom(picks)
           /\ \A p \in ZonePans[z] : \E i \in DOMAIN picks : picks[i].to = p
<1> DEFINE n == Cardinality(ZonePans[z])
<1>1. IsFiniteSet(ZonePans[z]) /\ ZonePans[z] \subseteq Pan /\ OpenPits(snap) \subseteq Pan
  BY ZoneFacts, AreaFacts DEF OpenPits
<1>2. PICK f \in Injection(1..n, OpenPits(snap)), S \in Orders(ZonePans[z]) :
         picks = [i \in 1..n |-> [from |-> f[i], to |-> S[i]]]
  BY DEF Picks, Sorted
<1>3. /\ f \in [1..n -> OpenPits(snap)]
      /\ \A i, j \in 1..n : f[i] = f[j] => i = j
  BY DEF Injection, IsInjective
<1>4. /\ DOMAIN S = 1..n /\ n \in Nat
      /\ \A i, j \in 1..n : i # j => S[i] # S[j]
      /\ \A i \in 1..n : S[i] \in ZonePans[z]
      /\ \A x \in ZonePans[z] : \E i \in 1..n : S[i] = x
  BY <1>1, OrderFacts
<1> HIDE DEF n
<1>5. /\ DOMAIN picks = 1..n
      /\ \A i \in 1..n : picks[i].from = f[i] /\ picks[i].to = S[i] /\ picks[i] \in StepRecord
  BY <1>1, <1>2, <1>3, <1>4 DEF StepRecord
<1>6. picks \in Seq(StepRecord)
  BY <1>2, <1>4, <1>5
<1>7. picks # <<>>
  <2>1. PICK i \in DOMAIN picks : TRUE
    BY <1>4, <1>5
  <2> QED
    BY <2>1
<1> QED
  BY <1>3, <1>4, <1>5, <1>6, <1>7 DEF StepsTo, StepsFrom, DistinctTo, DistinctFrom

\* A place in the cycle that remembers nothing but whether to go on.
LEMMA IdleAt ==
    ASSUME NEW ph \in Phases, NEW go \in BOOLEAN,
           cyc' = [Idle EXCEPT !.phase = ph, !.go = go]
    PROVE  cyc' \in CycleRecord /\ cyc'.phase = ph /\ cyc'.got = {}
<1>1. cyc' = [phase |-> ph, zone |-> "main", todo |-> <<>>, picks |-> <<>>,
              got |-> {}, used |-> {}, go |-> go]
  BY DEF Idle
<1>2. <<>> \in Seq(StepRecord) /\ "main" \in Zone
  BY DEF Zone
<1> QED
  BY <1>1, <1>2 DEF CycleRecord, Idle

LEMMA LaunchRecord ==
    ASSUME NEW z \in Zone, NEW picks \in Seq(StepRecord), NEW go \in BOOLEAN,
           Launch(z, picks, go)
    PROVE  /\ cyc' \in CycleRecord /\ cyc'.phase = "load" /\ cyc'.zone = z
           /\ cyc'.todo = picks /\ cyc'.got = {}
<1>1. cyc' = [phase |-> "load", zone |-> z, todo |-> picks, picks |-> <<>>,
              got |-> {}, used |-> {}, go |-> go]
  BY DEF Idle, Launch
<1>2. <<>> \in Seq(StepRecord)
  OBVIOUS
<1> QED
  BY <1>1, <1>2 DEF CycleRecord, Phases

\* In low concurrency every snapshot of the cycle is good for the saved one.
LEMMA LowStep ==
    ASSUME NEW R, SchedInv(R), cyc.phase \notin {"idle", "discard"},
           cyc'.phase \notin {"idle", "discard"},
           pan' \in PanTable, Full(pan', Rear) \subseteq Full(pan, Rear),
           SnapInv(snap', pan', R), snap'.mode = "LOW", CycleInv(R)',
           UNCHANGED <<saved, kills>>, up' \in BOOLEAN, stock' \in BOOLEAN
    PROVE  SchedInv(R)'
<1>1. Full(pan', Rear) \subseteq R
  BY DEF SnapInv, SnapCore, LowInv
<1>2. SavedInv(R)'
  BY SavedLater
<1> QED
  BY <1>1, <1>2 DEF SchedInv, SupplyTracked, Undisturbed

LEMMA DecideLowKeeps ==
    ASSUME NEW R, SchedInv(R), DecideLow
    PROVE  SchedInv(R)'
<1>1. /\ cyc.phase = "decide" /\ snap.mode = "LOW" /\ SnapInv(snap, pan, R)
      /\ snap' = ReconcileLowFrontPits(snap)
      /\ UNCHANGED <<pan, saved, up, stock, kills>>
      /\ pan \in PanTable /\ up \in BOOLEAN /\ stock \in BOOLEAN
  BY DEF DecideLow, LowStable, SchedInv
<1>2. PICK go \in BOOLEAN : cyc' = [Idle EXCEPT !.phase = "primary", !.go = go]
  BY <1>1 DEF DecideLow, MayGo
<1>3. cyc' \in CycleRecord /\ cyc'.phase = "primary" /\ cyc'.got = {}
  BY <1>2, IdleAt DEF Phases
<1>4. /\ snap' \in Snapshot /\ snap'.mode = "LOW" /\ snap'.transition = snap.transition
      /\ snap'.item = snap.item /\ snap'.batch = snap.batch
  BY <1>1 DEF ReconcileLowFrontPits, SnapInv, SnapCore, Snapshot
<1>5. SnapInv(snap', pan', R)
  BY <1>1, <1>4, PitsKeep
<1>6. CycleInv(R)'
  BY <1>3, <1>4, PlainCycle DEF LowPhases
<1> QED
  BY <1>1, <1>3, <1>4, <1>5, <1>6, LowStep

LEMMA LaunchLowKeeps ==
    ASSUME NEW R, SchedInv(R), NEW z \in LowZones, LaunchLow(z)
    PROVE  SchedInv(R)'
<1>1. /\ cyc.phase = z /\ snap.mode = "LOW" /\ SnapInv(snap, pan, R)
      /\ cyc \in CycleRecord /\ cyc.got = {} /\ cyc.go \in BOOLEAN
      /\ UNCHANGED <<pan, snap, saved, up, stock, kills>>
      /\ pan \in PanTable /\ up \in BOOLEAN /\ stock \in BOOLEAN
      /\ z \notin {"idle", "discard", "load"} /\ z \in Zone /\ z # "main"
  BY ZoneFacts DEF LaunchLow, SchedInv, CycleInv, LowPhases, LowZones, CycleRecord
<1>2. ASSUME ZoneFree(z), NEW picks \in Picks(z)
      PROVE  picks \in Seq(StepRecord) /\ LoadableInv(picks, z)
  <2>1. /\ ZonePans[z] # {} /\ ZonePans[z] \subseteq Vacant(pan, Pan)
    BY <1>1, <1>2, ZoneFacts, AreaFacts DEF ZoneFree, Full, Vacant
  <2>2. /\ picks \in Seq(StepRecord) /\ picks # <<>>
        /\ StepsTo(picks, ZonePans[z]) /\ DistinctTo(picks)
        /\ StepsFrom(picks, OpenPits(snap))
    BY <1>1, <2>1, PicksFacts
  <2> QED
    BY <2>1, <2>2 DEF LoadableInv, StepsTo, StepsFrom, OpenPits
<1>3. CycleInv(R)' /\ cyc'.phase \notin {"idle", "discard"}
  <2>1. ASSUME NEW picks \in Picks(z), ZoneFree(z), Launch(z, picks, TRUE)
        PROVE  CycleInv(R)' /\ cyc'.phase \notin {"idle", "discard"}
    <3>1. picks \in Seq(StepRecord) /\ LoadableInv(picks, z)
      BY <1>2, <2>1
    <3>2. /\ cyc' \in CycleRecord /\ cyc'.phase = "load" /\ cyc'.zone = z
          /\ cyc'.todo = picks /\ cyc'.got = {}
      BY <1>1, <2>1, <3>1, LaunchRecord
    <3>3. LoadableInv(picks, z)'
      BY <1>1, <3>1 DEF LoadableInv
    <3> QED
      BY <1>1, <3>2, <3>3 DEF CycleInv, InitializeInv, DiscardInv, BackfillInv,
         CompactInv, EvacuateInv, LoadLowInv, LoadHighInv, LowPhases, LoadableInv
  <2>2. ASSUME NEW picks \in Picks(z), ZoneFree(z), Sources(z) # {},
               NEW moves \in Evacuations(z),
               cyc' = [cyc EXCEPT !.phase = "evacuate", !.zone = z,
                                  !.todo = moves, !.picks = picks]
        PROVE  CycleInv(R)' /\ cyc'.phase \notin {"idle", "discard"}
    <3>1. picks \in Seq(StepRecord) /\ LoadableInv(picks, z)
      BY <1>2, <2>2
    <3>2. /\ moves \in Seq(StepRecord) /\ moves # <<>>
          /\ StepsTo(moves, Front) /\ StepsFrom(moves, LowPans)
      <4> DEFINE n == Cardinality(Sources(z))
      <4>1. /\ Sources(z) \subseteq LowPans /\ Sources(z) \in SUBSET Pan
            /\ IsFiniteSet(Sources(z)) /\ Vacant(pan, Front) \subseteq Front
        <5>1. Sources(z) \subseteq LowPans
          BY ZoneFacts DEF Sources, Holding
        <5>2. Sources(z) \in SUBSET Pan
          BY <5>1, AreaFacts
        <5> QED
          BY <5>1, <5>2, SchedAssumption, FS_Subset DEF Vacant
      <4>2. PICK f \in Injection(1..n, Vacant(pan, Front)), S \in Orders(Sources(z)) :
               moves = [i \in 1..n |-> [from |-> S[i], to |-> f[i]]]
        BY <2>2 DEF Evacuations, Sorted
      <4>3. f \in [1..n -> Vacant(pan, Front)]
        BY DEF Injection
      <4>4. /\ n \in Nat
            /\ \A i \in 1..n : S[i] \in Sources(z)
            /\ \A x \in Sources(z) : \E i \in 1..n : S[i] = x
        BY <4>1, OrderFacts
      <4> HIDE DEF n
      <4>5. /\ DOMAIN moves = 1..n
            /\ \A i \in 1..n : /\ moves[i] \in StepRecord
                               /\ moves[i].from \in LowPans /\ moves[i].to \in Front
        BY <4>1, <4>2, <4>3, <4>4, AreaFacts DEF StepRecord
      <4>6. moves \in Seq(StepRecord)
        BY <4>2, <4>4, <4>5
      <4>7. moves # <<>>
        <5>1. PICK i \in DOMAIN moves : TRUE
          BY <2>2, <4>4, <4>5
        <5> QED
          BY <5>1
      <4> QED
        BY <4>5, <4>6, <4>7 DEF StepsTo, StepsFrom
    <3>3. /\ cyc' \in CycleRecord /\ cyc'.phase = "evacuate" /\ cyc'.zone = z
          /\ cyc'.todo = moves /\ cyc'.picks = picks /\ cyc'.got = {}
      <4>1. cyc' = [phase |-> "evacuate", zone |-> z, todo |-> moves, picks |-> picks,
                    got |-> cyc.got, used |-> cyc.used, go |-> cyc.go]
        BY <1>1, <2>2 DEF CycleRecord
      <4> QED
        BY <1>1, <3>1, <3>2, <4>1 DEF CycleRecord, Phases
    <3>4. LoadableInv(picks, z)'
      BY <1>1, <3>1 DEF LoadableInv
    <3> QED
      BY <1>1, <3>2, <3>3, <3>4 DEF CycleInv, InitializeInv, DiscardInv, BackfillInv,
         CompactInv, EvacuateInv, LoadLowInv, LoadHighInv, LowPhases
  <2>3. ASSUME cyc' = [Idle EXCEPT !.phase = Following[z], !.go = cyc.go]
        PROVE  CycleInv(R)' /\ cyc'.phase \notin {"idle", "discard"}
    <3>1. Following[z] \in {"secondary", "threshold"}
      BY DEF Following, LowZones
    <3>2. cyc' \in CycleRecord /\ cyc'.phase = Following[z] /\ cyc'.got = {}
      BY <1>1, <2>3, <3>1, IdleAt DEF Phases
    <3> QED
      BY <1>1, <3>1, <3>2, PlainCycle DEF LowPhases
  <2> QED
    BY <2>1, <2>2, <2>3 DEF LaunchLow
<1> QED
  BY <1>1, <1>3, LowStep

\* A pit that is fulfilled by an evacuation is nobody's.
LEMMA ForgetKeeps ==
    ASSUME NEW R, NEW s, NEW pn, SnapInv(s, pn, R), s.mode = "LOW", NEW q,
           NEW t, t = ForgetPit(s, q)
    PROVE  SnapInv(t, pn, R) /\ t.mode = "LOW"
<1>1. s \in Snapshot /\ ItemsWhole(s)
  BY DEF SnapInv, SnapCore
<1>2. /\ t \in Snapshot /\ ItemsWhole(t)
      /\ t.mode = s.mode /\ t.transition = s.transition /\ t.batch = s.batch
      /\ \A z \in Zone : Items(t, z) = Items(s, z)
  BY <1>1, ForgetFields
<1> QED
  BY <1>2 DEF SnapInv, SnapCore, LowInv, HighInv, Zone

LEMMA EvacuateKeeps ==
    ASSUME NEW R, SchedInv(R), Evacuate
    PROVE  SchedInv(R)'
<1> DEFINE mv == Head(cyc.todo)
           picks == [i \in DOMAIN cyc.picks |->
                        IF cyc.picks[i].from = mv.to
                        THEN [cyc.picks[i] EXCEPT !.from = NoPit] ELSE cyc.picks[i]]
<1>1. /\ cyc.phase = "evacuate" /\ snap.mode = "LOW" /\ SnapInv(snap, pan, R)
      /\ cyc \in CycleRecord /\ cyc.todo \in Seq(StepRecord) /\ cyc.picks \in Seq(StepRecord)
      /\ cyc.todo # <<>> /\ cyc.got = {} /\ cyc.go \in BOOLEAN
      /\ cyc.zone \in LowZones
      /\ StepsTo(cyc.todo, Front) /\ StepsFrom(cyc.todo, LowPans)
      /\ LoadableInv(cyc.picks, cyc.zone)
      /\ UNCHANGED <<saved, kills>>
      /\ pan \in PanTable /\ up \in BOOLEAN /\ stock \in BOOLEAN
  BY DEF Evacuate, SchedInv, CycleInv, EvacuateInv, LowPhases, CycleRecord
<1>2. /\ mv.to \in Front /\ mv.from \in LowPans
      /\ StepsTo(Tail(cyc.todo), Front) /\ StepsFrom(Tail(cyc.todo), LowPans)
  BY <1>1, RestFacts
<1> HIDE DEF mv
<1>3. CASE MoveFails /\ UNCHANGED snap
           /\ cyc' = [Idle EXCEPT !.phase = Following[cyc.zone], !.go = cyc.go]
  <2>1. Following[cyc.zone] \in {"secondary", "threshold"}
    BY <1>1 DEF Following, LowZones
  <2>2. cyc' \in CycleRecord /\ cyc'.phase = Following[cyc.zone] /\ cyc'.got = {}
    BY <1>1, <1>3, <2>1, IdleAt DEF Phases
  <2>3. CycleInv(R)' /\ cyc'.phase \notin {"idle", "discard"}
    BY <1>1, <1>3, <2>1, <2>2, PlainCycle DEF LowPhases
  <2> QED
    BY <1>1, <1>3, <2>3, LowStep DEF MoveFails
<1>4. CASE /\ Moves(mv.from, mv.to)
           /\ snap' = ForgetPit(snap, mv.to)
           /\ cyc' = IF Len(cyc.todo) = 1
                     THEN [cyc EXCEPT !.phase = "load", !.todo = picks,
                                      !.picks = <<>>, !.got = {}]
                     ELSE [cyc EXCEPT !.todo = Tail(cyc.todo), !.picks = picks]
  <2>1. /\ mv.from \in Pan /\ mv.to \in HighFront /\ mv.to \notin LowPans
    BY <1>2, AreaFacts
  <2>2. /\ pan' \in PanTable /\ Full(pan', Rear) \subseteq Full(pan, Rear)
        /\ Vacant(pan, Pan) \ {mv.to} \subseteq Vacant(pan', Pan)
        /\ up' = up /\ stock' = stock
    <3>1. /\ pan' \in PanTable /\ Full(pan', Rear) = Full(pan, Rear) \ {mv.from}
          /\ Vacant(pan, Pan) \ {mv.to} \subseteq Vacant(pan', Pan)
      BY <1>1, <1>4, <2>1, MovedPan
    <3> QED
      BY <1>4, <3>1 DEF Moves
  <2>3. SnapInv(snap', pan', R) /\ snap'.mode = "LOW"
    <3>1. SnapInv(snap, pan', R)
      BY <1>1, <2>2, PanShrinks
    <3> QED
      BY <1>1, <1>4, <3>1, ForgetKeeps
  <2>4. /\ picks \in Seq(StepRecord) /\ DOMAIN picks = DOMAIN cyc.picks
        /\ \A i \in DOMAIN picks :
              /\ picks[i].to = cyc.picks[i].to
              /\ picks[i].from \in HighFront \cup {NoPit}
        /\ picks # <<>>
    <3>1. DOMAIN cyc.picks = 1..Len(cyc.picks) /\ Len(cyc.picks) \in Nat \ {0}
          /\ cyc.picks \in [1..Len(cyc.picks) -> StepRecord]
      BY <1>1, LenProperties, EmptySeq DEF LoadableInv
    <3>2. \A i \in 1..Len(cyc.picks) :
             cyc.picks[i] \in StepRecord /\ cyc.picks[i].from \in HighFront \cup {NoPit}
      BY <1>1, <3>1 DEF LoadableInv, StepsFrom
    <3>3. \A i \in 1..Len(cyc.picks) :
             /\ picks[i] \in StepRecord /\ picks[i].to = cyc.picks[i].to
             /\ picks[i].from \in HighFront \cup {NoPit}
      BY <3>1, <3>2 DEF StepRecord
    <3>4. DOMAIN picks = 1..Len(cyc.picks) /\ picks = [i \in 1..Len(cyc.picks) |-> picks[i]]
      BY <3>1
    <3> HIDE DEF picks
    <3>5. picks \in Seq(StepRecord)
      BY <3>1, <3>3, <3>4
    <3>6. picks # <<>>
      <4>1. 1 \in DOMAIN picks
        BY <3>1, <3>4
      <4> QED
        BY <4>1
    <3> QED
      BY <3>1, <3>3, <3>4, <3>5, <3>6
  <2> HIDE DEF picks
  <2>5. /\ picks # <<>> /\ StepsTo(picks, ZonePans[cyc.zone])
        /\ DistinctTo(picks) /\ StepsTo(picks, Vacant(pan', Pan))
        /\ StepsFrom(picks, HighFront \cup {NoPit})
    <3>1. ZonePans[cyc.zone] \subseteq LowPans
      BY <1>1, ZoneFacts
    <3>2. /\ picks # <<>> /\ StepsTo(picks, ZonePans[cyc.zone])
          /\ DistinctTo(picks) /\ StepsTo(picks, Vacant(pan, Pan) \ {mv.to})
          /\ StepsFrom(picks, HighFront \cup {NoPit})
      BY <1>1, <2>1, <2>4, <3>1 DEF LoadableInv, StepsTo, StepsFrom, DistinctTo
    <3>3. StepsTo(picks, Vacant(pan', Pan))
      BY <2>2, <3>2 DEF StepsTo
    <3> QED
      BY <3>2, <3>3
  <2>6. CASE Len(cyc.todo) = 1
    <3>1. /\ cyc' \in CycleRecord /\ cyc'.phase = "load" /\ cyc'.zone = cyc.zone
          /\ cyc'.todo = picks /\ cyc'.got = {}
      <4>1. cyc' = [phase |-> "load", zone |-> cyc.zone, todo |-> picks,
                    picks |-> <<>>, got |-> {}, used |-> cyc.used, go |-> cyc.go]
        BY <1>1, <1>4, <2>6 DEF CycleRecord
      <4>2. <<>> \in Seq(StepRecord)
        OBVIOUS
      <4> QED
        BY <1>1, <2>4, <4>1, <4>2 DEF CycleRecord, Phases
    <3>2. LoadableInv(cyc.todo, cyc.zone)'
      BY <2>5, <3>1 DEF LoadableInv
    <3>3. cyc'.zone # "main"
      BY <1>1, <3>1, ZoneFacts
    <3>4. CycleInv(R)'
      BY <2>3, <2>5, <3>1, <3>2, <3>3 DEF CycleInv, InitializeInv,
         DiscardInv, BackfillInv, CompactInv, EvacuateInv, LoadLowInv, LoadHighInv,
         LowPhases
    <3> QED
      BY <1>1, <2>2, <2>3, <3>1, <3>4, LowStep
  <2>7. CASE Len(cyc.todo) # 1
    <3>1. /\ cyc' \in CycleRecord /\ cyc'.phase = "evacuate" /\ cyc'.zone = cyc.zone
          /\ cyc'.todo = Tail(cyc.todo) /\ cyc'.picks = picks /\ cyc'.got = {}
          /\ Tail(cyc.todo) # <<>>
      <4>1. cyc' = [phase |-> "evacuate", zone |-> cyc.zone, todo |-> Tail(cyc.todo),
                    picks |-> picks, got |-> {}, used |-> cyc.used, go |-> cyc.go]
        BY <1>1, <1>4, <2>7 DEF CycleRecord
      <4>2. Tail(cyc.todo) \in Seq(StepRecord) /\ Tail(cyc.todo) # <<>>
        BY <1>1, <2>7, HeadTail
      <4> QED
        BY <1>1, <2>4, <4>1, <4>2 DEF CycleRecord, Phases
    <3>2. LoadableInv(cyc.picks, cyc.zone)'
      BY <2>5, <3>1 DEF LoadableInv
    <3>3. CycleInv(R)'
      BY <1>1, <1>2, <2>3, <3>1, <3>2 DEF CycleInv, InitializeInv,
         DiscardInv, BackfillInv, CompactInv, EvacuateInv, LoadLowInv, LoadHighInv,
         LowPhases
    <3> QED
      BY <1>1, <2>2, <2>3, <3>1, <3>3, LowStep
  <2> QED
    BY <2>6, <2>7
<1> QED
  BY <1>3, <1>4 DEF Evacuate, mv

-----------------------------------------------------------------------------
(* Loading a batch.                                                        *)

\* One load: it succeeds and takes its pit, or nothing happens to the pans.
Loaded(l, s, got) ==
    /\ Loads(l.to) /\ got = cyc.got \cup {l}
    /\ s = IF l.from = NoPit THEN snap ELSE [snap EXCEPT !.pit[l.from] = cyc.zone]

NotLoaded(s, got) ==
    /\ LoadSkipped \/ (up /\ MoveFails)
    /\ got = cyc.got /\ s = snap

LEMMA LoadCases ==
    ASSUME Load
    PROVE  \E s, got :
              /\ Loaded(Head(cyc.todo), s, got) \/ NotLoaded(s, got)
              /\ \/ /\ Len(cyc.todo) = 1
                    /\ snap' = AddBatch(s, cyc.zone, got)
                    /\ cyc' = [Idle EXCEPT !.phase = Following[cyc.zone], !.go = cyc.go]
                 \/ /\ Len(cyc.todo) # 1 /\ snap' = s
                    /\ cyc' = [cyc EXCEPT !.todo = Tail(cyc.todo), !.got = got]
<1> DEFINE l == Head(cyc.todo)
           Then(s, got) ==
               IF Len(cyc.todo) = 1
               THEN /\ snap' = AddBatch(s, cyc.zone, got)
                    /\ cyc' = [Idle EXCEPT !.phase = Following[cyc.zone], !.go = cyc.go]
               ELSE /\ snap' = s
                    /\ cyc' = [cyc EXCEPT !.todo = Tail(cyc.todo), !.got = got]
           next == IF l.from = NoPit THEN snap
                   ELSE [snap EXCEPT !.pit[l.from] = cyc.zone]
<1>1. \/ Loads(l.to) /\ Then(next, cyc.got \cup {l})
      \/ (LoadSkipped \/ (up /\ MoveFails)) /\ Then(snap, cyc.got)
  BY DEF Load
<1>2. \E s, got : (Loaded(l, s, got) \/ NotLoaded(s, got)) /\ Then(s, got)
  <2> HIDE DEF Then
  <2>1. CASE Loads(l.to) /\ Then(next, cyc.got \cup {l})
    <3>1. Loaded(l, next, cyc.got \cup {l})
      BY <2>1 DEF Loaded
    <3> HIDE DEF next, l
    <3> QED
      BY <2>1, <3>1
  <2>2. CASE (LoadSkipped \/ (up /\ MoveFails)) /\ Then(snap, cyc.got)
    BY <2>2 DEF NotLoaded
  <2> QED
    BY <1>1, <2>1, <2>2
<1> HIDE DEF l
<1>3. PICK s, got : (Loaded(l, s, got) \/ NotLoaded(s, got)) /\ Then(s, got)
  BY <1>2
<1>4. /\ Loaded(l, s, got) \/ NotLoaded(s, got)
      /\ \/ /\ Len(cyc.todo) = 1
            /\ snap' = AddBatch(s, cyc.zone, got)
            /\ cyc' = [Idle EXCEPT !.phase = Following[cyc.zone], !.go = cyc.go]
         \/ /\ Len(cyc.todo) # 1 /\ snap' = s
            /\ cyc' = [cyc EXCEPT !.todo = Tail(cyc.todo), !.got = got]
  BY <1>3
<1> QED
  BY <1>4 DEF l

\* The record of a cycle whose load goes on.
LEMMA LoadRecord ==
    ASSUME cyc \in CycleRecord, cyc.todo # <<>>, Len(cyc.todo) # 1,
           NEW got \in SUBSET Pick,
           cyc' = [cyc EXCEPT !.todo = Tail(cyc.todo), !.got = got]
    PROVE  /\ cyc' \in CycleRecord /\ cyc'.todo # <<>> /\ cyc'.todo = Tail(cyc.todo)
           /\ cyc'.phase = cyc.phase /\ cyc'.zone = cyc.zone /\ cyc'.got = got
<1>1. cyc.todo \in Seq(StepRecord)
  BY DEF CycleRecord
<1>2. Tail(cyc.todo) \in Seq(StepRecord) /\ Tail(cyc.todo) # <<>>
  BY <1>1, HeadTail
<1> QED
  BY <1>2 DEF CycleRecord

LEMMA LoadLowKeeps ==
    ASSUME NEW R, SchedInv(R), Load, cyc.zone # "main"
    PROVE  SchedInv(R)'
<1> DEFINE l == Head(cyc.todo)
           z == cyc.zone
<1>1. /\ cyc.phase = "load" /\ snap.mode = "LOW" /\ SnapInv(snap, pan, R)
      /\ cyc \in CycleRecord /\ cyc.todo \in Seq(StepRecord) /\ cyc.todo # <<>>
      /\ cyc.got \in SUBSET Pick /\ cyc.go \in BOOLEAN
      /\ LoadableInv(cyc.todo, z) /\ \A g \in cyc.got : g.to \in ZonePans[z]
      /\ UNCHANGED <<saved, kills>>
      /\ pan \in PanTable /\ up \in BOOLEAN /\ stock \in BOOLEAN
  BY DEF Load, SchedInv, CycleInv, LoadLowInv, CycleRecord
<1>2. z \in LowZones /\ z \in Zone /\ ZonePans[z] \subseteq LowPans
  BY <1>1, ZoneFacts DEF CycleRecord
<1>3. /\ l.to \in ZonePans[z] /\ l.from \in HighFront \cup {NoPit} /\ l \in Pick
      /\ l.to \in Pan /\ l.to \notin Rear
      /\ StepsTo(Tail(cyc.todo), ZonePans[z]) /\ DistinctTo(Tail(cyc.todo))
      /\ StepsTo(Tail(cyc.todo), Vacant(pan, Pan))
      /\ StepsFrom(Tail(cyc.todo), HighFront \cup {NoPit})
      /\ \A i \in DOMAIN Tail(cyc.todo) : Tail(cyc.todo)[i].to # l.to
  <2>1. /\ l \in StepRecord
        /\ l.to \in ZonePans[z] /\ l.from \in HighFront \cup {NoPit}
        /\ StepsTo(Tail(cyc.todo), ZonePans[z]) /\ DistinctTo(Tail(cyc.todo))
        /\ StepsTo(Tail(cyc.todo), Vacant(pan, Pan))
        /\ StepsFrom(Tail(cyc.todo), HighFront \cup {NoPit})
        /\ \A i \in DOMAIN Tail(cyc.todo) : Tail(cyc.todo)[i].to # l.to
    BY <1>1, RestFacts DEF LoadableInv
  <2>2. l.to \in Pan /\ l.to \notin Rear
    BY <1>2, <2>1, AreaFacts
  <2>3. l \in Pick
    BY <2>1 DEF StepRecord, Pick
  <2> QED
    BY <2>1, <2>2, <2>3
<1>4. PICK s, got :
         /\ Loaded(l, s, got) \/ NotLoaded(s, got)
         /\ \/ /\ Len(cyc.todo) = 1
               /\ snap' = AddBatch(s, z, got)
               /\ cyc' = [Idle EXCEPT !.phase = Following[z], !.go = cyc.go]
            \/ /\ Len(cyc.todo) # 1 /\ snap' = s
               /\ cyc' = [cyc EXCEPT !.todo = Tail(cyc.todo), !.got = got]
  BY LoadCases
<1> HIDE DEF l, z
<1>5. /\ pan' \in PanTable /\ Full(pan', Rear) = Full(pan, Rear)
      /\ Vacant(pan, Pan) \ {l.to} \subseteq Vacant(pan', Pan)
      /\ up' \in BOOLEAN /\ stock' \in BOOLEAN
      /\ got \in SUBSET Pick /\ \A g \in got : g.to \in ZonePans[z]
  <2>1. CASE Loaded(l, s, got)
    <3>1. /\ pan' = [pan EXCEPT ![l.to] = "heating"]
          /\ stock' \in BOOLEAN /\ up' = up /\ got = cyc.got \cup {l}
      BY <2>1 DEF Loaded, Loads
    <3>2. pan' \in PanTable /\ Full(pan', Rear) = Full(pan, Rear)
      BY <1>1, <1>3, <3>1, OtherPan
    <3>3. Vacant(pan, Pan) \ {l.to} \subseteq Vacant(pan', Pan)
      BY <1>1, <3>1 DEF PanTable, Vacant
    <3> QED
      BY <1>1, <1>3, <3>1, <3>2, <3>3
  <2>2. CASE NotLoaded(s, got)
    BY <1>1, <2>2 DEF NotLoaded, LoadSkipped, MoveFails, Vacant
  <2> QED
    BY <1>4, <2>1, <2>2
<1>6. SnapInv(s, pan', R) /\ s.mode = "LOW"
  <2>1. SnapInv(snap, pan', R)
    BY <1>1, <1>5, PanShrinks
  <2>2. /\ s \in Snapshot /\ s.mode = "LOW" /\ s.transition = snap.transition
        /\ s.item = snap.item /\ s.batch = snap.batch
    <3>1. snap \in Snapshot /\ snap.mode = "LOW"
      BY <1>1 DEF SnapInv, SnapCore
    <3>2. CASE s = snap
      BY <3>1, <3>2
    <3>3. CASE l.from # NoPit /\ s = [snap EXCEPT !.pit[l.from] = z]
      <4>1. l.from \in HighFront
        BY <1>3, <3>3
      <4> QED
        BY <1>2, <3>1, <3>3, <4>1 DEF Snapshot
    <3> QED
      BY <1>4, <3>2, <3>3 DEF Loaded, NotLoaded, z
  <2> QED
    BY <1>1, <2>1, <2>2, PitsKeep
<1>7. CASE /\ Len(cyc.todo) = 1
           /\ snap' = AddBatch(s, z, got)
           /\ cyc' = [Idle EXCEPT !.phase = Following[z], !.go = cyc.go]
  <2>1. SnapInv(snap', pan', R) /\ snap'.mode = "LOW"
    BY <1>2, <1>5, <1>6, <1>7, AddLowKeeps DEF Pick
  <2>2. Following[z] \in {"secondary", "threshold"}
    BY <1>2 DEF Following, LowZones
  <2>3. cyc' \in CycleRecord /\ cyc'.phase = Following[z] /\ cyc'.got = {}
    BY <1>1, <1>7, <2>2, IdleAt DEF Phases
  <2>4. CycleInv(R)' /\ cyc'.phase \notin {"idle", "discard"}
    BY <2>1, <2>2, <2>3, PlainCycle DEF LowPhases
  <2> QED
    BY <1>1, <1>5, <2>1, <2>4, LowStep
<1>8. CASE /\ Len(cyc.todo) # 1 /\ snap' = s
           /\ cyc' = [cyc EXCEPT !.todo = Tail(cyc.todo), !.got = got]
  <2>1. /\ cyc' \in CycleRecord /\ cyc'.todo # <<>> /\ cyc'.todo = Tail(cyc.todo)
        /\ cyc'.phase = "load" /\ cyc'.zone = z /\ cyc'.got = got
    BY <1>1, <1>5, <1>8, LoadRecord DEF z
  <2>2. StepsTo(Tail(cyc.todo), Vacant(pan', Pan))
    BY <1>3, <1>5 DEF StepsTo
  <2>3. LoadableInv(cyc.todo, cyc.zone)'
    BY <1>3, <2>1, <2>2 DEF LoadableInv
  <2>4. CycleInv(R)'
    BY <1>2, <1>5, <1>6, <1>8, <2>1, <2>3, ZoneFacts DEF CycleInv, InitializeInv,
       DiscardInv, BackfillInv, CompactInv, EvacuateInv, LoadLowInv, LoadHighInv,
       LowPhases
  <2> QED
    BY <1>1, <1>5, <1>6, <1>8, <2>1, <2>4, LowStep
<1> QED
  BY <1>4, <1>7, <1>8

\* While a pit waits, high concurrency may fill the rear.
LEMMA GrowKeeps ==
    ASSUME NEW R, NEW s, NEW pn, SnapInv(s, pn, R), s.mode = "HIGH",
           FreePits(s) # {}, NEW pm
    PROVE  SnapInv(s, pm, R)
BY DEF SnapInv, SnapCore, LowInv, HighInv

LEMMA LoadHighKeeps ==
    ASSUME NEW R, SchedInv(R), Load, cyc.zone = "main"
    PROVE  SchedInv(R)'
<1> DEFINE l == Head(cyc.todo)
           rest == Tail(cyc.todo)
<1>1. /\ cyc.phase = "load" /\ SnapInv(snap, pan, R)
      /\ snap.mode = "HIGH" /\ snap.batch["main"] = "none"
      /\ cyc \in CycleRecord /\ cyc.todo \in Seq(StepRecord) /\ cyc.todo # <<>>
      /\ cyc.got \in SUBSET Pick /\ cyc.go \in BOOLEAN
      /\ UNCHANGED <<saved, kills>>
      /\ pan \in PanTable /\ up \in BOOLEAN /\ stock \in BOOLEAN
  BY DEF Load, SchedInv, CycleInv, LoadHighInv, CycleRecord
<1>2. /\ StepsTo(cyc.todo, Rear) /\ DistinctTo(cyc.todo)
      /\ Undisturbed => StepsTo(cyc.todo, Vacant(pan, Pan))
      /\ StepsFrom(cyc.todo, Pits(snap)) /\ DistinctFrom(cyc.todo)
      /\ \A g \in cyc.got : /\ g.to \in Rear /\ g.from \in Pits(snap)
                            /\ \A i \in DOMAIN cyc.todo : g.from # cyc.todo[i].from
      /\ \A p \in Rear :
             \/ \E g \in cyc.got : g.to = p
             \/ \E i \in DOMAIN cyc.todo : cyc.todo[i].to = p
             \/ \E q \in Pits(snap) :
                   /\ \A g \in cyc.got : g.from # q
                   /\ \A i \in DOMAIN cyc.todo : cyc.todo[i].from # q
  BY <1>1 DEF SchedInv, CycleInv, LoadHighInv
<1>3. Items(snap, "main") = {} /\ FreePits(snap) = Pits(snap)
  BY <1>1 DEF SnapInv, SnapCore, FreePits, Zone
<1>4. /\ l \in Pick /\ l.to \in Rear /\ l.to \in Pan
      /\ l.from \in Pits(snap) /\ l.from # NoPit /\ l.from \in HighFront
      /\ StepsTo(rest, Rear) /\ DistinctTo(rest)
      /\ Undisturbed => StepsTo(rest, Vacant(pan, Pan))
      /\ StepsFrom(rest, Pits(snap)) /\ DistinctFrom(rest)
      /\ \A i \in DOMAIN rest : rest[i].to # l.to /\ rest[i].from # l.from
  <2>1. /\ l \in StepRecord /\ l.to \in Rear /\ l.from \in Pits(snap)
        /\ StepsTo(rest, Rear) /\ DistinctTo(rest)
        /\ Undisturbed => StepsTo(rest, Vacant(pan, Pan))
        /\ StepsFrom(rest, Pits(snap)) /\ DistinctFrom(rest)
        /\ \A i \in DOMAIN rest : rest[i].to # l.to /\ rest[i].from # l.from
    BY <1>1, <1>2, RestFacts
  <2>2. l.from \in HighFront /\ l.from # NoPit /\ l.to \in Pan
    BY <2>1, AreaFacts DEF Pits
  <2>3. l \in Pick
    BY <2>1, <2>2 DEF StepRecord, Pick
  <2> QED
    BY <2>1, <2>2, <2>3
<1>5. /\ \A g \in cyc.got : g.from # l.from
      /\ \A i \in DOMAIN rest : \A g \in cyc.got : g.from # rest[i].from
  <2>1. /\ l = cyc.todo[1] /\ 1 \in DOMAIN cyc.todo
        /\ \A i \in DOMAIN rest : i + 1 \in DOMAIN cyc.todo /\ rest[i] = cyc.todo[i + 1]
    BY <1>1, HeadTail
  <2> QED
    BY <1>2, <2>1
<1>6. \A p \in Rear :
         \/ \E g \in cyc.got : g.to = p
         \/ p = l.to
         \/ \E i \in DOMAIN rest : rest[i].to = p
         \/ \E q \in Pits(snap) :
               /\ \A g \in cyc.got : g.from # q
               /\ q # l.from /\ \A i \in DOMAIN rest : rest[i].from # q
  <2>1. /\ l = cyc.todo[1] /\ 1 \in DOMAIN cyc.todo
        /\ \A i \in DOMAIN rest : i + 1 \in DOMAIN cyc.todo /\ rest[i] = cyc.todo[i + 1]
        /\ \A i \in DOMAIN cyc.todo :
              i # 1 => i - 1 \in DOMAIN rest /\ rest[i - 1] = cyc.todo[i]
    BY <1>1, HeadTail
  <2> TAKE p \in Rear
  <2> HIDE DEF l, rest
  <2>2. CASE \E i \in DOMAIN cyc.todo : cyc.todo[i].to = p
    <3>1. PICK i \in DOMAIN cyc.todo : cyc.todo[i].to = p
      BY <2>2
    <3> QED
      BY <2>1, <3>1
  <2>3. CASE \E q \in Pits(snap) : /\ \A g \in cyc.got : g.from # q
                                   /\ \A i \in DOMAIN cyc.todo : cyc.todo[i].from # q
    <3>1. PICK q \in Pits(snap) : /\ \A g \in cyc.got : g.from # q
                                  /\ \A i \in DOMAIN cyc.todo : cyc.todo[i].from # q
      BY <2>3
    <3>2. q # l.from /\ \A i \in DOMAIN rest : rest[i].from # q
      BY <2>1, <3>1
    <3> QED
      BY <3>1, <3>2
  <2> QED
    BY <1>2, <2>2, <2>3
<1>7. PICK s, got :
         /\ Loaded(l, s, got) \/ NotLoaded(s, got)
         /\ \/ /\ Len(cyc.todo) = 1
               /\ snap' = AddBatch(s, "main", got)
               /\ cyc' = [Idle EXCEPT !.phase = Following["main"], !.go = cyc.go]
            \/ /\ Len(cyc.todo) # 1 /\ snap' = s
               /\ cyc' = [cyc EXCEPT !.todo = rest, !.got = got]
  BY LoadCases
<1>8. Len(cyc.todo) = 1 => DOMAIN rest = {}
  <2>1. /\ \A i \in DOMAIN rest : i + 1 \in DOMAIN cyc.todo /\ i + 1 # 1
        /\ Len(cyc.todo) = 1 => DOMAIN cyc.todo = {1}
    BY <1>1, HeadTail
  <2> QED
    BY <2>1
<1> HIDE DEF l, rest
<1>9. /\ pan' \in PanTable
      /\ up' \in BOOLEAN /\ stock' \in BOOLEAN
      /\ got \in SUBSET Pick
      /\ \A g \in got : /\ g.to \in Rear /\ g.from \in Pits(snap)
                        /\ \A i \in DOMAIN rest : g.from # rest[i].from
      /\ \A p \in Rear :
             \/ \E g \in got : g.to = p
             \/ \E i \in DOMAIN rest : rest[i].to = p
             \/ \E q \in Pits(snap) :
                   /\ \A g \in got : g.from # q
                   /\ \A i \in DOMAIN rest : rest[i].from # q
      /\ Undisturbed => Full(pan', Rear) \subseteq {g.to : g \in got}
      /\ Undisturbed => StepsTo(rest, Vacant(pan', Pan))
  <2>1. Undisturbed => Full(pan, Rear) \subseteq {g.to : g \in cyc.got}
    BY <1>3 DEF SchedInv, SupplyTracked
  <2>2. CASE Loaded(l, s, got)
    <3>1. /\ pan' = [pan EXCEPT ![l.to] = "heating"]
          /\ stock' \in BOOLEAN /\ up' = up /\ got = cyc.got \cup {l}
      BY <2>2 DEF Loaded, Loads
    <3>2. /\ pan' \in PanTable /\ Full(pan', Rear) \subseteq Full(pan, Rear) \cup {l.to}
          /\ Vacant(pan, Pan) \ {l.to} \subseteq Vacant(pan', Pan)
      BY <1>1, <1>4, <3>1 DEF PanTable, Full, Vacant
    <3>3. Undisturbed => StepsTo(rest, Vacant(pan', Pan))
      BY <1>4, <3>2 DEF StepsTo
    <3>4. /\ got \in SUBSET Pick
          /\ \A g \in got : /\ g.to \in Rear /\ g.from \in Pits(snap)
                            /\ \A i \in DOMAIN rest : g.from # rest[i].from
      BY <1>1, <1>2, <1>4, <1>5, <3>1
    <3>5. \A p \in Rear :
             \/ \E g \in got : g.to = p
             \/ \E i \in DOMAIN rest : rest[i].to = p
             \/ \E q \in Pits(snap) :
                   /\ \A g \in got : g.from # q
                   /\ \A i \in DOMAIN rest : rest[i].from # q
      BY <1>6, <3>1
    <3>6. Undisturbed => Full(pan', Rear) \subseteq {g.to : g \in got}
      BY <2>1, <3>1, <3>2
    <3> QED
      BY <1>1, <3>1, <3>2, <3>3, <3>4, <3>5, <3>6
  <2>3. CASE NotLoaded(s, got)
    <3>1. pan' = pan /\ up' \in BOOLEAN /\ stock' = stock /\ got = cyc.got
      BY <1>1, <2>3 DEF NotLoaded, LoadSkipped, MoveFails
    <3>2. \A p \in Rear :
             \/ \E g \in got : g.to = p
             \/ \E i \in DOMAIN rest : rest[i].to = p
             \/ \E q \in Pits(snap) :
                   /\ \A g \in got : g.from # q
                   /\ \A i \in DOMAIN rest : rest[i].from # q
      BY <1>4, <1>5, <1>6, <3>1
    <3> QED
      BY <1>1, <1>2, <1>4, <1>5, <2>1, <3>1, <3>2
  <2> QED
    BY <1>7, <2>2, <2>3
<1>10. /\ SnapInv(s, pan', R) /\ s.mode = "HIGH" /\ s.batch["main"] = "none"
       /\ Pits(s) = Pits(snap) /\ FreePits(s) = FreePits(snap)
       /\ Items(s, "main") = {}
  <2>1. /\ s \in Snapshot /\ s.mode = "HIGH" /\ s.transition = snap.transition
        /\ s.item = snap.item /\ s.batch = snap.batch /\ Pits(s) = Pits(snap)
    <3>1. snap \in Snapshot /\ snap.mode = "HIGH"
      BY <1>1 DEF SnapInv, SnapCore
    <3>2. CASE s = snap
      BY <3>1, <3>2
    <3>3. CASE s = [snap EXCEPT !.pit[l.from] = "main"]
      <4>1. snap.pit[l.from] # "none"
        BY <1>4 DEF Pits
      <4> QED
        BY <1>4, <3>1, <3>3, <4>1 DEF Snapshot, Zone, Pits
    <3> QED
      BY <1>7, <3>2, <3>3, <1>4 DEF Loaded, NotLoaded
  <2>2. SnapInv(s, pan, R) /\ Items(s, "main") = Items(snap, "main")
    BY <1>1, <2>1, PitsKeep DEF Zone
  <2>3. FreePits(s) = Pits(s)
    BY <1>3, <2>2 DEF FreePits
  <2>4. FreePits(s) # {}
    BY <1>4, <2>1, <2>3
  <2>5. SnapInv(s, pan', R)
    BY <2>1, <2>2, <2>4, GrowKeeps
  <2> QED
    BY <1>1, <1>3, <2>1, <2>2, <2>3, <2>5
<1>11. kills < MaxKills =>
         /\ SnapInv(saved, pan', R) /\ saved.mode = "HIGH"
         /\ FreePits(snap) \subseteq FreePits(saved)
  <2>1. FreePits(snap) # {}
    BY <1>3, <1>4
  <2>2. kills < MaxKills => /\ SnapInv(saved, pan, R) /\ saved.mode = "HIGH"
                            /\ FreePits(snap) \subseteq FreePits(saved)
    BY <1>1, <2>1 DEF SchedInv, SavedInv
  <2> QED
    BY <2>1, <2>2, GrowKeeps
<1>12. CASE /\ Len(cyc.todo) = 1
            /\ snap' = AddBatch(s, "main", got)
            /\ cyc' = [Idle EXCEPT !.phase = Following["main"], !.go = cyc.go]
  <2>1. \A p \in Rear : \/ \E g \in got : g.to = p
                        \/ \E q \in Pits(s) : \A g \in got : g.from # q
    BY <1>8, <1>9, <1>10, <1>12
  <2>2. /\ SnapInv(snap', pan', R) /\ snap'.mode = "HIGH"
        /\ Items(snap', "main") = {g.to : g \in got}
        /\ FreePits(snap') \subseteq FreePits(s)
    BY <1>9, <1>10, <1>12, <2>1, AddHighKeeps DEF Pick
  <2>3. cyc' \in CycleRecord /\ cyc'.phase = "finalize" /\ cyc'.got = {}
    BY <1>1, <1>12, IdleAt DEF Phases, Following
  <2>4. CycleInv(R)'
    BY <2>3, PlainCycle
  <2>5. SavedInv(R)'
    BY <1>1, <1>10, <1>11, <2>2, <2>3 DEF SchedInv, SavedInv
  <2> QED
    BY <1>1, <1>9, <2>2, <2>3, <2>4, <2>5 DEF SchedInv, SupplyTracked, Undisturbed
<1>13. CASE /\ Len(cyc.todo) # 1 /\ snap' = s
            /\ cyc' = [cyc EXCEPT !.todo = rest, !.got = got]
  <2>1. /\ cyc' \in CycleRecord /\ cyc'.todo # <<>> /\ cyc'.todo = rest
        /\ cyc'.phase = "load" /\ cyc'.zone = "main" /\ cyc'.got = got
    BY <1>1, <1>9, <1>13, LoadRecord DEF rest
  <2>2. LoadHighInv'
    <3>1. Undisturbed' <=> Undisturbed
      BY <1>1 DEF Undisturbed
    <3>2. /\ StepsTo(rest, Rear) /\ DistinctTo(rest) /\ DistinctFrom(rest)
          /\ StepsFrom(rest, Pits(snap'))
      BY <1>4, <1>10, <1>13
    <3> QED
      BY <1>9, <1>10, <1>13, <2>1, <3>1, <3>2 DEF LoadHighInv
  <2>3. CycleInv(R)'
    BY <2>1, <2>2 DEF CycleInv, InitializeInv, DiscardInv, BackfillInv, CompactInv,
       EvacuateInv, LoadLowInv, LowPhases
  <2>4. SavedInv(R)'
    BY <1>1, <1>10, <1>11, <1>13, <2>1 DEF SchedInv, SavedInv
  <2> QED
    BY <1>1, <1>9, <1>10, <1>13, <2>1, <2>3, <2>4
       DEF SchedInv, SupplyTracked, Undisturbed
<1> QED
  BY <1>7, <1>12, <1>13

-----------------------------------------------------------------------------
(* The mode and the transition.                                            *)

\* The cycle ends without a movement.
LEMMA FinishHere ==
    ASSUME NEW R, SchedInv(R), cyc.got = {}, NEW s, Finish(s, pan), SnapInv(s, pan, R),
           Undisturbed /\ Full(pan, Rear) # {} => Items(s, "main") = Items(snap, "main"),
           UNCHANGED <<pan, up, stock, kills>>
    PROVE  SchedInv(R)'
<1>1. /\ pan' = pan /\ pan \in PanTable /\ kills' = kills
      /\ up' \in BOOLEAN /\ stock' \in BOOLEAN
  BY DEF SchedInv
<1>2. Undisturbed => Full(pan, Rear) \subseteq Items(s, "main")
  BY DEF SchedInv, SupplyTracked
<1> QED
  BY <1>1, <1>2, FinishKeeps

LEMMA ThresholdKeeps ==
    ASSUME NEW R, SchedInv(R), Threshold
    PROVE  SchedInv(R)'
<1>1. /\ cyc.got = {} /\ snap.mode = "LOW" /\ SnapInv(snap, pan, R)
      /\ UNCHANGED <<pan, up, stock, kills>>
  BY DEF Threshold, SchedInv, CycleInv, LowPhases
<1>2. \/ Finish(EnterLowToHigh, pan)
      \/ Finish(snap, pan)
  BY DEF Threshold
<1>3. CASE Finish(EnterLowToHigh, pan)
  BY <1>1, <1>3, EnterKeeps, FinishHere
<1>4. CASE Finish(snap, pan)
  BY <1>1, <1>4, FinishHere
<1> QED
  BY <1>2, <1>3, <1>4

\* A snapshot whose transition is not over is one of high concurrency.
LEMMA TransitionHigh ==
    ASSUME NEW R, SchedInv(R), snap.transition # "NONE"
    PROVE  snap.mode = "HIGH"
BY DEF SchedInv, SnapInv, SnapCore, LowInv, Snapshot

LEMMA FinishTransition ==
    ASSUME NEW R, SchedInv(R), cyc.got = {}, snap.mode = "HIGH",
           NEW x \in {"NONE", "LOW_TO_HIGH", "HIGH_TO_LOW"},
           Finish([snap EXCEPT !.transition = x], pan),
           UNCHANGED <<pan, up, stock, kills>>
    PROVE  SchedInv(R)'
<1> DEFINE t == [snap EXCEPT !.transition = x]
<1>1. SnapInv(snap, pan, R)
  BY DEF SchedInv
<1>2. SnapInv(t, pan, R) /\ Items(t, "main") = Items(snap, "main")
  BY <1>1, TransitionKeeps
<1>3. Finish(t, pan)
  OBVIOUS
<1> HIDE DEF t
<1> QED
  BY <1>2, <1>3, FinishHere

\* The rear is free of sausages, unless a kill left some behind.
LEMMA LaunchHighKeeps ==
    ASSUME NEW R, SchedInv(R), cyc.phase = "decide", snap.mode = "HIGH", MayLaunchHigh,
           NEW picks \in Picks("main"), NEW go \in BOOLEAN, Launch("main", picks, go),
           UNCHANGED <<pan, snap, saved, up, stock, kills>>
    PROVE  SchedInv(R)'
<1>1. /\ SnapInv(snap, pan, R) /\ snap.batch["main"] = "none" /\ cyc.got = {}
      /\ pan \in PanTable /\ up \in BOOLEAN /\ stock \in BOOLEAN
      /\ "main" \in Zone /\ ZonePans["main"] = Rear /\ Rear # {}
  BY ZoneFacts, AreaFacts DEF SchedInv, CycleInv, MayLaunchHigh, Active, Zone
<1>2. Items(snap, "main") = {}
  BY <1>1 DEF SnapInv, SnapCore
<1>3. Undisturbed => Full(pan, Rear) = {}
  BY <1>1, <1>2 DEF SchedInv, SupplyTracked
<1>4. /\ picks \in Seq(StepRecord) /\ picks # <<>>
      /\ StepsTo(picks, Rear) /\ DistinctTo(picks)
      /\ StepsFrom(picks, OpenPits(snap)) /\ DistinctFrom(picks)
      /\ \A p \in Rear : \E i \in DOMAIN picks : picks[i].to = p
  BY <1>1, PicksFacts
<1>5. StepsFrom(picks, Pits(snap))
  BY <1>4 DEF StepsFrom, OpenPits, Pits
<1>6. Undisturbed => StepsTo(picks, Vacant(pan, Pan))
  BY <1>3, <1>4, AreaFacts DEF StepsTo, Full, Vacant
<1>7. /\ cyc' \in CycleRecord /\ cyc'.phase = "load" /\ cyc'.zone = "main"
      /\ cyc'.todo = picks /\ cyc'.got = {}
  BY <1>1, <1>4, LaunchRecord
<1>8. LoadHighInv'
  BY <1>1, <1>4, <1>5, <1>6, <1>7 DEF LoadHighInv, Undisturbed
<1>9. CycleInv(R)'
  BY <1>4, <1>7, <1>8 DEF CycleInv, InitializeInv, DiscardInv, BackfillInv,
     CompactInv, EvacuateInv, LoadLowInv, LowPhases
<1>10. SavedInv(R)'
  BY <1>7, SavedLater
<1> QED
  BY <1>1, <1>3, <1>9, <1>10 DEF SchedInv, SupplyTracked, Undisturbed

LEMMA DecideHighKeeps ==
    ASSUME NEW R, SchedInv(R), DecideHigh
    PROVE  SchedInv(R)'
<1>1. /\ cyc.phase = "decide" /\ cyc.got = {} /\ snap.mode = "HIGH"
      /\ SnapInv(snap, pan, R) /\ UNCHANGED <<pan, up, stock, kills>>
  BY DEF DecideHigh, SchedInv, CycleInv
<1>2. CASE Finish([snap EXCEPT !.transition = "HIGH_TO_LOW"], pan)
  BY <1>1, <1>2, FinishTransition
<1>3. CASE /\ MayLaunchHigh
           /\ \E picks \in Picks("main") : Launch("main", picks, FALSE)
           /\ UNCHANGED <<snap, saved>>
  BY <1>1, <1>3, LaunchHighKeeps
<1>4. CASE Finish(snap, pan)
  BY <1>1, <1>4, FinishHere
<1> QED
  BY <1>2, <1>3, <1>4 DEF DecideHigh

LEMMA DecideLowToHighKeeps ==
    ASSUME NEW R, SchedInv(R), DecideLowToHigh
    PROVE  SchedInv(R)'
<1>1. /\ cyc.phase = "decide" /\ cyc.got = {} /\ snap.mode = "HIGH"
      /\ SnapInv(snap, pan, R) /\ UNCHANGED <<pan, snap, saved, up, stock, kills>>
      /\ pan \in PanTable /\ up \in BOOLEAN /\ stock \in BOOLEAN
  BY TransitionHigh DEF DecideLowToHigh, SchedInv, CycleInv
<1>2. PICK go \in BOOLEAN :
         \/ /\ MayLaunchHigh
            /\ \E picks \in Picks("main") : Launch("main", picks, go)
         \/ cyc' = [Idle EXCEPT !.phase = "finalize", !.go = go]
  BY <1>1 DEF DecideLowToHigh, MayGo, SchedInv
<1>3. CASE /\ MayLaunchHigh
           /\ \E picks \in Picks("main") : Launch("main", picks, go)
  BY <1>1, <1>3, LaunchHighKeeps
<1>4. CASE cyc' = [Idle EXCEPT !.phase = "finalize", !.go = go]
  <2>1. cyc' \in CycleRecord /\ cyc'.phase = "finalize" /\ cyc'.got = {}
    BY <1>4, IdleAt DEF Phases
  <2>2. CycleInv(R)'
    BY <2>1, PlainCycle
  <2>3. SavedInv(R)'
    BY <1>1, <2>1, SavedLater
  <2> QED
    BY <1>1, <2>1, <2>2, <2>3 DEF SchedInv, SupplyTracked, Undisturbed
<1> QED
  BY <1>2, <1>3, <1>4

LEMMA FinalizeKeeps ==
    ASSUME NEW R, SchedInv(R), Finalize
    PROVE  SchedInv(R)'
<1>1. /\ cyc.got = {} /\ SnapInv(snap, pan, R) /\ UNCHANGED <<pan, up, stock, kills>>
  BY DEF Finalize, SchedInv, CycleInv
<1>2. \/ /\ snap.mode = "HIGH"
         /\ Finish([snap EXCEPT !.transition = "NONE"], pan)
      \/ Finish(snap, pan)
  BY TransitionHigh DEF Finalize
<1>3. CASE /\ snap.mode = "HIGH"
           /\ Finish([snap EXCEPT !.transition = "NONE"], pan)
  BY <1>1, <1>3, FinishTransition
<1>4. CASE Finish(snap, pan)
  BY <1>1, <1>4, FinishHere
<1> QED
  BY <1>2, <1>3, <1>4

\* Low concurrency begins anew, with nothing in the rear.
LEMMA CollapseKeeps ==
    ASSUME NEW R, SchedInv(R), Full(pan', Rear) = {}, pan' \in PanTable,
           NEW pn, pn = pan', Finish(CollapseToLow, pn),
           kills' = kills, up' \in BOOLEAN, stock' \in BOOLEAN
    PROVE  SchedInv(R)'
<1> DEFINE t == CollapseToLow
<1>1. SnapInv(t, pn, R)
  BY NewKeeps DEF CollapseToLow
<1>2. Finish(t, pn)
  OBVIOUS
<1> HIDE DEF t
<1> QED
  BY <1>1, <1>2, FinishKeeps

LEMMA CompactionFacts ==
    ASSUME NEW moves \in Compactions
    PROVE  moves \in Seq(StepRecord) /\ StepsTo(moves, Front) /\ StepsFrom(moves, HighFront)
<1> DEFINE from == Full(pan, HighFront \ Front)
           free == Vacant(pan, Front)
<1>1. /\ from \subseteq HighFront /\ free \subseteq Front
      /\ IsFiniteSet(from) /\ IsFiniteSet(free)
      /\ HighFront \subseteq Pan /\ Front \subseteq Pan
  <2>1. /\ from \subseteq HighFront /\ free \subseteq Front
        /\ HighFront \subseteq Pan /\ Front \subseteq Pan
    BY AreaFacts DEF Full, Vacant
  <2>2. from \subseteq Pan /\ free \subseteq Pan
    BY <2>1
  <2> QED
    BY <2>1, <2>2, SchedAssumption, FS_Subset
<1>2. /\ ~(Cardinality(from) > Cardinality(free))
      /\ \E q \in Orders(from), to \in Sorted(free) :
            moves = [i \in DOMAIN q |-> [from |-> q[i], to |-> to[i]]]
  <2> DEFINE big == \/ Cardinality(Full(pan, HighFront)) > CompactLimit
                    \/ Cardinality(from) > Cardinality(free)
             all == {[i \in DOMAIN q |-> [from |-> q[i], to |-> to[i]]] :
                        q \in Orders(from), to \in Sorted(free)}
  <2>1. moves \in IF big THEN {} ELSE all
    BY DEF Compactions
  <2>2. ~big /\ moves \in all
    <3> HIDE DEF big, all
    <3> QED
      BY <2>1
  <2> HIDE DEF from, free
  <2> QED
    BY <2>2
<1> HIDE DEF from, free
<1>3. PICK q \in Orders(from), to \in Orders(free) :
         moves = [i \in DOMAIN q |-> [from |-> q[i], to |-> to[i]]]
  BY <1>2 DEF Sorted
<1>4. /\ DOMAIN q = 1..Cardinality(from) /\ Cardinality(from) \in Nat
      /\ \A i \in DOMAIN q : q[i] \in from
  BY <1>1, OrderFacts
<1>5. /\ DOMAIN to = 1..Cardinality(free) /\ Cardinality(free) \in Nat
      /\ \A i \in DOMAIN to : to[i] \in free
  BY <1>1, OrderFacts
<1>6. DOMAIN q \subseteq DOMAIN to
  BY <1>2, <1>4, <1>5
<1>7. /\ DOMAIN moves = DOMAIN q
      /\ \A i \in DOMAIN q : /\ moves[i].from = q[i] /\ moves[i].to = to[i]
                             /\ moves[i] \in StepRecord
  BY <1>1, <1>3, <1>4, <1>5, <1>6 DEF StepRecord
<1>8. moves \in Seq(StepRecord)
  BY <1>3, <1>4, <1>7
<1> QED
  BY <1>1, <1>4, <1>5, <1>6, <1>7, <1>8 DEF StepsTo, StepsFrom

LEMMA DecideHighToLowKeeps ==
    ASSUME NEW R, SchedInv(R), DecideHighToLow
    PROVE  SchedInv(R)'
<1>1. /\ cyc.phase = "decide" /\ cyc.got = {} /\ snap.mode = "HIGH"
      /\ SnapInv(snap, pan, R) /\ UNCHANGED <<pan, up, stock, kills>>
      /\ cyc \in CycleRecord
      /\ pan \in PanTable /\ up \in BOOLEAN /\ stock \in BOOLEAN
  BY TransitionHigh DEF DecideHighToLow, SchedInv, CycleInv
<1>2. CASE RearDone /\ Finish(CollapseToLow, pan)
  BY <1>1, <1>2, CollapseKeeps DEF RearDone
<1>3. ASSUME RearDone, NEW moves \in Compactions, moves # <<>>,
             cyc' = [cyc EXCEPT !.phase = "compact", !.todo = moves],
             UNCHANGED <<snap, saved>>
      PROVE  SchedInv(R)'
  <2>1. moves \in Seq(StepRecord) /\ StepsTo(moves, Front) /\ StepsFrom(moves, HighFront)
    BY CompactionFacts
  <2>2. /\ cyc' \in CycleRecord /\ cyc'.phase = "compact" /\ cyc'.todo = moves
        /\ cyc'.got = {}
    <3>1. cyc' = [phase |-> "compact", zone |-> cyc.zone, todo |-> moves,
                  picks |-> cyc.picks, got |-> cyc.got, used |-> cyc.used,
                  go |-> cyc.go]
      BY <1>1, <1>3 DEF CycleRecord
    <3> QED
      BY <1>1, <2>1, <3>1 DEF CycleRecord, Phases
  <2>3. CycleInv(R)'
    BY <1>1, <1>3, <2>1, <2>2 DEF RearDone, CycleInv, InitializeInv, DiscardInv,
       BackfillInv, CompactInv, EvacuateInv, LoadLowInv, LoadHighInv, LowPhases
  <2>4. SavedInv(R)'
    <3>1. cyc.phase # "discard"
      BY DEF DecideHighToLow
    <3> QED
      BY <1>1, <1>3, <2>2, <3>1, SavedLater
  <2> QED
    BY <1>1, <1>3, <2>2, <2>3, <2>4 DEF SchedInv, SupplyTracked, Undisturbed
<1>4. CASE Finish(snap, pan)
  BY <1>1, <1>4, FinishHere
<1> QED
  <2>1. \/ RearDone /\ Finish(CollapseToLow, pan)
        \/ \E moves \in Compactions :
              /\ RearDone /\ moves # <<>>
              /\ cyc' = [cyc EXCEPT !.phase = "compact", !.todo = moves]
              /\ UNCHANGED <<snap, saved>>
        \/ Finish(snap, pan)
    BY DEF DecideHighToLow
  <2> QED
    BY <1>2, <1>3, <1>4, <2>1

LEMMA CompactKeeps ==
    ASSUME NEW R, SchedInv(R), Compact
    PROVE  SchedInv(R)'
<1> DEFINE mv == Head(cyc.todo)
<1>1. /\ cyc.phase = "compact" /\ cyc.got = {} /\ SnapInv(snap, pan, R)
      /\ cyc \in CycleRecord /\ cyc.todo \in Seq(StepRecord) /\ cyc.todo # <<>>
      /\ Full(pan, Rear) = {}
      /\ StepsTo(cyc.todo, Front) /\ StepsFrom(cyc.todo, HighFront)
      /\ pan \in PanTable /\ up \in BOOLEAN /\ stock \in BOOLEAN /\ kills' = kills
  BY DEF Compact, SchedInv, CycleInv, CompactInv, CycleRecord
<1>2. /\ mv.to \in HighFront /\ mv.from \in Pan
      /\ StepsTo(Tail(cyc.todo), Front) /\ StepsFrom(Tail(cyc.todo), HighFront)
  <2>1. /\ mv.to \in Front /\ mv.from \in HighFront
        /\ StepsTo(Tail(cyc.todo), Front) /\ StepsFrom(Tail(cyc.todo), HighFront)
    BY <1>1, RestFacts
  <2> QED
    BY <2>1, AreaFacts
<1> HIDE DEF mv
<1>3. ASSUME Moves(mv.from, mv.to)
      PROVE  /\ pan' \in PanTable /\ Full(pan', Rear) = {}
             /\ up' \in BOOLEAN /\ stock' \in BOOLEAN
  <2>1. pan' \in PanTable /\ Full(pan', Rear) = Full(pan, Rear) \ {mv.from}
    BY <1>1, <1>2, <1>3, MovedPan
  <2> QED
    BY <1>1, <1>3, <2>1 DEF Moves
<1>4. CASE Moves(mv.from, mv.to) /\ Finish(CollapseToLow, pan')
  BY <1>1, <1>3, <1>4, CollapseKeeps
<1>5. CASE /\ Moves(mv.from, mv.to)
           /\ Len(cyc.todo) # 1
           /\ cyc' = [cyc EXCEPT !.todo = Tail(cyc.todo)] /\ UNCHANGED <<snap, saved>>
  <2>1. /\ pan' \in PanTable /\ Full(pan', Rear) = {}
        /\ up' \in BOOLEAN /\ stock' \in BOOLEAN
    BY <1>3, <1>5
  <2>2. /\ cyc' \in CycleRecord /\ cyc'.todo # <<>> /\ cyc'.todo = Tail(cyc.todo)
        /\ cyc'.phase = "compact" /\ cyc'.got = {}
    BY <1>1, <1>5, TailCycle
  <2>3. CycleInv(R)'
    BY <1>2, <2>1, <2>2 DEF CycleInv, InitializeInv, DiscardInv, BackfillInv,
       CompactInv, EvacuateInv, LoadLowInv, LoadHighInv, LowPhases
  <2>4. SavedInv(R)'
    BY <1>1, <1>5, <2>1, <2>2, SavedLater
  <2>5. SnapInv(snap, pan', R)
    BY <1>1, <2>1, PanShrinks
  <2> QED
    BY <1>1, <1>5, <2>1, <2>2, <2>3, <2>4, <2>5
       DEF SchedInv, SupplyTracked, Undisturbed
<1>6. CASE MoveFails /\ Finish(snap, pan)
  BY <1>1, <1>6, FinishKeeps DEF MoveFails, SchedInv, SupplyTracked
<1> QED
  BY <1>4, <1>5, <1>6 DEF Compact, mv

-----------------------------------------------------------------------------
(* The theorems.                                                           *)

LEMMA StepInv ==
    ASSUME NEW R, SchedInv(R), Step
    PROVE  SchedInv(R)'
<1>1. ASSUME NEW over \in SUBSET Running, RunCycle(over) PROVE SchedInv(R)'
  BY <1>1, RunCycleInv
<1>2. CASE Initialize
  BY <1>2, InitializeKeeps
<1>3. CASE Backfill
  BY <1>3, BackfillKeeps
<1>4. CASE DecideLow
  BY <1>4, DecideLowKeeps
<1>5. ASSUME NEW z \in LowZones, LaunchLow(z) PROVE SchedInv(R)'
  BY <1>5, LaunchLowKeeps
<1>6. CASE Evacuate
  BY <1>6, EvacuateKeeps
<1>7. CASE Load
  BY <1>7, LoadLowKeeps, LoadHighKeeps
<1>8. CASE Threshold
  BY <1>8, ThresholdKeeps
<1>9. CASE DecideHigh
  BY <1>9, DecideHighKeeps
<1>10. CASE DecideLowToHigh
  BY <1>10, DecideLowToHighKeeps
<1>11. CASE Finalize
  BY <1>11, FinalizeKeeps
<1>12. CASE DecideHighToLow
  BY <1>12, DecideHighToLowKeeps
<1>13. CASE Compact
  BY <1>13, CompactKeeps
<1>14. CASE Discard
  BY <1>14, DiscardKeeps
<1>15. ASSUME NEW p \in HighFront, Sale(p) PROVE SchedInv(R)'
  BY <1>15, SaleInv
<1>16. CASE Resume \/ Restock
  BY <1>16, PeopleInv
<1> QED
  BY <1>1, <1>2, <1>3, <1>4, <1>5, <1>6, <1>7, <1>8, <1>9, <1>10, <1>11, <1>12,
     <1>13, <1>14, <1>15, <1>16 DEF Step, CycleStep

\* What is set apart may be narrowed to the sausages that are still there.
LEMMA Narrowed ==
    ASSUME NEW R, SchedInv(R)', revived' = R \cap Full(pan', Rear)
    PROVE  SchedInv(revived)'
<1>1. PICK T : T = revived'
  OBVIOUS
<1>2. /\ Full(pan', Rear) \subseteq Full(pan', Rear) \cup T
      /\ Full(pan', Rear) \cap R \subseteq T
      /\ Full(pan', Rear) \subseteq R => Full(pan', Rear) \subseteq T
  BY <1>1
<1>3. SnapInv(snap', pan', R) => SnapInv(snap', pan', T)
  BY <1>2, SetApart
<1>4. SnapInv(saved', pan', R) => SnapInv(saved', pan', T)
  BY <1>2, SetApart
<1>5. SnapInv(snap', pan', revived') /\ SavedInv(revived)'
  BY <1>1, <1>3, <1>4 DEF SchedInv, SavedInv
<1>6. CycleInv(revived)'
  BY <1>1, <1>2 DEF SchedInv, CycleInv, InitializeInv, CompactInv
<1> QED
  BY <1>5, <1>6 DEF SchedInv

LEMMA KillsCount == ASSUME Step PROVE kills' = kills
BY DEF Step, CycleStep, RunCycle, Initialize, Backfill, DecideLow, LaunchLow, Evacuate,
   Load, Threshold, DecideHigh, DecideLowToHigh, Finalize, DecideHighToLow, Compact,
   Discard, Sale, Resume, Restock

\* Kills are counted and never forgotten, and what is written is no step of
\* the scheduler.
LEMMA StepCases ==
    ASSUME [SchedNext]_schedVars
    PROVE  /\ Step \/ Kill \/ UNCHANGED coreVars
           /\ ~Kill => kills' = kills
BY KillsCount DEF SchedNext, WritePans, schedVars, coreVars

\* Without a kill nothing is set apart.
LEMMA Clean ==
    ASSUME SchedInv(revived), Undisturbed
    PROVE  SchedInv({})
<1>1. revived = {}
  BY DEF SchedInv
<1> QED
  BY <1>1 DEF SchedInv, CycleInv, InitializeInv, SavedInv

LEMMA NextInv == Sound /\ [SchedNext]_schedVars => Sound'
<1> SUFFICES ASSUME Sound, [SchedNext]_schedVars PROVE Sound'
  OBVIOUS
<1>1. PICK R : R = revived
  OBVIOUS
<1>2. /\ SchedInv(R) /\ panSaved \in PanTable /\ R \subseteq Full(pan, Rear)
  BY <1>1 DEF Sound, SchedInv, CycleInv, SavedInv, InitializeInv, CompactInv
<1>3. CASE Step /\ Unwritten
  <2>1. SchedInv(R)'
    BY <1>2, <1>3, StepInv
  <2>2. panSaved' = panSaved /\ revived' = R \cap Full(pan', Rear)
    BY <1>1, <1>3 DEF Unwritten
  <2> QED
    BY <1>2, <2>1, <2>2, Narrowed DEF Sound
<1>4. CASE WritePans \/ UNCHANGED schedVars
  <2>1. UNCHANGED coreVars /\ revived' = revived /\ panSaved' \in PanTable
    BY <1>2, <1>4 DEF WritePans, schedVars, SchedInv
  <2>2. SchedInv(R)'
    BY <1>2, <2>1, PeopleInv
  <2>3. revived' = R \cap Full(pan', Rear)
    BY <1>1, <1>2, <2>1 DEF coreVars
  <2> QED
    BY <1>2, <2>1, <2>2, <2>3, Narrowed DEF Sound
<1>5. CASE Kill
  <2>1. PICK T : T = revived'
    OBVIOUS
  <2>2. SchedInv(T)' /\ panSaved' \in PanTable
    BY <1>1, <1>2, <1>5, <2>1, KillInv
  <2>3. T = T \cap Full(pan', Rear)
    BY <1>5, <2>1 DEF Kill
  <2> QED
    BY <2>1, <2>2, <2>3, Narrowed DEF Sound
<1> QED
  BY <1>3, <1>4, <1>5 DEF SchedNext

LEMMA SchedInvariant == SchedSpec => []Sound
  BY InitInv, NextInv, PTL DEF SchedSpec

(* The pans, the two snapshots and the cycle keep their types, for any     *)
(* machine and any number of kills.                                        *)
THEOREM SchedTypeCorrect == SchedSpec => []SchedTypeOK
  BY SchedInvariant, InvImplies, PTL

(* Whenever the scheduler is in low concurrency, nothing is left in the    *)
(* heat zone of high concurrency, which it would never look at: whatever   *)
(* is sold, expires or fails, and whenever the app is killed and starts    *)
(* with the snapshot that was saved beside pans that were written earlier. *)
(* Left are only sausages that such pans brought back.                     *)
THEOREM LowFindsRearEmpty == SchedSpec => []LowLeavesRearEmpty
  BY SchedInvariant, InvImplies, PTL

(* As long as nobody kills the app, each sausage in the heat zone belongs  *)
(* to the batch of the zone or to the one that is being loaded.            *)
THEOREM SupplyNeverLost == SchedSpec => []SupplyTracked
<1>1. Sound => SupplyTracked
  BY DEF Sound, SchedInv
<1> QED
  BY <1>1, SchedInvariant, PTL

(* As long as nobody kills the app, no sausage is loaded onto another.     *)
THEOREM LoadsFindRoom == SchedSpec => []LoadsOntoEmptyPan
  BY SchedInvariant, InvImplies, PTL

-----------------------------------------------------------------------------
(* The pits that are assigned, and the room in the front.                  *)

VacantFront(pn) == Vacant(pn, HighFront)

\* The pans that the discarding has still to come to.
Pending(c) ==
    {p \in HighFront : c.phase = "discard" /\ \E i \in DOMAIN c.todo : c.todo[i].to = p}

\* Who a pit is assigned to: an item of the batch, or a load of this launch.
PitsBooked(s, z0, got) ==
    \A q \in HighFront, z \in Zone : s.pit[q] = z =>
        \/ \E p \in Items(s, z) : s.item[p].pit = q
        \/ z0 = z /\ \E l \in got : l.from = q

\* High concurrency has a pit of its own for each item, low has no rear batch.
OwnPits(s) ==
    /\ s.mode = "LOW" => s.batch["main"] = "none"
    /\ s.mode = "HIGH" =>
           \A p, r \in Items(s, "main") :
               /\ s.item[p].pit \in Pits(s)
               /\ p # r => s.item[p].pit # s.item[r].pit

(* The pits, with those that discarding will register though the pan was   *)
(* emptied by others, find free pans enough.  On the way to low            *)
(* concurrency this is over when no batch is left to ask for them.         *)
Counts(s) ==
    s.mode = "HIGH" /\ (s.transition # "HIGH_TO_LOW" \/ s.batch["main"] # "none")

RoomInv(s, pn, more) ==
    Counts(s) => Cardinality(Pits(s) \cup (more \cap VacantFront(pn)))
                    =< Cardinality(VacantFront(pn))

BookCore(s, pn, more) == OwnPits(s) /\ RoomInv(s, pn, more)

PhaseInv ==
    /\ cyc.phase = "initialize" /\ snap.mode = "HIGH" =>
           Pits(snap) = {} /\ Holding(pan, HighFront) = {}
    /\ cyc.phase \in {"evacuate", "load"} => snap.batch[cyc.zone] = "none"
    /\ cyc.phase = "compact" =>
           snap.transition = "HIGH_TO_LOW" /\ snap.batch["main"] = "none"

\* Loads are of different pans, those of high concurrency for different pits.
GotInv ==
    cyc.phase = "load" =>
        /\ \A l, k \in cyc.got :
               l.to = k.to \/ (cyc.zone = "main" /\ l.from = k.from) => l = k
        /\ \A l \in cyc.got : \A i \in DOMAIN cyc.todo : l.to # cyc.todo[i].to
        /\ cyc.zone = "main" => snap.transition # "HIGH_TO_LOW"

Book ==
    /\ PitsBooked(snap, cyc.zone, cyc.got)
    /\ BookCore(snap, pan, Pending(cyc))
    /\ PhaseInv /\ GotInv

(* Room is kept when nothing more is claimed, when a pan is emptied for a  *)
(* claim that is made, and when a pan is filled for one that is fulfilled. *)
LEMMA RoomSteps ==
    ASSUME NEW A \in SUBSET HighFront, NEW B \in SUBSET HighFront,
           Cardinality(A) =< Cardinality(B),
           NEW C \in SUBSET HighFront, NEW D \in SUBSET HighFront
    PROVE  /\ C \subseteq A /\ B \subseteq D => Cardinality(C) =< Cardinality(D)
           /\ \A p \in HighFront :
                 C \subseteq A \cup {p} /\ D = B \cup {p} /\ p \notin B
                    => Cardinality(C) =< Cardinality(D)
           /\ \A a \in A, q \in B :
                 C \subseteq A \ {a} /\ D = B \ {q} => Cardinality(C) =< Cardinality(D)
<1>1. IsFiniteSet(HighFront)
  BY SchedAssumption, AreaFacts, FS_Subset
<1>2. \A S \in SUBSET HighFront : IsFiniteSet(S) /\ Cardinality(S) \in Nat
  BY <1>1, FS_Subset, FS_CardinalityType
<1>3. \A S, T \in SUBSET HighFront : S \subseteq T => Cardinality(S) =< Cardinality(T)
  BY <1>2, FS_Subset
<1>4. C \subseteq A /\ B \subseteq D => Cardinality(C) =< Cardinality(D)
  BY <1>2, <1>3
<1>5. ASSUME NEW p \in HighFront, C \subseteq A \cup {p}, D = B \cup {p}, p \notin B
      PROVE  Cardinality(C) =< Cardinality(D)
  <2>1. Cardinality(D) = Cardinality(B) + 1
    BY <1>2, <1>5, FS_AddElement
  <2>2. Cardinality(A \cup {p}) =< Cardinality(A) + 1
    <3>1. Cardinality(A \cup {p}) = IF p \in A THEN Cardinality(A) ELSE Cardinality(A) + 1
      BY <1>2, FS_AddElement
    <3> QED
      BY <1>2, <3>1
  <2>3. Cardinality(C) =< Cardinality(A \cup {p})
    BY <1>3, <1>5
  <2> QED
    BY <1>2, <1>5, <2>1, <2>2, <2>3
<1>6. ASSUME NEW a \in A, NEW q \in B, C \subseteq A \ {a}, D = B \ {q}
      PROVE  Cardinality(C) =< Cardinality(D)
  <2>1. Cardinality(D) = Cardinality(B) - 1
    BY <1>2, <1>6, FS_RemoveElement
  <2>2. Cardinality(A \ {a}) = Cardinality(A) - 1
    BY <1>2, FS_RemoveElement
  <2>3. Cardinality(C) =< Cardinality(A \ {a})
    BY <1>3, <1>6
  <2> QED
    BY <1>2, <1>6, <2>1, <2>2, <2>3
<1> QED
  BY <1>4, <1>5, <1>6

\* The set of those who claim a free pan.
LEMMA ClaimFacts ==
    ASSUME NEW s, NEW pn, NEW more
    PROVE  /\ Pits(s) \cup (more \cap VacantFront(pn)) \in SUBSET HighFront
           /\ VacantFront(pn) \in SUBSET HighFront
BY DEF Pits, VacantFront, Vacant

\* Nothing more is claimed, and no pan is filled.
LEMMA RoomKeeps ==
    ASSUME NEW s, NEW pn, NEW more, RoomInv(s, pn, more),
           NEW t, NEW pm, NEW less, Counts(t) => Counts(s),
           Pits(t) \cup (less \cap VacantFront(pm))
              \subseteq Pits(s) \cup (more \cap VacantFront(pn)),
           VacantFront(pn) \subseteq VacantFront(pm)
    PROVE  RoomInv(t, pm, less)
BY ClaimFacts, RoomSteps DEF RoomInv

\* A pan is emptied, and a pit may be registered for it.
LEMMA RoomEmptied ==
    ASSUME NEW s, NEW pn, NEW more, RoomInv(s, pn, more), NEW p \in HighFront,
           NEW t, NEW pm, NEW less, Counts(t) => Counts(s),
           Pits(t) \cup (less \cap VacantFront(pm))
              \subseteq (Pits(s) \cup (more \cap VacantFront(pn))) \cup {p},
           VacantFront(pm) = VacantFront(pn) \cup {p}, p \notin VacantFront(pn)
    PROVE  RoomInv(t, pm, less)
BY ClaimFacts, RoomSteps DEF RoomInv

\* A pan is filled for a pit.
LEMMA RoomFilled ==
    ASSUME NEW s, NEW pn, NEW more, RoomInv(s, pn, more),
           NEW q \in VacantFront(pn), NEW a \in Pits(s),
           NEW t, NEW pm, Counts(t) => Counts(s),
           more = {}, Pits(t) \subseteq Pits(s) \ {a},
           VacantFront(pm) = VacantFront(pn) \ {q}
    PROVE  RoomInv(t, pm, {})
BY ClaimFacts, RoomSteps DEF RoomInv

\* A snapshot without pits asks for no room.
LEMMA NoPitsRoom ==
    ASSUME NEW t, NEW pm, Pits(t) = {}
    PROVE  RoomInv(t, pm, {})
<1>1. IsFiniteSet(VacantFront(pm))
  BY SchedAssumption, AreaFacts, FS_Subset DEF VacantFront, Vacant
<1>2. Cardinality({}) = 0 /\ Cardinality(VacantFront(pm)) \in Nat
  BY <1>1, FS_EmptySet, FS_CardinalityType
<1> QED
  BY <1>2 DEF RoomInv

\* With nothing loaded, the zone that is at work does not matter.
LEMMA BookedAny ==
    ASSUME NEW s, NEW z0, NEW z1, PitsBooked(s, z0, {})
    PROVE  PitsBooked(s, z1, {})
BY DEF PitsBooked

LEMMA NoPending ==
    ASSUME NEW c, c.phase # "discard"
    PROVE  Pending(c) = {}
BY DEF Pending

\* The cycle ends: what has expired is on pans that are not free.
LEMMA FinishBook ==
    ASSUME NEW s, NEW pn, pn = pan', Finish(s, pn),
           PitsBooked(s, "main", {}), BookCore(s, pn, {})
    PROVE  Book'
<1>1. PICK expired \in SUBSET Holding(pn, HighFront) :
         /\ snap' = s
         /\ IF expired = {}
            THEN cyc' = Idle
            ELSE \E todo \in Steps(expired) :
                    cyc' = [Idle EXCEPT !.phase = "discard", !.todo = todo]
  BY DEF Finish
<1>2. /\ cyc'.phase \in {"idle", "discard"} /\ cyc'.zone = "main" /\ cyc'.got = {}
      /\ Pending(cyc') \subseteq expired
  <2>1. CASE expired = {}
    BY <1>1, <2>1 DEF Idle, Pending
  <2>2. CASE expired # {}
    <3>1. PICK todo \in Steps(expired) :
             cyc' = [Idle EXCEPT !.phase = "discard", !.todo = todo]
      BY <1>1, <2>2
    <3>2. StepsTo(todo, expired)
      <4>1. expired \in SUBSET Pan
        BY AreaFacts DEF Holding
      <4> QED
        BY <4>1, StepsFacts
    <3>3. cyc'.phase = "discard" /\ cyc'.zone = "main" /\ cyc'.got = {}
          /\ cyc'.todo = todo
      BY <3>1 DEF Idle
    <3> QED
      BY <3>2, <3>3 DEF Pending, StepsTo
  <2> QED
    BY <2>1, <2>2
<1>3. Pending(cyc') \cap VacantFront(pn) = {}
  BY <1>2 DEF Holding, VacantFront, Vacant
<1>4. RoomInv(s, pn, Pending(cyc'))
  BY <1>3, RoomKeeps DEF BookCore
<1>5. BookCore(snap', pan', Pending(cyc')) /\ PitsBooked(snap', cyc'.zone, cyc'.got)
  BY <1>1, <1>2, <1>4 DEF BookCore
<1>6. PhaseInv' /\ GotInv'
  BY <1>2 DEF PhaseInv, GotInv
<1> QED
  BY <1>5, <1>6 DEF Book

\* The cycle is at a place that remembers nothing.
LEMMA PlainBook ==
    ASSUME NEW z, PitsBooked(snap', z, {}), BookCore(snap', pan', {}), cyc'.got = {},
           cyc'.phase \notin {"discard", "initialize", "evacuate", "load", "compact"}
    PROVE  Book'
<1>1. Pending(cyc') = {}
  BY NoPending
<1>2. PitsBooked(snap', cyc'.zone, cyc'.got)
  BY BookedAny
<1>3. PhaseInv' /\ GotInv'
  BY DEF PhaseInv, GotInv
<1> QED
  BY <1>1, <1>2, <1>3 DEF Book

\* What a cycle without loads may rely on.
LEMMA BookNow ==
    ASSUME SchedInv({}), Book, cyc.phase \notin {"load", "discard"}
    PROVE  PitsBooked(snap, "main", {}) /\ BookCore(snap, pan, {}) /\ Pending(cyc) = {}
<1>1. cyc.got = {}
  BY DEF SchedInv, CycleInv
<1>2. PitsBooked(snap, "main", {})
  BY <1>1, BookedAny DEF Book
<1> QED
  BY <1>2, NoPending DEF Book

LEMMA RegisterBook ==
    ASSUME NEW s \in Snapshot, NEW q \in HighFront, NEW t, t = RegisterFrontPit(s, q)
    PROVE  /\ t.mode = s.mode /\ t.transition = s.transition /\ t.batch = s.batch
           /\ Pits(s) \subseteq Pits(t) /\ Pits(t) \subseteq Pits(s) \cup {q}
           /\ \A z0, got : PitsBooked(s, z0, got) => PitsBooked(t, z0, got)
           /\ OwnPits(s) => OwnPits(t)
           /\ Counts(t) <=> Counts(s)
<1>1. /\ t.mode = s.mode /\ t.transition = s.transition
      /\ t.item = s.item /\ t.batch = s.batch
      /\ \A r \in HighFront : \/ t.pit[r] = s.pit[r]
                              \/ r = q /\ s.pit[r] = "none" /\ t.pit[r] = "open"
  BY DEF RegisterFrontPit, Snapshot
<1>2. \A z \in Zone : Items(t, z) = Items(s, z)
  BY <1>1 DEF Items
<1>3. Pits(s) \subseteq Pits(t) /\ Pits(t) \subseteq Pits(s) \cup {q}
  BY <1>1 DEF Pits
<1>4. \A r \in HighFront, z \in Zone : t.pit[r] = z => s.pit[r] = z
  BY <1>1 DEF Zone
<1>5. \A z0, got : PitsBooked(s, z0, got) => PitsBooked(t, z0, got)
  BY <1>1, <1>2, <1>4 DEF PitsBooked
<1>6. OwnPits(s) => OwnPits(t)
  BY <1>1, <1>2, <1>3 DEF OwnPits, Zone
<1>7. Counts(t) <=> Counts(s)
  BY <1>1 DEF Counts
<1> QED
  BY <1>1, <1>3, <1>5, <1>6, <1>7

\* A sale makes the room that its pit asks for.
LEMMA SaleBook ==
    ASSUME SchedInv({}), Book, NEW p \in HighFront, Sale(p)
    PROVE  Book'
<1>1. /\ cyc' = cyc /\ pan[p] = "holding" /\ p \in Pan /\ p \notin VacantFront(pan)
      /\ snap \in Snapshot /\ pan \in PanTable
  BY AreaFacts DEF Sale, SchedInv, SnapInv, SnapCore, VacantFront, Vacant
<1>2. \/ /\ snap' = RegisterFrontPit(snap, p)
         /\ pan' = [pan EXCEPT ![p] = "empty"]
      \/ /\ snap' = snap
         /\ pan' = pan \/ pan' = [pan EXCEPT ![p] = "empty"]
  BY DEF Sale
<1>3. /\ snap'.mode = snap.mode /\ snap'.transition = snap.transition
      /\ snap'.batch = snap.batch /\ Pits(snap') \subseteq Pits(snap) \cup {p}
      /\ PitsBooked(snap', cyc.zone, cyc.got) /\ OwnPits(snap')
      /\ Counts(snap') <=> Counts(snap)
  BY <1>1, <1>2, RegisterBook DEF Book, BookCore
<1>4. RoomInv(snap, pan, Pending(cyc))
  BY DEF Book, BookCore
<1>5. RoomInv(snap', pan', Pending(cyc'))
  <2>1. CASE pan' = pan
    <3>1. snap' = snap
      BY <1>1, <1>2, <2>1 DEF PanTable
    <3> QED
      BY <1>1, <1>4, <2>1, <3>1
  <2>2. CASE pan' = [pan EXCEPT ![p] = "empty"]
    <3>1. VacantFront(pan') = VacantFront(pan) \cup {p}
      BY <1>1, <2>2, AreaFacts DEF VacantFront, Vacant, PanTable
    <3>2. Pits(snap') \cup (Pending(cyc') \cap VacantFront(pan'))
             \subseteq (Pits(snap) \cup (Pending(cyc) \cap VacantFront(pan))) \cup {p}
      BY <1>1, <1>3, <3>1
    <3> QED
      BY <1>1, <1>3, <1>4, <3>1, <3>2, RoomEmptied
  <2> QED
    BY <1>2, <2>1, <2>2
<1>6. PhaseInv'
  <2>1. ~(cyc.phase = "initialize" /\ snap.mode = "HIGH")
    BY <1>1 DEF Book, PhaseInv, Holding
  <2> QED
    BY <1>1, <1>3, <2>1 DEF Book, PhaseInv
<1>7. GotInv'
  BY <1>1, <1>3 DEF Book, GotInv
<1> QED
  BY <1>1, <1>3, <1>5, <1>6, <1>7 DEF Book, BookCore

LEMMA PeopleBook ==
    ASSUME Book, Resume \/ Restock \/ UNCHANGED coreVars
    PROVE  Book'
<1>1. UNCHANGED <<pan, snap, cyc>>
  BY DEF Resume, Restock, coreVars
<1> QED
  BY <1>1 DEF Book, PhaseInv, GotInv

\* A pan that is found empty was in the list, and had its claim already.
LEMMA DiscardBook ==
    ASSUME SchedInv({}), Book, Discard
    PROVE  Book'
<1> DEFINE p == Head(cyc.todo).to
           last == Len(cyc.todo) = 1
<1>1. /\ cyc \in CycleRecord /\ cyc.todo \in Seq(StepRecord)
      /\ cyc.phase = "discard" /\ cyc.todo # <<>>
      /\ StepsTo(cyc.todo, HighFront) /\ cyc.got = {}
      /\ snap \in Snapshot /\ pan \in PanTable
  BY DEF Discard, SchedInv, CycleInv, DiscardInv, CycleRecord, SnapInv, SnapCore
<1>2. /\ p \in HighFront /\ p \in Pan /\ p = cyc.todo[1].to /\ 1 \in DOMAIN cyc.todo
      /\ \A i \in DOMAIN Tail(cyc.todo) : /\ i + 1 \in DOMAIN cyc.todo
                                          /\ Tail(cyc.todo)[i] = cyc.todo[i + 1]
  BY <1>1, HeadTail, RestFacts, AreaFacts
<1>3. \/ /\ pan' = [pan EXCEPT ![p] = "empty"]
         /\ snap' = RegisterFrontPit(snap, p)
      \/ pan' = pan /\ snap' = snap
  BY DEF Discard, MoveFails
<1>4. /\ cyc'.phase \in {"idle", "discard"} /\ cyc'.got = {}
      /\ Pending(cyc') \subseteq Pending(cyc)
  <2>1. CASE last
    <3>1. cyc' = Idle
      BY <2>1 DEF Discard
    <3> QED
      BY <3>1 DEF Idle, Pending
  <2>2. CASE ~last
    <3>1. cyc' = [cyc EXCEPT !.todo = Tail(cyc.todo)]
      BY <2>2 DEF Discard
    <3>2. /\ cyc'.phase = "discard" /\ cyc'.todo = Tail(cyc.todo) /\ cyc'.got = {}
      BY <1>1, <2>2, <3>1, TailCycle
    <3> QED
      BY <1>1, <1>2, <3>2 DEF Pending
  <2> QED
    BY <2>1, <2>2
<1>5. p \in Pending(cyc)
  BY <1>1, <1>2 DEF Pending
<1> HIDE DEF p, last
<1>6. /\ Pits(snap') \subseteq Pits(snap) \cup {p}
      /\ PitsBooked(snap', cyc.zone, {}) /\ OwnPits(snap')
      /\ Counts(snap') <=> Counts(snap)
  BY <1>1, <1>2, <1>3, RegisterBook DEF Book, BookCore
<1>7. RoomInv(snap, pan, Pending(cyc))
  BY DEF Book, BookCore
<1>8. RoomInv(snap', pan', Pending(cyc'))
  <2>1. CASE pan' = pan /\ snap' = snap
    BY <1>4, <1>7, <2>1, RoomKeeps
  <2>2. CASE pan' = [pan EXCEPT ![p] = "empty"]
    <3>1. VacantFront(pan') = VacantFront(pan) \cup {p}
      BY <1>1, <1>2, <2>2, AreaFacts DEF VacantFront, Vacant, PanTable
    <3>2. CASE p \in VacantFront(pan)
      <4>1. Pits(snap') \cup (Pending(cyc') \cap VacantFront(pan'))
               \subseteq Pits(snap) \cup (Pending(cyc) \cap VacantFront(pan))
        BY <1>4, <1>5, <1>6, <3>1, <3>2
      <4> QED
        BY <1>6, <1>7, <3>1, <4>1, RoomKeeps
    <3>3. CASE p \notin VacantFront(pan)
      <4>1. Pits(snap') \cup (Pending(cyc') \cap VacantFront(pan'))
               \subseteq (Pits(snap) \cup (Pending(cyc) \cap VacantFront(pan))) \cup {p}
        BY <1>4, <1>6, <3>1
      <4> QED
        BY <1>2, <1>6, <1>7, <3>1, <3>3, <4>1, RoomEmptied
    <3> QED
      BY <3>2, <3>3
  <2> QED
    BY <1>3, <2>1, <2>2
<1>9. PhaseInv' /\ GotInv'
  BY <1>4 DEF PhaseInv, GotInv
<1>10. PitsBooked(snap', cyc'.zone, cyc'.got)
  BY <1>4, <1>6, BookedAny
<1> QED
  BY <1>6, <1>8, <1>9, <1>10 DEF Book, BookCore

\* High concurrency fills only machines without pits, and low has no claims.
LEMMA InitializeBook ==
    ASSUME SchedInv({}), Book, Initialize
    PROVE  Book'
<1> DEFINE p == Head(cyc.todo).to
<1>1. /\ cyc \in CycleRecord /\ cyc.phase = "initialize" /\ cyc.todo # <<>>
      /\ pan \in PanTable /\ cyc.got = {}
      /\ PitsBooked(snap, "main", {}) /\ BookCore(snap, pan, {})
  BY BookNow DEF Initialize, SchedInv, CycleInv
<1>2. snap.mode = "HIGH" => Pits(snap) = {} /\ Holding(pan, HighFront) = {}
  BY <1>1 DEF Book, PhaseInv
<1>3. Holding(pan', HighFront) \subseteq Holding(pan, HighFront)
  <2>1. pan' = pan \/ pan' = [pan EXCEPT ![p] = "heating"]
    BY DEF Initialize, Loads, LoadSkipped, MoveFails
  <2> HIDE DEF p
  <2> QED
    BY <1>1, <2>1, AreaFacts DEF PanTable, Holding
<1>4. BookCore(snap, pan', {})
  <2>1. RoomInv(snap, pan', {})
    <3>1. CASE snap.mode = "HIGH"
      BY <1>2, <3>1, NoPitsRoom
    <3>2. CASE snap.mode # "HIGH"
      BY <3>2 DEF RoomInv, Counts
    <3> QED
      BY <3>1, <3>2
  <2> QED
    BY <1>1, <2>1 DEF BookCore
<1>5. CASE Finish(snap, pan')
  BY <1>1, <1>4, <1>5, FinishBook
<1>6. CASE /\ Len(cyc.todo) # 1 /\ cyc' = [cyc EXCEPT !.todo = Tail(cyc.todo)]
           /\ UNCHANGED <<snap, saved>>
  <2>1. cyc'.phase = "initialize" /\ cyc'.got = {}
    BY <1>1, <1>6, TailCycle
  <2>2. PhaseInv' /\ GotInv'
    BY <1>2, <1>3, <1>6, <2>1 DEF PhaseInv, GotInv
  <2>3. Pending(cyc') = {}
    BY <2>1, NoPending
  <2>4. PitsBooked(snap, cyc'.zone, cyc'.got)
    BY <1>1, <2>1, BookedAny
  <2> QED
    BY <1>4, <1>6, <2>2, <2>3, <2>4 DEF Book
<1> QED
  BY <1>5, <1>6 DEF Initialize

\* What is cooked was not free, and is not.
LEMMA MarkVacant ==
    ASSUME NEW pn \in PanTable, NEW S, NEW pm, pm = MarkHolding(pn, S)
    PROVE  pm \in PanTable /\ VacantFront(pm) = VacantFront(pn)
BY AreaFacts DEF PanTable, MarkHolding, Heating, VacantFront, Vacant

LEMMA AdoptedBook ==
    ASSUME NEW s, NEW pn, SnapInv(s, pn, {}), NEW t \in Adopted(s),
           PitsBooked(s, "main", {}), BookCore(s, pn, {})
    PROVE  PitsBooked(t, "main", {}) /\ BookCore(t, pn, {})
<1>1. /\ SnapInv(t, pn, {})
      /\ \/ t = s
         \/ Pits(t) = {} /\ \A z \in Zone : t.batch[z] = "none"
  BY AdoptedKeeps
<1>2. CASE Pits(t) = {} /\ \A z \in Zone : t.batch[z] = "none"
  <2>1. t.batch["main"] = "none" /\ Items(t, "main") = {}
    BY <1>1, <1>2 DEF SnapInv, SnapCore, Zone
  <2>2. PitsBooked(t, "main", {})
    BY <1>2 DEF PitsBooked, Pits, Zone
  <2>3. OwnPits(t) /\ RoomInv(t, pn, {})
    BY <1>2, <2>1, NoPitsRoom DEF OwnPits
  <2> QED
    BY <2>2, <2>3 DEF BookCore
<1> QED
  BY <1>1, <1>2

LEMMA UpdateBook ==
    ASSUME NEW s, NEW pn, SnapInv(s, pn, {}), NEW pm, NEW over,
           NEW t, t = UpdateBatchStates(s, pm, over),
           PitsBooked(s, "main", {}), BookCore(s, pn, {})
    PROVE  PitsBooked(t, "main", {}) /\ BookCore(t, pn, {})
<1>1. /\ t.mode = s.mode /\ t.transition = s.transition
      /\ t.item = s.item /\ t.pit = s.pit
      /\ t.batch["main"] = "none" <=> s.batch["main"] = "none"
      /\ Pits(t) = Pits(s)
  BY UpdateKeeps DEF Zone
<1>2. \A z \in Zone : Items(t, z) = Items(s, z)
  BY <1>1 DEF Items
<1>3. PitsBooked(t, "main", {})
  BY <1>1, <1>2 DEF PitsBooked
<1>4. OwnPits(t)
  BY <1>1, <1>2 DEF OwnPits, BookCore, Zone
<1>5. Counts(t) <=> Counts(s)
  BY <1>1 DEF Counts
<1>6. RoomInv(t, pn, {})
  BY <1>1, <1>5, RoomKeeps DEF BookCore
<1> QED
  BY <1>3, <1>4, <1>6 DEF BookCore

LEMMA HoldBook ==
    ASSUME NEW s, NEW pn, SnapInv(s, pn, {}), NEW t, t = HoldBatchInPlace(s),
           PitsBooked(s, "main", {}), BookCore(s, pn, {})
    PROVE  PitsBooked(t, "main", {}) /\ BookCore(t, pn, {})
<1>1. /\ t.mode = s.mode /\ t.transition = s.transition
      /\ t.batch["main"] = s.batch["main"]
      /\ Items(t, "main") = Items(s, "main") /\ Pits(t) \subseteq Pits(s)
      /\ \A p \in Rear : t.item[p] = s.item[p]
      /\ s.mode = "HIGH" => Pits(t) = Pits(s)
      /\ KeepsPits(s, t)
  <2>1. PICK R : R = {}
    OBVIOUS
  <2>2. SnapInv(s, pn, R)
    BY <2>1
  <2> QED
    BY <2>2, HoldKeeps
<1>2. PitsBooked(t, "main", {})
  <2> SUFFICES ASSUME NEW q \in HighFront, NEW z \in Zone, t.pit[q] = z
               PROVE  \E p \in Items(t, z) : t.item[p].pit = q
    BY DEF PitsBooked
  <2>1. t.pit[q] # "none" /\ s.pit[q] = z
    BY <1>1 DEF KeepsPits, Zone
  <2>2. PICK p \in Items(s, z) : s.item[p].pit = q
    BY <2>1 DEF PitsBooked
  <2> QED
    BY <1>1, <2>1, <2>2 DEF KeepsPits
<1>3. Items(s, "main") \subseteq Rear
  BY ZoneFacts DEF Items
<1>4. OwnPits(t)
  BY <1>1, <1>3 DEF KeepsPits, OwnPits, BookCore
<1>5. RoomInv(t, pn, {})
  BY <1>1, RoomKeeps DEF BookCore, Counts
<1> QED
  BY <1>2, <1>4, <1>5 DEF BookCore

LEMMA NewBook ==
    ASSUME NEW m \in {"LOW", "HIGH"}, NEW pn, NEW t, t = NewSnapshot(m)
    PROVE  /\ PitsBooked(t, "main", {}) /\ BookCore(t, pn, {})
           /\ Pits(t) = {} /\ t.mode = m
<1>1. /\ t.item = [p \in Supply |-> NoItem] /\ t.pit = [q \in HighFront |-> "none"]
      /\ t.mode = m /\ t.batch = [z \in Zone |-> "none"]
  BY DEF NewSnapshot
<1>2. Items(t, "main") = {} /\ Pits(t) = {} /\ t.batch["main"] = "none"
  BY <1>1, ZoneFacts DEF Items, Pits, Zone
<1>3. PitsBooked(t, "main", {}) /\ OwnPits(t)
  BY <1>1, <1>2 DEF PitsBooked, OwnPits, Zone
<1> QED
  BY <1>1, <1>2, <1>3, NoPitsRoom DEF BookCore

LEMMA RunCycleBook ==
    ASSUME SchedInv({}), Book, NEW over, RunCycle(over)
    PROVE  Book'
<1>1. PICK s0 \in Adopted(snap) :
        LET pn0 == CompleteFrontInitialization(s0, pan, over)
            s1 == UpdateBatchStates(s0, pn0, over)
            pn == UpdatedPans(s0, pn0, over)
            s2 == HoldBatchInPlace(s1)
        IN /\ pan' = pn
           /\ \/ /\ Bare(s0, pn)
                 /\ snap' = NewSnapshot(s0.mode)
                 /\ \E todo \in Steps(FrontPlan(s0)) :
                        cyc' = [Idle EXCEPT !.phase = "initialize", !.todo = todo]
              \/ Finish(s1, pn)
              \/ /\ snap' = s2
                 /\ IF s2.batch["main"] = "READY"
                    THEN \E todo \in Steps(Items(s2, "main")) :
                            cyc' = [Idle EXCEPT !.phase = "backfill", !.todo = todo]
                    ELSE cyc' = [Idle EXCEPT !.phase = "decide"]
  BY DEF RunCycle
<1> DEFINE pn0 == CompleteFrontInitialization(s0, pan, over)
           s1 == UpdateBatchStates(s0, pn0, over)
           pn == UpdatedPans(s0, pn0, over)
           s2 == HoldBatchInPlace(s1)
<1>2. /\ cyc.phase = "idle" /\ pan \in PanTable /\ SnapInv(snap, pan, {})
      /\ PitsBooked(snap, "main", {}) /\ BookCore(snap, pan, {})
  BY BookNow DEF RunCycle, SchedInv
<1>3. pan' = pn
  BY <1>1
<1>4. VacantFront(pn) = VacantFront(pan) /\ Full(pn, Rear) = Full(pan, Rear)
  <2>1. /\ pn0 \in PanTable
        /\ VacantFront(pn0) = VacantFront(pan) /\ Full(pn0, Rear) = Full(pan, Rear)
    BY <1>2, MarkVacant, MarkFacts DEF CompleteFrontInitialization
  <2> HIDE DEF pn0
  <2> QED
    BY <2>1, MarkVacant, MarkFacts DEF UpdatedPans
<1> HIDE DEF pn, pn0
<1>5. BookCore(snap, pn, {})
  BY <1>2, <1>4, RoomKeeps DEF BookCore
<1>6. SnapInv(snap, pn, {})
  BY <1>2, <1>4, PanShrinks
<1>7. SnapInv(s0, pn, {}) /\ PitsBooked(s0, "main", {}) /\ BookCore(s0, pn, {})
  BY <1>2, <1>5, <1>6, AdoptedKeeps, AdoptedBook
<1>8. SnapInv(s1, pn, {}) /\ PitsBooked(s1, "main", {}) /\ BookCore(s1, pn, {})
  BY <1>7, UpdateBook, UpdateKeeps
<1> HIDE DEF s1
<1>9. PitsBooked(s2, "main", {}) /\ BookCore(s2, pn, {})
  BY <1>8, HoldBook
<1> HIDE DEF s2
<1>10. CASE /\ Bare(s0, pn)
            /\ snap' = NewSnapshot(s0.mode)
            /\ \E todo \in Steps(FrontPlan(s0)) :
                   cyc' = [Idle EXCEPT !.phase = "initialize", !.todo = todo]
  <2>1. s0.mode \in {"LOW", "HIGH"}
    BY <1>7 DEF SnapInv, SnapCore, Snapshot
  <2>2. /\ PitsBooked(snap', "main", {}) /\ BookCore(snap', pan', {})
        /\ Pits(snap') = {} /\ snap'.mode = s0.mode
    BY <1>10, <2>1, NewBook
  <2>3. s0.mode = "HIGH" => Holding(pan', HighFront) = {}
    BY <1>3, <1>10 DEF Bare, Full, Holding
  <2>4. cyc'.phase = "initialize" /\ cyc'.zone = "main" /\ cyc'.got = {}
    BY <1>10 DEF Idle
  <2>5. PhaseInv' /\ GotInv'
    BY <2>2, <2>3, <2>4 DEF PhaseInv, GotInv
  <2>6. Pending(cyc') = {}
    BY <2>4, NoPending
  <2> QED
    BY <2>2, <2>4, <2>5, <2>6 DEF Book
<1>11. CASE Finish(s1, pn)
  BY <1>3, <1>8, <1>11, FinishBook
<1>12. CASE /\ snap' = s2
            /\ IF s2.batch["main"] = "READY"
               THEN \E todo \in Steps(Items(s2, "main")) :
                       cyc' = [Idle EXCEPT !.phase = "backfill", !.todo = todo]
               ELSE cyc' = [Idle EXCEPT !.phase = "decide"]
  <2>1. cyc'.phase \in {"backfill", "decide"} /\ cyc'.got = {}
    BY <1>12 DEF Idle
  <2> QED
    BY <1>3, <1>9, <1>12, <2>1, PlainBook
<1> QED
  BY <1>1, <1>10, <1>11, <1>12 DEF pn, pn0, s1, s2

\* An item that is completed gives back the pit it had for itself.
LEMMA CompleteBook ==
    ASSUME NEW s, NEW pn, SnapCore(s, pn, {}), NEW p \in Items(s, "main"),
           s.mode = "HIGH",
           NEW pm, Full(pm, Rear) \subseteq Full(pn, Rear) \ {p},
           PitsBooked(s, "main", {}), OwnPits(s),
           NEW t, t = Complete(s, p)
    PROVE  /\ PitsBooked(t, "main", {}) /\ OwnPits(t) /\ t \in Snapshot
           /\ t.mode = "HIGH" /\ (Counts(t) => Counts(s))
           /\ s.item[p].pit \in Pits(s) /\ Pits(t) = Pits(s) \ {s.item[p].pit}
<1> DEFINE q == s.item[p].pit
<1>1. p \in Rear /\ Rear \subseteq Supply /\ \A z \in Zone : Items(s, z) \subseteq Supply
  BY ZoneFacts, AreaFacts DEF Items
<1>2. /\ t \in Snapshot /\ t.mode = s.mode /\ t.transition = s.transition
      /\ t.batch = s.batch /\ Pits(t) = Pits(s) \ {q}
      /\ \A z \in Zone : Items(t, z) = Items(s, z) \ {p}
      /\ \A r \in HighFront : t.pit[r] = IF r = q THEN "none" ELSE s.pit[r]
      /\ \A r \in Supply \ {p} :
            t.item[r].pit = IF s.item[r].pit = q THEN NoPit ELSE s.item[r].pit
  BY <1>1, CompleteKeeps DEF SnapCore
<1>3. PitsBooked(t, "main", {})
  <2> SUFFICES ASSUME NEW r \in HighFront, NEW z \in Zone, t.pit[r] = z
               PROVE  \E x \in Items(t, z) : t.item[x].pit = r
    BY DEF PitsBooked
  <2>1. r # q /\ s.pit[r] = z
    BY <1>2 DEF Zone
  <2>2. PICK x \in Items(s, z) : s.item[x].pit = r
    BY <2>1 DEF PitsBooked
  <2>3. x # p /\ x \in Supply
    BY <1>1, <2>1, <2>2
  <2> QED
    BY <1>2, <2>1, <2>2, <2>3
<1>4. /\ q \in Pits(s)
      /\ \A x, y \in Items(s, "main") :
            s.item[x].pit \in Pits(s) /\ (x # y => s.item[x].pit # s.item[y].pit)
  BY DEF OwnPits
<1>5. OwnPits(t)
  <2>1. \A x \in Items(t, "main") :
           /\ x \in Items(s, "main") /\ t.item[x].pit = s.item[x].pit
           /\ t.item[x].pit # q
    BY <1>1, <1>2, <1>4 DEF Zone
  <2> QED
    BY <1>2, <1>4, <2>1 DEF OwnPits
<1>6. Counts(t) => Counts(s)
  BY <1>2 DEF Counts
<1> HIDE DEF q
<1> QED
  BY <1>2, <1>3, <1>4, <1>5, <1>6 DEF q

LEMMA RetargetBook ==
    ASSUME NEW s, NEW pn, SnapInv(s, pn, {}), NEW p \in Items(s, "main"),
           NEW q, q \in HighFront \/ q = s.item[p].target,
           NEW t, t = [s EXCEPT !.item[p].target = q],
           PitsBooked(s, "main", {}), BookCore(s, pn, {})
    PROVE  PitsBooked(t, "main", {}) /\ BookCore(t, pn, {})
<1>1. /\ t.mode = s.mode /\ t.transition = s.transition
      /\ t.pit = s.pit /\ t.batch = s.batch
      /\ \A r \in Supply : t.item[r].pit = s.item[r].pit
      /\ \A z \in Zone : Items(t, z) = Items(s, z)
  BY RetargetKeeps
<1>2. /\ Pits(t) = Pits(s) /\ \A z \in Zone : Items(s, z) \subseteq Supply
      /\ "main" \in Zone
  BY <1>1, ZoneFacts DEF Pits, Items, Zone
<1>3. PitsBooked(t, "main", {})
  BY <1>1, <1>2 DEF PitsBooked
<1>4. OwnPits(t)
  BY <1>1, <1>2 DEF OwnPits, BookCore
<1>5. Counts(t) <=> Counts(s)
  BY <1>1 DEF Counts
<1>6. RoomInv(t, pn, {})
  BY <1>2, <1>5, RoomKeeps DEF BookCore
<1> QED
  BY <1>3, <1>4, <1>6 DEF BookCore

\* A batch that is closed asks for nothing.
LEMMA CloseBook ==
    ASSUME NEW s \in Snapshot, NEW pn, s.mode = "HIGH",
           PitsBooked(s, "main", {}), BookCore(s, pn, {}),
           NEW t, t = IF Items(s, "main") = {}
                      THEN [s EXCEPT !.batch["main"] = "none"] ELSE s
    PROVE  PitsBooked(t, "main", {}) /\ BookCore(t, pn, {})
<1>1. /\ t.mode = "HIGH" /\ t.transition = s.transition
      /\ t.item = s.item /\ t.pit = s.pit
      /\ s.batch["main"] = "none" => t.batch["main"] = "none"
  BY DEF Snapshot, Zone
<1>2. Pits(t) = Pits(s) /\ \A z \in Zone : Items(t, z) = Items(s, z)
  BY <1>1 DEF Pits, Items
<1>3. PitsBooked(t, "main", {})
  BY <1>1, <1>2 DEF PitsBooked
<1>4. OwnPits(t)
  BY <1>1, <1>2 DEF OwnPits, BookCore, Zone
<1>5. Counts(t) => Counts(s)
  BY <1>1 DEF Counts
<1>6. RoomInv(t, pn, {})
  BY <1>2, <1>5, RoomKeeps DEF BookCore
<1> QED
  BY <1>3, <1>4, <1>6 DEF BookCore

LEMMA NextBook ==
    ASSUME SchedInv({}), cyc.phase = "backfill", NEW s \in Snapshot, s.mode = "HIGH",
           PitsBooked(s, "main", {}), BookCore(s, pan', {}),
           \/ AfterItem(s)
           \/ /\ Len(cyc.todo) # 1 /\ snap' = s
              /\ \E q \in HighFront : cyc' = [cyc EXCEPT !.todo = Tail(cyc.todo),
                                                         !.used = cyc.used \cup {q}]
    PROVE  Book'
<1>1. /\ cyc \in CycleRecord /\ cyc.todo # <<>> /\ cyc.got = {}
  BY DEF SchedInv, CycleInv
<1>2. CASE Len(cyc.todo) = 1
  <2>1. /\ snap' = IF Items(s, "main") = {}
                   THEN [s EXCEPT !.batch["main"] = "none"] ELSE s
        /\ Goto("decide")
    BY <1>2 DEF AfterItem
  <2>2. PitsBooked(snap', "main", {}) /\ BookCore(snap', pan', {})
    BY <2>1, CloseBook
  <2>3. cyc'.phase = "decide" /\ cyc'.got = {}
    BY <1>1, <2>1, GotoCycle DEF Phases
  <2> QED
    BY <2>2, <2>3, PlainBook
<1>3. CASE Len(cyc.todo) # 1
  <2>1. snap' = s
    BY <1>3 DEF AfterItem
  <2>2. cyc'.phase = "backfill" /\ cyc'.got = {}
    <3>1. CASE cyc' = [cyc EXCEPT !.todo = Tail(cyc.todo)]
      BY <1>1, <1>3, <3>1, TailCycle
    <3>2. CASE \E q \in HighFront : cyc' = [cyc EXCEPT !.todo = Tail(cyc.todo),
                                                       !.used = cyc.used \cup {q}]
      BY <1>1, <3>2 DEF CycleRecord
    <3> QED
      BY <1>3, <3>1, <3>2 DEF AfterItem
  <2> QED
    BY <2>1, <2>2, PlainBook
<1> QED
  BY <1>2, <1>3

\* A sausage that comes to the front takes a free pan, and a pit is fulfilled.
LEMMA BackfillBook ==
    ASSUME SchedInv({}), Book, Backfill
    PROVE  Book'
<1> DEFINE p == Head(cyc.todo).to
<1>1. /\ cyc.phase = "backfill" /\ cyc \in CycleRecord
      /\ cyc.todo # <<>> /\ cyc.got = {}
      /\ pan \in PanTable /\ SnapInv(snap, pan, {}) /\ SnapCore(snap, pan, {})
      /\ PitsBooked(snap, "main", {}) /\ BookCore(snap, pan, {})
  BY BookNow DEF Backfill, SchedInv, SnapInv, CycleInv
<1>2. p \in Items(snap, "main")
  <2>1. StepsTo(cyc.todo, Items(snap, "main")) /\ cyc.todo \in Seq(StepRecord)
    BY <1>1 DEF SchedInv, CycleInv, BackfillInv, CycleRecord
  <2> QED
    BY <1>1, <2>1, RestFacts
<1>3. p \in Rear /\ p \in Pan /\ p \notin HighFront
  BY <1>2, ZoneFacts, AreaFacts DEF Items
<1>4. snap.mode = "HIGH" /\ snap \in Snapshot
  BY <1>1, <1>2 DEF SnapCore, BookCore, OwnPits, Snapshot, Zone
<1>5. CASE /\ pan[p] = "empty" /\ AfterItem(Complete(snap, p))
           /\ UNCHANGED <<pan, up, stock>>
  <2>1. Full(pan, Rear) \subseteq Full(pan, Rear) \ {p}
    BY <1>5 DEF Full
  <2> HIDE DEF p
  <2>2. PICK t : t = Complete(snap, p) /\ AfterItem(t) /\ pan' = pan
    BY <1>5
  <2>3. /\ PitsBooked(t, "main", {}) /\ OwnPits(t) /\ t \in Snapshot
        /\ t.mode = "HIGH" /\ (Counts(t) => Counts(snap))
        /\ Pits(t) \subseteq Pits(snap)
    <3>1. OwnPits(snap)
      BY <1>1 DEF BookCore
    <3>2. /\ PitsBooked(t, "main", {}) /\ OwnPits(t) /\ t \in Snapshot
          /\ t.mode = "HIGH" /\ (Counts(t) => Counts(snap))
          /\ Pits(t) = Pits(snap) \ {snap.item[p].pit}
      BY <1>1, <1>2, <1>4, <2>1, <2>2, <3>1, CompleteBook
    <3> QED
      BY <3>2
  <2>4. RoomInv(snap, pan, {}) /\ VacantFront(pan') = VacantFront(pan)
    BY <1>1, <2>2 DEF BookCore
  <2>5. RoomInv(t, pan', {})
    BY <2>3, <2>4, RoomKeeps
  <2>6. BookCore(t, pan', {})
    BY <2>3, <2>5 DEF BookCore
  <2> QED
    BY <1>1, <2>2, <2>3, <2>6, NextBook
<1>6. CASE AfterItem(snap) /\ UNCHANGED <<pan, up, stock>>
  BY <1>1, <1>4, <1>6, NextBook
<1>7. ASSUME NEW q \in IF Targets(snap) = {} THEN {snap.item[p].target}
                       ELSE Targets(snap),
             pan[q] = "empty",
             NEW s, s = [snap EXCEPT !.item[p].target = q],
             \/ /\ Moves(p, q)
                /\ LET t == Complete(s, p)
                   IN IF Len(cyc.todo) = 1
                      THEN AfterItem(t)
                      ELSE /\ snap' = t
                           /\ cyc' = [cyc EXCEPT !.todo = Tail(@), !.used = @ \cup {q}]
             \/ /\ MoveFails /\ snap' = s /\ Goto("decide")
      PROVE  Book'
  <2>1. q \in HighFront \/ q = snap.item[p].target
    BY <1>7, AreaFacts DEF Targets, FrontPlan, Vacant
  <2> HIDE DEF p
  <2>2. /\ SnapInv(s, pan, {}) /\ q \in HighFront /\ s.mode = "HIGH"
        /\ Items(s, "main") = Items(snap, "main")
        /\ PitsBooked(s, "main", {}) /\ BookCore(s, pan, {})
    <3>1. /\ SnapInv(s, pan, {}) /\ q \in HighFront /\ s.mode = "HIGH"
          /\ Items(s, "main") = Items(snap, "main")
      BY <1>1, <1>2, <1>4, <1>7, <2>1, RetargetKeeps
    <3> QED
      BY <1>1, <1>2, <1>7, <2>1, <3>1, RetargetBook
  <2>3. CASE MoveFails /\ snap' = s /\ Goto("decide")
    <3>1. cyc'.phase = "decide" /\ cyc'.got = {} /\ pan' = pan
      BY <1>1, <2>3, GotoCycle DEF Phases, MoveFails
    <3> QED
      BY <2>2, <2>3, <3>1, PlainBook
  <2>4. CASE /\ Moves(p, q)
             /\ LET t == Complete(s, p)
                IN IF Len(cyc.todo) = 1
                   THEN AfterItem(t)
                   ELSE /\ snap' = t
                        /\ cyc' = [cyc EXCEPT !.todo = Tail(@), !.used = @ \cup {q}]
    <3>1. PICK t :
             /\ t = Complete(s, p)
             /\ \/ AfterItem(t)
                \/ /\ Len(cyc.todo) # 1 /\ snap' = t
                   /\ \E r \in HighFront :
                         cyc' = [cyc EXCEPT !.todo = Tail(cyc.todo),
                                            !.used = cyc.used \cup {r}]
      BY <2>2, <2>4
    <3>2. Full(pan', Rear) \subseteq Full(pan, Rear) \ {p}
      BY <1>1, <1>3, <2>2, <2>4, MovedPan
    <3>3. q \in VacantFront(pan) /\ VacantFront(pan') = VacantFront(pan) \ {q}
      <4>1. \A r \in HighFront : pan'[r] = IF r = q THEN "holding" ELSE pan[r]
        BY <1>1, <1>3, <2>2, <2>4, AreaFacts DEF Moves, PanTable
      <4> QED
        BY <1>7, <2>2, <4>1 DEF VacantFront, Vacant
    <3>4. /\ PitsBooked(t, "main", {}) /\ OwnPits(t) /\ t \in Snapshot
          /\ t.mode = "HIGH" /\ (Counts(t) => Counts(s))
          /\ s.item[p].pit \in Pits(s) /\ Pits(t) = Pits(s) \ {s.item[p].pit}
      <4>1. SnapCore(s, pan, {}) /\ OwnPits(s) /\ p \in Items(s, "main")
        BY <1>2, <2>2 DEF SnapInv, BookCore
      <4>2. t = Complete(s, p)
        BY <3>1
      <4> QED
        BY <2>2, <3>2, <4>1, <4>2, CompleteBook
    <3>5. RoomInv(s, pan, {})
      BY <2>2 DEF BookCore
    <3>6. RoomInv(t, pan', {})
      BY <3>3, <3>4, <3>5, RoomFilled
    <3>7. BookCore(t, pan', {})
      BY <3>4, <3>6 DEF BookCore
    <3> QED
      BY <1>1, <3>1, <3>4, <3>7, NextBook
  <2> QED
    BY <1>7, <2>3, <2>4
<1> QED
  BY <1>5, <1>6, <1>7 DEF Backfill

\* Low concurrency has no claim on the front.
LEMMA LowCore ==
    ASSUME NEW s, s.mode = "LOW", s.batch["main"] = "none", NEW pn, NEW more
    PROVE  BookCore(s, pn, more)
BY DEF BookCore, OwnPits, RoomInv, Counts

LEMMA ReconcileBook ==
    ASSUME NEW s \in Snapshot, NEW t, t = ReconcileLowFrontPits(s),
           PitsBooked(s, "main", {})
    PROVE  /\ PitsBooked(t, "main", {})
           /\ t.mode = s.mode /\ t.batch = s.batch
<1>1. /\ t.mode = s.mode /\ t.item = s.item /\ t.batch = s.batch
      /\ \A q \in HighFront, z \in Zone : t.pit[q] = z => s.pit[q] = z
  BY DEF ReconcileLowFrontPits, Snapshot, Zone
<1>2. \A z \in Zone : Items(t, z) = Items(s, z)
  BY <1>1 DEF Items
<1> QED
  BY <1>1, <1>2 DEF PitsBooked

LEMMA DecideLowBook ==
    ASSUME SchedInv({}), Book, DecideLow
    PROVE  Book'
<1>1. /\ snap.mode = "LOW" /\ snap \in Snapshot
      /\ PitsBooked(snap, "main", {}) /\ BookCore(snap, pan, {})
      /\ snap' = ReconcileLowFrontPits(snap)
  BY BookNow DEF DecideLow, LowStable, SchedInv, SnapInv, SnapCore
<1>2. /\ PitsBooked(snap', "main", {})
      /\ snap'.mode = "LOW" /\ snap'.batch["main"] = "none"
  BY <1>1, ReconcileBook DEF BookCore, OwnPits
<1>3. cyc'.phase = "primary" /\ cyc'.got = {}
  BY DEF DecideLow, Idle
<1> QED
  BY <1>2, <1>3, LowCore, PlainBook

LEMMA LaunchLowBook ==
    ASSUME SchedInv({}), Book, NEW z \in LowZones, LaunchLow(z)
    PROVE  Book'
<1>1. /\ cyc.phase = z /\ z # "main" /\ cyc \in CycleRecord /\ cyc.got = {}
      /\ z \notin {"load", "discard"} /\ Following[z] \in {"secondary", "threshold"}
      /\ UNCHANGED <<pan, snap>>
  <2>1. z # "main" /\ z \notin {"load", "discard"}
        /\ Following[z] \in {"secondary", "threshold"}
    BY DEF LowZones, Following
  <2>2. cyc.phase = z /\ UNCHANGED <<pan, snap>>
    BY DEF LaunchLow
  <2>3. cyc \in CycleRecord /\ cyc.got = {}
    BY <2>1, <2>2 DEF SchedInv, CycleInv
  <2> QED
    BY <2>1, <2>2, <2>3
<1>2. PitsBooked(snap, "main", {}) /\ BookCore(snap, pan, {})
  BY <1>1, BookNow
<1>3. CASE cyc' = [Idle EXCEPT !.phase = Following[z], !.go = cyc.go]
  <2>1. cyc'.phase \in {"secondary", "threshold"} /\ cyc'.got = {}
    BY <1>1, <1>3 DEF Idle
  <2> QED
    BY <1>1, <1>2, <2>1, PlainBook
<1>4. CASE /\ ZoneFree(z)
           /\ cyc'.phase \in {"load", "evacuate"} /\ cyc'.zone = z /\ cyc'.got = {}
  <2>1. snap.batch[z] = "none"
    BY <1>4 DEF ZoneFree, Active
  <2>2. PhaseInv' /\ GotInv'
    BY <1>1, <1>4, <2>1 DEF PhaseInv, GotInv
  <2>3. Pending(cyc') = {}
    BY <1>4, NoPending
  <2>4. PitsBooked(snap, cyc'.zone, cyc'.got)
    BY <1>2, <1>4, BookedAny
  <2> QED
    BY <1>1, <1>2, <2>2, <2>3, <2>4 DEF Book
<1>5. ASSUME NEW picks, Launch(z, picks, TRUE)
      PROVE  cyc'.phase = "load" /\ cyc'.zone = z /\ cyc'.got = {}
  BY <1>5 DEF Launch, Idle
<1>6. ASSUME NEW picks, NEW moves,
             cyc' = [cyc EXCEPT !.phase = "evacuate", !.zone = z,
                                !.todo = moves, !.picks = picks]
      PROVE  cyc'.phase = "evacuate" /\ cyc'.zone = z /\ cyc'.got = {}
  BY <1>1, <1>6 DEF CycleRecord
<1> QED
  <2>1. \/ cyc' = [Idle EXCEPT !.phase = Following[z], !.go = cyc.go]
        \/ ZoneFree(z) /\ \E picks : Launch(z, picks, TRUE)
        \/ ZoneFree(z) /\ \E picks, moves :
              cyc' = [cyc EXCEPT !.phase = "evacuate", !.zone = z,
                                 !.todo = moves, !.picks = picks]
    BY DEF LaunchLow
  <2> QED
    BY <1>3, <1>4, <1>5, <1>6, <2>1

LEMMA ForgetBook ==
    ASSUME NEW s \in Snapshot, ItemsWhole(s), NEW q, NEW t, t = ForgetPit(s, q),
           PitsBooked(s, "main", {})
    PROVE  /\ PitsBooked(t, "main", {})
           /\ t.mode = s.mode /\ t.batch = s.batch
<1>1. /\ t.mode = s.mode /\ t.batch = s.batch
      /\ \A r \in HighFront : t.pit[r] = IF r = q THEN "none" ELSE s.pit[r]
      /\ \A p \in Supply :
            t.item[p].pit = IF s.item[p].pit = q THEN NoPit ELSE s.item[p].pit
      /\ \A z \in Zone : Items(t, z) = Items(s, z)
  BY ForgetFields
<1>2. \A z \in Zone : Items(s, z) \subseteq Supply
  BY ZoneFacts DEF Items
<1>3. PitsBooked(t, "main", {})
  <2> SUFFICES ASSUME NEW r \in HighFront, NEW z \in Zone, t.pit[r] = z
               PROVE  \E x \in Items(t, z) : t.item[x].pit = r
    BY DEF PitsBooked
  <2>1. r # q /\ s.pit[r] = z
    BY <1>1 DEF Zone
  <2>2. PICK x \in Items(s, z) : s.item[x].pit = r
    BY <2>1 DEF PitsBooked
  <2> QED
    BY <1>1, <1>2, <2>1, <2>2
<1> QED
  BY <1>1, <1>3

LEMMA EvacuateBook ==
    ASSUME SchedInv({}), Book, Evacuate
    PROVE  Book'
<1> DEFINE mv == Head(cyc.todo)
           picks == [i \in DOMAIN cyc.picks |->
                        IF cyc.picks[i].from = mv.to
                        THEN [cyc.picks[i] EXCEPT !.from = NoPit] ELSE cyc.picks[i]]
<1>1. /\ cyc.phase = "evacuate" /\ snap.mode = "LOW" /\ cyc \in CycleRecord
      /\ snap \in Snapshot /\ ItemsWhole(snap) /\ cyc.got = {}
      /\ cyc.zone \in LowZones /\ cyc.zone # "main"
  BY DEF Evacuate, SchedInv, CycleInv, EvacuateInv, LowPhases, LowZones,
     SnapInv, SnapCore
<1>2. PitsBooked(snap, "main", {}) /\ BookCore(snap, pan, {})
  BY <1>1, BookNow
<1>3. snap.batch[cyc.zone] = "none" /\ snap.batch["main"] = "none"
  BY <1>1, <1>2 DEF Book, PhaseInv, BookCore, OwnPits
<1> HIDE DEF mv, picks
<1>4. CASE MoveFails /\ UNCHANGED snap
           /\ cyc' = [Idle EXCEPT !.phase = Following[cyc.zone], !.go = cyc.go]
  <2>1. cyc'.phase \in {"secondary", "threshold"} /\ cyc'.got = {}
    BY <1>1, <1>4 DEF Idle, Following, LowZones
  <2> QED
    BY <1>2, <1>4, <2>1, PlainBook DEF MoveFails
<1>5. CASE /\ snap' = ForgetPit(snap, mv.to)
           /\ cyc' = IF Len(cyc.todo) = 1
                     THEN [cyc EXCEPT !.phase = "load", !.todo = picks,
                                      !.picks = <<>>, !.got = {}]
                     ELSE [cyc EXCEPT !.todo = Tail(cyc.todo), !.picks = picks]
  <2>1. /\ PitsBooked(snap', "main", {})
        /\ snap'.mode = "LOW" /\ snap'.batch = snap.batch
    BY <1>1, <1>2, <1>5, ForgetBook
  <2>2. cyc'.phase \in {"load", "evacuate"} /\ cyc'.zone = cyc.zone /\ cyc'.got = {}
    BY <1>1, <1>5 DEF CycleRecord
  <2>3. PhaseInv' /\ GotInv'
    BY <1>1, <1>3, <2>1, <2>2 DEF PhaseInv, GotInv
  <2>4. BookCore(snap', pan', Pending(cyc'))
    BY <1>3, <2>1, LowCore
  <2>5. PitsBooked(snap', cyc'.zone, cyc'.got)
    BY <2>1, <2>2, BookedAny
  <2> QED
    BY <2>3, <2>4, <2>5 DEF Book
<1> QED
  BY <1>4, <1>5 DEF Evacuate, mv, picks

\* When low concurrency gives up, every pit is that of a free pan.
LEMMA ThresholdBook ==
    ASSUME SchedInv({}), Book, Threshold
    PROVE  Book'
<1> DEFINE t == EnterLowToHigh
<1>1. /\ cyc.phase = "threshold" /\ snap.mode = "LOW" /\ SnapInv(snap, pan, {})
      /\ PitsBooked(snap, "main", {}) /\ BookCore(snap, pan, {})
      /\ pan' = pan
  BY BookNow DEF Threshold, SchedInv, CycleInv, LowPhases
<1>2. \/ Finish(t, pan)
      \/ Finish(snap, pan)
  BY DEF Threshold
<1>3. CASE Finish(snap, pan)
  BY <1>1, <1>3, FinishBook
<1>4. CASE Finish(t, pan)
  <2>1. /\ Items(t, "main") = Items(snap, "main") /\ t.mode = "HIGH"
        /\ \A q \in HighFront : /\ t.pit[q] \in {"none", "open"}
                                /\ t.pit[q] = "open" => pan[q] = "empty"
    BY <1>1, EnterKeeps
  <2>2. Items(snap, "main") = {}
    BY <1>1 DEF BookCore, OwnPits, SnapInv, SnapCore, Zone
  <2> HIDE DEF t
  <2>3. PitsBooked(t, "main", {}) /\ OwnPits(t)
    BY <2>1, <2>2 DEF PitsBooked, OwnPits, Zone
  <2>4. RoomInv(t, pan, {})
    <3>1. Pits(t) \subseteq VacantFront(pan)
      BY <2>1 DEF Pits, VacantFront, Vacant
    <3>2. IsFiniteSet(VacantFront(pan))
      BY SchedAssumption, AreaFacts, FS_Subset DEF VacantFront, Vacant
    <3>3. Cardinality(Pits(t)) =< Cardinality(VacantFront(pan))
      BY <3>1, <3>2, FS_Subset
    <3> QED
      BY <3>3 DEF RoomInv
  <2>5. BookCore(t, pan, {})
    BY <2>3, <2>4 DEF BookCore
  <2> QED
    BY <1>1, <1>4, <2>3, <2>5, FinishBook
<1> HIDE DEF t
<1> QED
  BY <1>2, <1>3, <1>4

-----------------------------------------------------------------------------
(* Loads book the pits they were picked for.                               *)

\* The batch takes over the pits of its loads.
LEMMA AddBook ==
    ASSUME NEW s, s \in Snapshot, ItemsWhole(s), NEW z \in Zone, Items(s, z) = {},
           NEW got \in SUBSET Pick,
           \A l \in got : /\ l.to \in ZonePans[z]
                          /\ z = "main" => l.from \in HighFront,
           \A l, k \in got : l.to = k.to => l = k,
           PitsBooked(s, z, got),
           NEW t, t = AddBatch(s, z, got)
    PROVE  PitsBooked(t, "main", {})
<1>1. CASE got = {}
  BY <1>1, BookedAny DEF AddBatch
<1>2. CASE got # {}
  <2>1. /\ t.pit = s.pit
        /\ \A p \in Supply : p \notin {l.to : l \in got} => t.item[p] = s.item[p]
        /\ \A p \in {l.to : l \in got} :
              /\ t.item[p] # NoItem
              /\ \E l \in got : l.to = p /\ t.item[p].pit = l.from
    <3>1. got \in SUBSET [from: HighFront \cup {NoPit}, to: Pan]
      BY DEF Pick
    <3>2. /\ t \in Snapshot /\ ItemsWhole(t)
          /\ t.mode = s.mode /\ t.transition = s.transition /\ t.pit = s.pit
          /\ t.batch = [s.batch EXCEPT ![z] = "HEATING"]
          /\ \A p \in Supply : p \notin {l.to : l \in got} => t.item[p] = s.item[p]
          /\ \A p \in {l.to : l \in got} :
                /\ t.item[p] # NoItem
                /\ \E l \in got : l.to = p /\ t.item[p].pit = l.from
      BY <1>2, <3>1, AddFields
    <3> QED
      BY <3>2
  <2> SUFFICES ASSUME NEW q \in HighFront, NEW y \in Zone, t.pit[q] = y
               PROVE  \E p \in Items(t, y) : t.item[p].pit = q
    BY DEF PitsBooked
  <2>2. \/ \E p \in Items(s, y) : s.item[p].pit = q
        \/ y = z /\ \E l \in got : l.from = q
    BY <2>1 DEF PitsBooked
  <2>3. CASE \E p \in Items(s, y) : s.item[p].pit = q
    <3>1. PICK p \in Items(s, y) : s.item[p].pit = q
      BY <2>3
    <3>2. y # z /\ p \in ZonePans[y] /\ p \in Supply /\ s.item[p] # NoItem
      BY <3>1, ZoneFacts DEF Items
    <3>3. ZonePans[y] \cap ZonePans[z] = {}
      BY <3>2, ZoneFacts, AreaFacts DEF Zone, LowPans
    <3>4. p \notin {l.to : l \in got}
      BY <3>2, <3>3
    <3> QED
      BY <2>1, <3>1, <3>2, <3>4 DEF Items
  <2>4. CASE y = z /\ \E l \in got : l.from = q
    <3>1. PICK l \in got : l.from = q
      BY <2>4
    <3>2. t.item[l.to] # NoItem /\ t.item[l.to].pit = q
      BY <2>1, <3>1
    <3>3. l.to \in Items(t, y)
      BY <2>4, <3>2 DEF Items
    <3> QED
      BY <3>2, <3>3
  <2> QED
    BY <2>2, <2>3, <2>4
<1> QED
  BY <1>1, <1>2

\* What a load in either zone does to the pits and to those that are loaded.
LEMMA LoadFacts ==
    ASSUME SchedInv({}), Book, Load, NEW s, NEW got,
           Loaded(Head(cyc.todo), s, got) \/ NotLoaded(s, got)
    PROVE  /\ s \in Snapshot /\ ItemsWhole(s)
           /\ s.mode = snap.mode /\ s.transition = snap.transition
           /\ s.item = snap.item /\ s.batch = snap.batch
           /\ PitsBooked(s, cyc.zone, got)
           /\ got \in SUBSET Pick
           /\ \A l, k \in got : l.to = k.to => l = k
           /\ \A l \in got : l.to \in ZonePans[cyc.zone]
           /\ \A l \in got : \A i \in DOMAIN Tail(cyc.todo) : l.to # Tail(cyc.todo)[i].to
           /\ cyc.zone = "main" =>
                 /\ Pits(s) = Pits(snap)
                 /\ \A l \in got : l.from \in Pits(snap)
                 /\ \A l, k \in got : l.from = k.from => l = k
<1> DEFINE l == Head(cyc.todo)
           z == cyc.zone
<1>1. /\ cyc.phase = "load" /\ cyc \in CycleRecord /\ cyc.todo \in Seq(StepRecord)
      /\ cyc.todo # <<>> /\ cyc.got \in SUBSET Pick /\ z \in Zone
      /\ snap \in Snapshot /\ ItemsWhole(snap)
  BY DEF Load, SchedInv, CycleInv, CycleRecord, SnapInv, SnapCore
<1>2. /\ StepsTo(cyc.todo, ZonePans[z]) /\ DistinctTo(cyc.todo)
      /\ StepsFrom(cyc.todo, HighFront \cup {NoPit})
      /\ \A g \in cyc.got : g.to \in ZonePans[z]
  <2>1. CASE z = "main"
    <3>1. /\ StepsTo(cyc.todo, Rear) /\ DistinctTo(cyc.todo)
          /\ StepsFrom(cyc.todo, Pits(snap)) /\ \A g \in cyc.got : g.to \in Rear
      BY <1>1, <2>1 DEF SchedInv, CycleInv, LoadHighInv
    <3> QED
      BY <2>1, <3>1, ZoneFacts DEF StepsFrom, Pits
  <2>2. CASE z # "main"
    BY <1>1, <2>2 DEF SchedInv, CycleInv, LoadLowInv, LoadableInv
  <2> QED
    BY <2>1, <2>2
<1>3. z = "main" =>
         /\ StepsFrom(cyc.todo, Pits(snap))
         /\ \A g \in cyc.got : /\ g.from \in Pits(snap)
                               /\ \A i \in DOMAIN cyc.todo : g.from # cyc.todo[i].from
  BY <1>1 DEF SchedInv, CycleInv, LoadHighInv
<1>4. /\ l \in StepRecord /\ l.to \in ZonePans[z] /\ l.from \in HighFront \cup {NoPit}
      /\ \A i \in DOMAIN Tail(cyc.todo) : Tail(cyc.todo)[i].to # l.to
      /\ z = "main" => l.from \in Pits(snap)
  BY <1>1, <1>2, <1>3, RestFacts
<1>5. l \in Pick
  BY <1>4 DEF StepRecord, Pick
<1>6. /\ \A g, k \in cyc.got :
            g.to = k.to \/ (z = "main" /\ g.from = k.from) => g = k
      /\ \A g \in cyc.got : \A i \in DOMAIN cyc.todo : g.to # cyc.todo[i].to
      /\ PitsBooked(snap, z, cyc.got)
  BY <1>1 DEF Book, GotInv
<1>7. /\ l = cyc.todo[1] /\ 1 \in DOMAIN cyc.todo
      /\ \A i \in DOMAIN Tail(cyc.todo) : /\ i + 1 \in DOMAIN cyc.todo
                                          /\ Tail(cyc.todo)[i] = cyc.todo[i + 1]
  BY <1>1, HeadTail
<1>8. /\ \A g \in cyc.got : g.to # l.to /\ (z = "main" => g.from # l.from)
      /\ \A g \in cyc.got : \A i \in DOMAIN Tail(cyc.todo) : g.to # Tail(cyc.todo)[i].to
  BY <1>3, <1>6, <1>7
<1>9. CASE NotLoaded(s, got)
  BY <1>1, <1>2, <1>3, <1>6, <1>8, <1>9 DEF NotLoaded
<1>10. CASE Loaded(l, s, got)
  <2>1. /\ got = cyc.got \cup {l}
        /\ s = IF l.from = NoPit THEN snap ELSE [snap EXCEPT !.pit[l.from] = z]
    BY <1>10 DEF Loaded
  <2> HIDE DEF l, z
  <2>2. /\ s \in Snapshot /\ s.mode = snap.mode /\ s.transition = snap.transition
        /\ s.item = snap.item /\ s.batch = snap.batch
        /\ \A q \in HighFront : s.pit[q] = IF q = l.from THEN z ELSE snap.pit[q]
    BY <1>1, <1>4, <2>1, AreaFacts DEF Snapshot
  <2>3. ItemsWhole(s) /\ \A y \in Zone : Items(s, y) = Items(snap, y)
    BY <1>1, <2>2 DEF ItemsWhole, Items
  <2>4. PitsBooked(s, z, got)
    BY <1>6, <2>1, <2>2, <2>3 DEF PitsBooked
  <2>5. z = "main" => Pits(s) = Pits(snap)
    BY <1>4, <2>2 DEF Pits
  <2>6. /\ got \in SUBSET Pick
        /\ \A g, k \in got : g.to = k.to => g = k
        /\ \A g \in got : g.to \in ZonePans[z]
        /\ z = "main" => /\ \A g \in got : g.from \in Pits(snap)
                         /\ \A g, k \in got : g.from = k.from => g = k
    BY <1>1, <1>2, <1>3, <1>4, <1>5, <1>6, <1>8, <2>1
  <2>7. \A g \in got : \A i \in DOMAIN Tail(cyc.todo) : g.to # Tail(cyc.todo)[i].to
    BY <1>4, <1>8, <2>1
  <2> QED
    BY <2>2, <2>3, <2>4, <2>5, <2>6, <2>7 DEF z
<1> QED
  BY <1>9, <1>10

LEMMA AddOwn ==
    ASSUME NEW s, s \in Snapshot, ItemsWhole(s), NEW z \in Zone, Items(s, z) = {},
           NEW got \in SUBSET Pick,
           \A l \in got : /\ l.to \in ZonePans[z]
                          /\ z = "main" => l.from \in HighFront,
           s.mode = "LOW" => z # "main" /\ s.batch["main"] = "none",
           s.mode = "HIGH" =>
              /\ z = "main"
              /\ \A l \in got : l.from \in Pits(s)
              /\ \A l, k \in got : l.from = k.from => l = k,
           NEW t, t = AddBatch(s, z, got)
    PROVE  /\ OwnPits(t) /\ Pits(t) = Pits(s)
           /\ t.mode = s.mode /\ t.transition = s.transition
<1>1. "main" \in Zone
  BY DEF Zone
<1>2. CASE got = {}
  BY <1>1, <1>2 DEF AddBatch, OwnPits
<1>3. CASE got # {}
  <2>1. got \in SUBSET [from: HighFront \cup {NoPit}, to: Pan]
    BY DEF Pick
  <2>2. /\ t.mode = s.mode /\ t.transition = s.transition /\ t.pit = s.pit
        /\ t.batch = [s.batch EXCEPT ![z] = "HEATING"]
        /\ \A p \in Supply : p \notin {l.to : l \in got} => t.item[p] = s.item[p]
        /\ \A p \in {l.to : l \in got} :
              /\ t.item[p] # NoItem
              /\ \E l \in got : l.to = p /\ t.item[p].pit = l.from
    BY <1>3, <2>1, AddFields
  <2>3. Pits(t) = Pits(s)
    BY <2>2 DEF Pits
  <2>4. s.mode = "LOW" => t.batch["main"] = "none"
    BY <1>1, <2>2 DEF Snapshot
  <2>5. ASSUME s.mode = "HIGH", NEW p \in Items(t, "main")
        PROVE  \E l \in got : /\ l.to = p /\ t.item[p].pit = l.from
                              /\ l.from \in Pits(t)
    <3>1. p \in Rear /\ p \in Supply /\ t.item[p] # NoItem
      BY ZoneFacts, AreaFacts DEF Items
    <3>2. s.item[p] = NoItem
      BY <2>5, <3>1, ZoneFacts DEF Items
    <3>3. PICK l \in got : l.to = p /\ t.item[p].pit = l.from
      BY <2>2, <3>1, <3>2
    <3> QED
      BY <2>3, <2>5, <3>3
  <2>6. ASSUME s.mode = "HIGH", NEW p \in Items(t, "main"), NEW r \in Items(t, "main"),
               p # r
        PROVE  t.item[p].pit # t.item[r].pit
    <3>1. PICK l \in got : l.to = p /\ t.item[p].pit = l.from
      BY <2>5, <2>6
    <3>2. PICK k \in got : k.to = r /\ t.item[r].pit = k.from
      BY <2>5, <2>6
    <3>3. l # k
      BY <2>6, <3>1, <3>2
    <3> QED
      BY <2>6, <3>1, <3>2, <3>3
  <2>7. OwnPits(t)
    BY <2>2, <2>4, <2>5, <2>6 DEF OwnPits
  <2> QED
    BY <2>2, <2>3, <2>7
<1> QED
  BY <1>2, <1>3

LEMMA LoadBook ==
    ASSUME SchedInv({}), Book, Load
    PROVE  Book'
<1> DEFINE z == cyc.zone
           rest == Tail(cyc.todo)
<1>1. /\ cyc.phase = "load" /\ cyc \in CycleRecord /\ z \in Zone
      /\ cyc.todo # <<>> /\ pan \in PanTable /\ SnapInv(snap, pan, {})
      /\ snap.batch[z] = "none"
      /\ RoomInv(snap, pan, Pending(cyc)) /\ OwnPits(snap) /\ Pending(cyc) = {}
  BY NoPending DEF Load, SchedInv, CycleInv, CycleRecord, Book, PhaseInv, BookCore
<1>2. /\ z = "main" => snap.mode = "HIGH" /\ snap.transition # "HIGH_TO_LOW"
      /\ z # "main" => snap.mode = "LOW" /\ snap.batch["main"] = "none"
  BY <1>1 DEF SchedInv, CycleInv, LoadHighInv, LoadLowInv, Book, GotInv, OwnPits
<1>3. PICK s, got :
         /\ Loaded(Head(cyc.todo), s, got) \/ NotLoaded(s, got)
         /\ \/ /\ Len(cyc.todo) = 1
               /\ snap' = AddBatch(s, z, got)
               /\ cyc' = [Idle EXCEPT !.phase = Following[z], !.go = cyc.go]
            \/ /\ Len(cyc.todo) # 1 /\ snap' = s
               /\ cyc' = [cyc EXCEPT !.todo = rest, !.got = got]
  BY LoadCases
<1>4. /\ s \in Snapshot /\ ItemsWhole(s)
      /\ s.mode = snap.mode /\ s.transition = snap.transition
      /\ s.item = snap.item /\ s.batch = snap.batch
      /\ PitsBooked(s, z, got)
      /\ got \in SUBSET Pick
      /\ \A l, k \in got : l.to = k.to => l = k
      /\ \A l \in got : l.to \in ZonePans[z]
      /\ \A l \in got : \A i \in DOMAIN rest : l.to # rest[i].to
      /\ z = "main" => /\ Pits(s) = Pits(snap)
                       /\ \A l \in got : l.from \in Pits(snap)
                       /\ \A l, k \in got : l.from = k.from => l = k
  BY <1>3, LoadFacts
<1>5. Items(snap, z) = {} /\ Items(s, z) = {}
  BY <1>1, <1>4 DEF SnapInv, SnapCore, Items
<1>6. z = "main" => VacantFront(pan') = VacantFront(pan)
  <2> SUFFICES ASSUME z = "main" PROVE VacantFront(pan') = VacantFront(pan)
    OBVIOUS
  <2>1. CASE NotLoaded(s, got)
    BY <2>1 DEF NotLoaded, LoadSkipped, MoveFails
  <2>2. CASE Loaded(Head(cyc.todo), s, got)
    <3>1. Head(cyc.todo).to \in Rear
      <4>1. StepsTo(cyc.todo, Rear) /\ cyc.todo \in Seq(StepRecord)
        BY <1>1 DEF SchedInv, CycleInv, LoadHighInv, CycleRecord
      <4> QED
        BY <1>1, <4>1, RestFacts
    <3>2. pan' = [pan EXCEPT ![Head(cyc.todo).to] = "heating"]
      BY <2>2 DEF Loaded, Loads
    <3> QED
      BY <1>1, <3>1, <3>2, AreaFacts DEF VacantFront, Vacant, PanTable
  <2> QED
    BY <1>3, <2>1, <2>2
<1> HIDE DEF z, rest
<1>7. CASE /\ Len(cyc.todo) = 1
           /\ snap' = AddBatch(s, z, got)
           /\ cyc' = [Idle EXCEPT !.phase = Following[z], !.go = cyc.go]
  <2>1. \A l \in got : /\ l.to \in ZonePans[z]
                       /\ z = "main" => l.from \in HighFront
    BY <1>4 DEF Pits
  <2>2. PitsBooked(snap', "main", {})
    BY <1>1, <1>4, <1>5, <1>7, <2>1, AddBook
  <2>3. /\ OwnPits(snap') /\ Pits(snap') = Pits(s)
        /\ snap'.mode = s.mode /\ snap'.transition = s.transition
    <3>1. /\ s.mode = "LOW" => z # "main" /\ s.batch["main"] = "none"
          /\ s.mode = "HIGH" =>
                /\ z = "main"
                /\ \A l \in got : l.from \in Pits(s)
                /\ \A l, k \in got : l.from = k.from => l = k
      BY <1>2, <1>4
    <3> QED
      BY <1>1, <1>4, <1>5, <1>7, <2>1, <3>1, AddOwn
  <2>4. RoomInv(snap', pan', {})
    <3>1. CASE z = "main"
      <4>1. Counts(snap)
        BY <1>2, <3>1 DEF Counts
      <4> QED
        BY <1>1, <1>4, <1>6, <2>3, <3>1, <4>1, RoomKeeps
    <3>2. CASE z # "main"
      BY <1>2, <1>4, <2>3, <3>2 DEF RoomInv, Counts
    <3> QED
      BY <3>1, <3>2
  <2>5. cyc'.phase \in {"secondary", "threshold", "finalize"} /\ cyc'.got = {}
    BY <1>1, <1>7 DEF Idle, Following, Zone
  <2> QED
    BY <2>2, <2>3, <2>4, <2>5, PlainBook DEF BookCore
<1>8. CASE /\ Len(cyc.todo) # 1 /\ snap' = s
           /\ cyc' = [cyc EXCEPT !.todo = rest, !.got = got]
  <2>1. /\ cyc'.phase = "load" /\ cyc'.zone = z /\ cyc'.got = got /\ cyc'.todo = rest
    BY <1>1, <1>4, <1>8, LoadRecord DEF z, rest
  <2>2. OwnPits(s)
    BY <1>1, <1>2, <1>4, <1>5 DEF OwnPits
  <2>3. RoomInv(s, pan', {})
    <3>1. CASE z = "main"
      <4>1. Counts(snap)
        BY <1>2, <3>1 DEF Counts
      <4> QED
        BY <1>1, <1>4, <1>6, <3>1, <4>1, RoomKeeps
    <3>2. CASE z # "main"
      BY <1>2, <1>4, <3>2 DEF RoomInv, Counts
    <3> QED
      BY <3>1, <3>2
  <2>4. Pending(cyc') = {}
    BY <2>1, NoPending
  <2>5. PhaseInv'
    BY <1>1, <1>4, <1>8, <2>1 DEF PhaseInv
  <2>6. GotInv'
    BY <1>2, <1>4, <1>8, <2>1 DEF GotInv
  <2>7. PitsBooked(snap', cyc'.zone, cyc'.got)
    BY <1>4, <1>8, <2>1
  <2> QED
    BY <1>8, <2>2, <2>3, <2>4, <2>5, <2>6, <2>7 DEF Book, BookCore
<1> QED
  BY <1>3, <1>7, <1>8

-----------------------------------------------------------------------------
(* The mode and the transition, again.                                     *)

\* The way to low concurrency begins while the pits count.
LEMMA TransitionBook ==
    ASSUME NEW s \in Snapshot, NEW pn, NEW x, Counts(s),
           NEW t, t = [s EXCEPT !.transition = x],
           PitsBooked(s, "main", {}), BookCore(s, pn, {})
    PROVE  PitsBooked(t, "main", {}) /\ BookCore(t, pn, {})
<1>1. /\ t.mode = s.mode /\ t.item = s.item /\ t.pit = s.pit /\ t.batch = s.batch
  BY DEF Snapshot
<1>2. Pits(t) = Pits(s) /\ \A z \in Zone : Items(t, z) = Items(s, z)
  BY <1>1 DEF Pits, Items
<1>3. PitsBooked(t, "main", {})
  BY <1>1, <1>2 DEF PitsBooked
<1>4. OwnPits(t)
  BY <1>1, <1>2 DEF OwnPits, BookCore, Zone
<1>5. RoomInv(t, pn, {})
  BY <1>2, RoomKeeps DEF BookCore
<1> QED
  BY <1>3, <1>4, <1>5 DEF BookCore

LEMMA FinishTransitionBook ==
    ASSUME SchedInv({}), NEW x, Finish([snap EXCEPT !.transition = x], pan), pan' = pan,
           Counts(snap), PitsBooked(snap, "main", {}), BookCore(snap, pan, {})
    PROVE  Book'
<1>1. PICK t : t = [snap EXCEPT !.transition = x] /\ Finish(t, pan)
  OBVIOUS
<1>2. snap \in Snapshot
  BY DEF SchedInv, SnapInv, SnapCore
<1>3. PitsBooked(t, "main", {}) /\ BookCore(t, pan, {})
  BY <1>1, <1>2, TransitionBook
<1> QED
  BY <1>1, <1>3, FinishBook

LEMMA LaunchHighBook ==
    ASSUME SchedInv({}), Book, cyc.phase = "decide", MayLaunchHigh,
           snap.transition # "HIGH_TO_LOW", NEW picks, NEW go,
           Launch("main", picks, go), UNCHANGED <<pan, snap>>
    PROVE  Book'
<1>1. PitsBooked(snap, "main", {}) /\ BookCore(snap, pan, {})
  BY BookNow
<1>2. cyc'.phase = "load" /\ cyc'.zone = "main" /\ cyc'.got = {}
  BY DEF Launch, Idle
<1>3. snap.batch["main"] = "none"
  BY DEF MayLaunchHigh, Active
<1>4. PhaseInv' /\ GotInv'
  BY <1>2, <1>3 DEF PhaseInv, GotInv
<1>5. Pending(cyc') = {}
  BY <1>2, NoPending
<1> QED
  BY <1>1, <1>2, <1>4, <1>5 DEF Book

LEMMA DecideHighBook ==
    ASSUME SchedInv({}), Book, DecideHigh
    PROVE  Book'
<1>1. /\ cyc.phase = "decide" /\ snap.mode = "HIGH" /\ snap.transition = "NONE"
      /\ pan' = pan /\ PitsBooked(snap, "main", {}) /\ BookCore(snap, pan, {})
  BY BookNow DEF DecideHigh
<1>2. CASE Finish([snap EXCEPT !.transition = "HIGH_TO_LOW"], pan)
  BY <1>1, <1>2, FinishTransitionBook DEF Counts
<1>3. CASE /\ MayLaunchHigh
           /\ \E picks \in Picks("main") : Launch("main", picks, FALSE)
           /\ UNCHANGED <<snap, saved>>
  BY <1>1, <1>3, LaunchHighBook
<1>4. CASE Finish(snap, pan)
  BY <1>1, <1>4, FinishBook
<1> QED
  BY <1>2, <1>3, <1>4 DEF DecideHigh

LEMMA DecideLowToHighBook ==
    ASSUME SchedInv({}), Book, DecideLowToHigh
    PROVE  Book'
<1>1. /\ cyc.phase = "decide" /\ snap.transition = "LOW_TO_HIGH"
      /\ UNCHANGED <<pan, snap>>
      /\ PitsBooked(snap, "main", {}) /\ BookCore(snap, pan, {})
  BY BookNow DEF DecideLowToHigh
<1>2. PICK go :
         \/ /\ MayLaunchHigh
            /\ \E picks \in Picks("main") : Launch("main", picks, go)
         \/ cyc' = [Idle EXCEPT !.phase = "finalize", !.go = go]
  BY DEF DecideLowToHigh
<1>3. CASE /\ MayLaunchHigh
           /\ \E picks \in Picks("main") : Launch("main", picks, go)
  BY <1>1, <1>3, LaunchHighBook
<1>4. CASE cyc' = [Idle EXCEPT !.phase = "finalize", !.go = go]
  <2>1. cyc'.phase = "finalize" /\ cyc'.got = {}
    BY <1>4 DEF Idle
  <2> QED
    BY <1>1, <2>1, PlainBook
<1> QED
  BY <1>2, <1>3, <1>4

LEMMA FinalizeBook ==
    ASSUME SchedInv({}), Book, Finalize
    PROVE  Book'
<1>1. /\ pan' = pan /\ PitsBooked(snap, "main", {}) /\ BookCore(snap, pan, {})
  BY BookNow DEF Finalize
<1>2. \/ /\ snap.transition = "LOW_TO_HIGH"
         /\ Finish([snap EXCEPT !.transition = "NONE"], pan)
      \/ Finish(snap, pan)
  BY DEF Finalize
<1>3. CASE /\ snap.transition = "LOW_TO_HIGH"
           /\ Finish([snap EXCEPT !.transition = "NONE"], pan)
  <2>1. Counts(snap)
    BY <1>3, TransitionHigh DEF Counts
  <2> QED
    BY <1>1, <1>3, <2>1, FinishTransitionBook
<1>4. CASE Finish(snap, pan)
  BY <1>1, <1>4, FinishBook
<1> QED
  BY <1>2, <1>3, <1>4

LEMMA CollapseBook ==
    ASSUME NEW pn, pn = pan', Finish(CollapseToLow, pn)
    PROVE  Book'
<1>1. PICK t : t = NewSnapshot("LOW") /\ Finish(t, pn)
  BY DEF CollapseToLow
<1>2. PitsBooked(t, "main", {}) /\ BookCore(t, pn, {})
  BY <1>1, NewBook
<1> QED
  BY <1>1, <1>2, FinishBook

LEMMA DecideHighToLowBook ==
    ASSUME SchedInv({}), Book, DecideHighToLow
    PROVE  Book'
<1>1. /\ cyc.phase = "decide" /\ snap.transition = "HIGH_TO_LOW" /\ pan' = pan
      /\ PitsBooked(snap, "main", {}) /\ BookCore(snap, pan, {})
      /\ cyc \in CycleRecord /\ cyc.got = {}
  BY BookNow DEF DecideHighToLow, SchedInv, CycleInv
<1>2. \/ Finish(CollapseToLow, pan)
      \/ \E moves :
            /\ RearDone
            /\ cyc' = [cyc EXCEPT !.phase = "compact", !.todo = moves]
            /\ UNCHANGED <<snap, saved>>
      \/ Finish(snap, pan)
  BY DEF DecideHighToLow
<1>3. CASE Finish(CollapseToLow, pan)
  BY <1>1, <1>3, CollapseBook
<1>4. ASSUME NEW moves, RearDone,
             cyc' = [cyc EXCEPT !.phase = "compact", !.todo = moves],
             UNCHANGED <<snap, saved>>
      PROVE  Book'
  <2>1. cyc'.phase = "compact" /\ cyc'.got = {} /\ cyc'.zone = cyc.zone
    BY <1>1, <1>4 DEF CycleRecord
  <2>2. PhaseInv' /\ GotInv'
    BY <1>1, <1>4, <2>1 DEF RearDone, Active, PhaseInv, GotInv
  <2>3. Pending(cyc') = {} /\ PitsBooked(snap, cyc'.zone, cyc'.got)
    BY <1>1, <2>1, NoPending, BookedAny
  <2> QED
    BY <1>1, <1>4, <2>2, <2>3 DEF Book
<1>5. CASE Finish(snap, pan)
  BY <1>1, <1>5, FinishBook
<1> QED
  BY <1>2, <1>3, <1>4, <1>5

\* While the front is made compact the pits ask for nothing any more.
LEMMA CompactBook ==
    ASSUME SchedInv({}), Book, Compact
    PROVE  Book'
<1>1. /\ cyc.phase = "compact" /\ cyc \in CycleRecord /\ cyc.got = {}
      /\ cyc.todo # <<>>
      /\ snap.transition = "HIGH_TO_LOW" /\ snap.batch["main"] = "none"
      /\ PitsBooked(snap, "main", {}) /\ BookCore(snap, pan, {})
  BY BookNow DEF Compact, SchedInv, CycleInv, Book, PhaseInv
<1>2. \/ Finish(CollapseToLow, pan')
      \/ /\ Len(cyc.todo) # 1
         /\ cyc' = [cyc EXCEPT !.todo = Tail(cyc.todo)] /\ snap' = snap
      \/ pan' = pan /\ Finish(snap, pan)
  BY DEF Compact, MoveFails
<1>3. CASE Finish(CollapseToLow, pan')
  BY <1>3, CollapseBook
<1>4. CASE /\ Len(cyc.todo) # 1
           /\ cyc' = [cyc EXCEPT !.todo = Tail(cyc.todo)] /\ snap' = snap
  <2>1. cyc'.phase = "compact" /\ cyc'.got = {}
    BY <1>1, <1>4, TailCycle
  <2>2. PhaseInv' /\ GotInv'
    BY <1>1, <1>4, <2>1 DEF PhaseInv, GotInv
  <2>3. BookCore(snap, pan', Pending(cyc'))
    BY <1>1 DEF BookCore, RoomInv, Counts
  <2>4. PitsBooked(snap, cyc'.zone, cyc'.got)
    BY <1>1, <2>1, BookedAny
  <2> QED
    BY <1>4, <2>2, <2>3, <2>4 DEF Book
<1>5. CASE pan' = pan /\ Finish(snap, pan)
  BY <1>1, <1>5, FinishBook
<1> QED
  BY <1>2, <1>3, <1>4, <1>5

-----------------------------------------------------------------------------
(* The books are right until the first kill.                               *)

BookInv == Undisturbed => Book

LEMMA BookInit == SchedInit => BookInv
<1> SUFFICES ASSUME SchedInit PROVE Book
  BY DEF BookInv
<1>1. PICK m \in {"LOW", "HIGH"} : snap = NewSnapshot(m)
  BY DEF SchedInit
<1>2. PitsBooked(snap, "main", {}) /\ BookCore(snap, pan, {})
  BY <1>1, NewBook
<1>3. /\ cyc.phase = "idle" /\ cyc.zone = "main" /\ cyc.got = {}
      /\ Pending(cyc) = {}
  BY NoPending DEF SchedInit, Idle
<1>4. PhaseInv /\ GotInv
  BY <1>3 DEF PhaseInv, GotInv
<1> QED
  BY <1>2, <1>3, <1>4 DEF Book

\* A kill ends what the books are for; every other step keeps them.
LEMMA BookStep == SchedInv({}) /\ Book /\ [SchedNext]_schedVars => Book' \/ Kill
<1> SUFFICES ASSUME SchedInv({}), Book, [SchedNext]_schedVars PROVE Book' \/ Kill
  OBVIOUS
<1>1. ASSUME NEW over \in SUBSET Running, RunCycle(over) PROVE Book'
  BY <1>1, RunCycleBook
<1>2. CASE Initialize
  BY <1>2, InitializeBook
<1>3. CASE Backfill
  BY <1>3, BackfillBook
<1>4. CASE DecideLow
  BY <1>4, DecideLowBook
<1>5. ASSUME NEW z \in LowZones, LaunchLow(z) PROVE Book'
  BY <1>5, LaunchLowBook
<1>6. CASE Evacuate
  BY <1>6, EvacuateBook
<1>7. CASE Load
  BY <1>7, LoadBook
<1>8. CASE Threshold
  BY <1>8, ThresholdBook
<1>9. CASE DecideHigh
  BY <1>9, DecideHighBook
<1>10. CASE DecideLowToHigh
  BY <1>10, DecideLowToHighBook
<1>11. CASE Finalize
  BY <1>11, FinalizeBook
<1>12. CASE DecideHighToLow
  BY <1>12, DecideHighToLowBook
<1>13. CASE Compact
  BY <1>13, CompactBook
<1>14. CASE Discard
  BY <1>14, DiscardBook
<1>15. ASSUME NEW p \in HighFront, Sale(p) PROVE Book'
  BY <1>15, SaleBook
<1>16. CASE Resume \/ Restock \/ UNCHANGED coreVars
  BY <1>16, PeopleBook
<1> QED
  BY <1>1, <1>2, <1>3, <1>4, <1>5, <1>6, <1>7, <1>8, <1>9, <1>10, <1>11, <1>12,
     <1>13, <1>14, <1>15, <1>16, StepCases DEF Step, CycleStep

LEMMA KillsGrow ==
    Sound /\ [SchedNext]_schedVars => IF Kill THEN ~Undisturbed' ELSE kills' = kills
<1>1. ASSUME Sound, Kill PROVE ~Undisturbed'
  BY <1>1, SchedAssumption DEF Kill, Sound, SchedInv, Undisturbed
<1> QED
  BY <1>1, StepCases

LEMMA BookInvariant == SchedSpec => []BookInv
<1>1. Sound /\ BookInv /\ [SchedNext]_schedVars => BookInv'
  <2> SUFFICES ASSUME Sound, BookInv, [SchedNext]_schedVars, Undisturbed'
               PROVE  Book'
    BY DEF BookInv
  <2>1. ~Kill /\ kills' = kills
    BY KillsGrow
  <2>2. Undisturbed /\ Book
    BY <2>1 DEF BookInv, Undisturbed
  <2> QED
    BY <2>1, <2>2, Clean, BookStep DEF Sound
<1> QED
  BY <1>1, BookInit, SchedInvariant, PTL DEF SchedSpec

\* Each item has a pit of its own, and the pits find free pans enough.
LEMMA ItemsFit ==
    ASSUME SchedInv({}), Book
    PROVE  Cardinality(Items(snap, "main")) =< Cardinality(VacantFront(pan))
<1>1. IsFiniteSet(HighFront)
  BY SchedAssumption, AreaFacts, FS_Subset
<1>2. \A S \in SUBSET HighFront : IsFiniteSet(S) /\ Cardinality(S) \in Nat
  BY <1>1, FS_Subset, FS_CardinalityType
<1>3. VacantFront(pan) \in SUBSET HighFront /\ Pits(snap) \in SUBSET HighFront
  BY DEF VacantFront, Vacant, Pits
<1>4. CASE snap.batch["main"] = "none"
  <2>1. Items(snap, "main") = {}
    BY <1>4 DEF SchedInv, SnapInv, SnapCore, Zone
  <2> QED
    BY <1>2, <1>3, <2>1, FS_EmptySet
<1>5. CASE snap.batch["main"] # "none"
  <2> DEFINE I == Items(snap, "main")
             f == [p \in I |-> snap.item[p].pit]
             claims == Pits(snap) \cup (Pending(cyc) \cap VacantFront(pan))
  <2>1. snap.mode = "HIGH"
    BY <1>5 DEF SchedInv, SnapInv, SnapCore, Snapshot, Book, BookCore, OwnPits
  <2>2. \A p, r \in I :
           /\ snap.item[p].pit \in Pits(snap)
           /\ p # r => snap.item[p].pit # snap.item[r].pit
    BY <2>1 DEF Book, BookCore, OwnPits
  <2>3. f \in Injection(I, Pits(snap))
    BY <2>2 DEF Injection, IsInjective
  <2>4. Cardinality(I) =< Cardinality(Pits(snap)) /\ IsFiniteSet(I)
    BY <1>2, <1>3, <2>3, FS_Injection
  <2>5. Cardinality(claims) =< Cardinality(VacantFront(pan))
    BY <1>5, <2>1 DEF Book, BookCore, RoomInv, Counts
  <2>6. claims \in SUBSET HighFront /\ Pits(snap) \subseteq claims
    BY <1>3
  <2>7. Cardinality(Pits(snap)) =< Cardinality(claims)
    BY <1>2, <2>6, FS_Subset
  <2>8. Cardinality(I) \in Nat
    BY <2>4, FS_CardinalityType
  <2> HIDE DEF I, claims
  <2>9. Cardinality(I) =< Cardinality(VacantFront(pan))
    BY <1>2, <1>3, <2>4, <2>5, <2>6, <2>7, <2>8
  <2> QED
    BY <2>9 DEF I
<1> QED
  BY <1>4, <1>5

(* As long as nobody kills the app, each pit that is assigned, and so      *)
(* asked for by no other batch, has an item or a load on its way, whatever *)
(* is sold, retargeted, held, discarded or fails.                          *)
THEOREM PitsAreOwned == SchedSpec => []PitHasBatch
<1>1. BookInv => PitHasBatch
  BY DEF BookInv, Book, PitsBooked, PitHasBatch
<1> QED
  BY <1>1, BookInvariant, PTL

(* As long as nobody kills the app, the batch in the heat zone of high     *)
(* concurrency finds room in the front for every sausage it has left.      *)
THEOREM RoomInFront == SchedSpec => []BatchFitsFront
<1>1. Sound /\ BookInv => BatchFitsFront
  BY Clean, ItemsFit DEF Sound, BookInv, BatchFitsFront, VacantFront
<1> QED
  BY <1>1, SchedInvariant, BookInvariant, PTL

-----------------------------------------------------------------------------
(* Batches that cook, and the flow of the sausages.                        *)

\* Nothing cooks there.
Warm(pn) == Pan \ Heating(pn, Pan)

(* What is planned stays possible until it is done: the pans that moves go *)
(* to are free, what is evacuated or discarded does not cook, what is      *)
(* loaded does.                                                            *)
PlanInv ==
    /\ cyc.phase \in TidyWork =>
           StepsTo(cyc.todo, Vacant(pan, Pan)) /\ DistinctTo(cyc.todo)
    /\ cyc.phase = "evacuate" => StepsFrom(cyc.todo, Warm(pan))
    /\ cyc.phase = "discard" => StepsTo(cyc.todo, Warm(pan))
    /\ cyc.phase = "backfill" => snap.batch["main"] = "READY"
    /\ cyc.phase = "load" => \A l \in cyc.got : l.to \in Heating(pan, Pan)

(* The sausages of a batch cook as long as the batch does, those of a      *)
(* ready batch do not.                                                     *)
CookInv(s, pn) ==
    /\ \A z \in Zone :
           s.batch[z] = "HEATING" /\ (z = "main" \/ s.transition # "HIGH_TO_LOW")
               => Items(s, z) # {} /\ Items(s, z) \subseteq Heating(pn, Pan)
    /\ s.batch["main"] = "READY" => Items(s, "main") \subseteq Warm(pn)

LEMMA CookIsWhole == SchedInv(revived) /\ CookInv(snap, pan) => CookingBatchWhole
BY DEF CookInv, CookingBatchWhole, Heating

LEMMA ItemPans ==
    \A s : \A z \in Zone : Items(s, z) \subseteq Pan /\ (z = "main" => Items(s, z) \subseteq Rear)
BY ZoneFacts, AreaFacts DEF Items

\* A step that lets cook what cooks and adds nothing to a ready batch.
LEMMA CookKeeps ==
    ASSUME NEW s, NEW pn, CookInv(s, pn), NEW t, NEW pm,
           t.batch = s.batch, \A z \in Zone : Items(t, z) = Items(s, z),
           t.transition # "HIGH_TO_LOW" => s.transition # "HIGH_TO_LOW",
           Heating(pn, Pan) \subseteq Heating(pm, Pan),
           s.batch["main"] = "READY" => Heating(pm, Rear) \subseteq Heating(pn, Rear)
    PROVE  CookInv(t, pm)
<1>1. \A z \in Zone :
        t.batch[z] = "HEATING" /\ (z = "main" \/ t.transition # "HIGH_TO_LOW")
            => Items(t, z) # {} /\ Items(t, z) \subseteq Heating(pm, Pan)
  BY DEF CookInv
<1>2. t.batch["main"] = "READY" => Items(t, "main") \subseteq Warm(pm)
  <2> SUFFICES ASSUME t.batch["main"] = "READY", NEW p \in Items(t, "main")
               PROVE  p \in Warm(pm)
    OBVIOUS
  <2>1. p \in Items(s, "main") /\ p \in Rear /\ p \in Pan /\ p \in Warm(pn)
    BY ItemPans DEF Zone, CookInv
  <2> QED
    BY <2>1 DEF Warm, Heating
<1> QED
  BY <1>1, <1>2 DEF CookInv

\* Without a batch nothing is claimed.
LEMMA CookNone ==
    ASSUME NEW s, NEW pn, \A z \in Zone : s.batch[z] = "none"
    PROVE  CookInv(s, pn)
BY DEF CookInv, Zone

LEMMA PlainPlan ==
    ASSUME cyc'.phase \notin {"evacuate", "compact", "discard", "backfill", "load"}
    PROVE  PlanInv'
BY DEF PlanInv, TidyWork

\* What has expired is warm.
LEMMA FinishPlan ==
    ASSUME NEW s, NEW pn, pn = pan', Finish(s, pn)
    PROVE  /\ PlanInv' /\ snap' = s
           /\ cyc'.phase \in {"idle", "discard"}
<1>1. PICK expired \in SUBSET Holding(pn, HighFront) :
         /\ snap' = s
         /\ IF expired = {}
            THEN cyc' = Idle /\ saved' = Saved(s)
            ELSE /\ \E todo \in Steps(expired) :
                       cyc' = [Idle EXCEPT !.phase = "discard", !.todo = todo]
                 /\ UNCHANGED saved
  BY DEF Finish
<1>2. CASE expired = {}
  BY <1>1, <1>2, PlainPlan DEF Idle
<1>3. CASE expired # {}
  <2>1. PICK todo \in Steps(expired) :
           cyc' = [Idle EXCEPT !.phase = "discard", !.todo = todo]
    BY <1>1, <1>3
  <2>2. expired \in SUBSET Pan /\ expired \subseteq Warm(pn)
    BY AreaFacts DEF Holding, Heating, Warm
  <2>3. StepsTo(todo, Warm(pn))
    BY <2>2, StepsFacts DEF StepsTo
  <2>4. cyc'.phase = "discard" /\ cyc'.todo = todo
    BY <2>1 DEF Idle
  <2>5. PlanInv'
    BY <2>3, <2>4 DEF PlanInv, TidyWork
  <2> QED
    BY <1>1, <2>4, <2>5
<1> QED
  BY <1>2, <1>3

LEMMA PlanInit == SchedInit => PlanInv /\ CookInv(snap, pan)
<1> SUFFICES ASSUME SchedInit PROVE PlanInv /\ CookInv(snap, pan)
  OBVIOUS
<1>1. PlanInv
  BY DEF SchedInit, PlanInv, Idle, TidyWork
<1>2. CookInv(snap, pan)
  BY CookNone DEF SchedInit, NewSnapshot
<1> QED
  BY <1>1, <1>2

-----------------------------------------------------------------------------
(* The kinds of steps of the abstract specification.                       *)

LEMMA FlowStay ==
    ASSUME UNCHANGED <<pan, kills>>
    PROVE  Sausages!Flow
BY DEF Sausages!Flow, Undisturbed, TidyWork

LEMMA FlowCook ==
    ASSUME NEW S \in SUBSET Heating(pan, Pan), kills' = kills,
           pan' = [p \in Pan |-> IF p \in S THEN "holding" ELSE pan[p]]
    PROVE  Sausages!Flow
BY DEF Sausages!Flow, Sausages!Cook, Undisturbed, TidyWork, Heating

LEMMA FlowLoad ==
    ASSUME NEW p \in Pan, Undisturbed => pan[p] = "empty", kills' = kills,
           pan' = [pan EXCEPT ![p] = "heating"]
    PROVE  Sausages!Flow
BY DEF Sausages!Flow, Sausages!Load, Undisturbed, TidyWork

LEMMA FlowTake ==
    ASSUME NEW p \in Pan, pan \in PanTable, p \in Warm(pan), kills' = kills,
           pan' = [pan EXCEPT ![p] = "empty"]
    PROVE  Sausages!Flow
<1>1. CASE pan[p] = "holding"
  BY <1>1 DEF Sausages!Flow, Sausages!Take, Undisturbed, TidyWork
<1>2. CASE pan[p] = "empty"
  BY <1>2, FlowStay DEF PanTable
<1> QED
  BY <1>1, <1>2 DEF PanTable, Warm, Heating

\* A move to a free pan; where it was planned long before, the source may be
\* empty, and in the compaction or after a kill it may cook.
LEMMA FlowMove ==
    ASSUME NEW p \in Pan, NEW q \in Pan, pan \in PanTable, kills' = kills,
           p # q, pan[q] = "empty", Moves(p, q),
           pan[p] = "empty" => cyc.phase \in TidyWork,
           pan[p] = "heating" => cyc.phase = "compact" \/ ~Undisturbed
    PROVE  Sausages!Flow
<1>1. pan' = [pan EXCEPT ![p] = "empty", ![q] = "holding"]
  <2>1. \A r \in Pan : pan'[r] = [pan EXCEPT ![p] = "empty", ![q] = "holding"][r]
    BY DEF Moves, PanTable
  <2> QED
    BY <2>1 DEF Moves, PanTable
<1>2. CASE pan[p] = "empty"
  <2>1. pan' = [pan EXCEPT ![q] = "holding"]
    BY <1>1, <1>2 DEF PanTable
  <2> QED
    BY <1>2, <2>1 DEF Sausages!Flow, Sausages!Misbook, Undisturbed, TidyWork
<1>3. CASE pan[p] # "empty"
  <2>1. \/ pan[p] = "holding"
        \/ pan[p] = "heating" /\ (cyc.phase = "compact" \/ ~Undisturbed)
    BY <1>3 DEF PanTable
  <2>2. Sausages!Move(p, q)
    BY <1>1, <2>1 DEF Sausages!Move, TidyWork
  <2> QED
    BY <2>2 DEF Sausages!Flow, Undisturbed, TidyWork
<1> QED
  BY <1>2, <1>3

-----------------------------------------------------------------------------
(* The steps, one after another.                                           *)

Before ==
    /\ SchedInv(revived) /\ PlanInv
    /\ Undisturbed => Book /\ CookInv(snap, pan)

After ==
    /\ PlanInv'
    /\ Undisturbed => CookInv(snap', pan')
    /\ Sausages!Flow

LEMMA PlanKeeps ==
    ASSUME PlanInv, cyc' = cyc, snap'.batch = snap.batch,
           Heating(pan', Pan) = Heating(pan, Pan),
           Vacant(pan, Pan) \subseteq Vacant(pan', Pan)
    PROVE  PlanInv'
BY DEF PlanInv, StepsTo, StepsFrom, Warm, DistinctTo

\* A pan that does not cook is emptied.
LEMMA EmptyWarm ==
    ASSUME pan \in PanTable, NEW p \in Pan, p \in Warm(pan),
           pan' = [pan EXCEPT ![p] = "empty"]
    PROVE  /\ \A S \in SUBSET Pan : Heating(pan', S) = Heating(pan, S)
           /\ Vacant(pan, Pan) \subseteq Vacant(pan', Pan)
BY DEF PanTable, Warm, Heating, Vacant

\* A step on the snapshot that leaves the batches and the pans alone.
LEMMA CookStays ==
    ASSUME NEW s, CookInv(s, pan), NEW t, t.batch = s.batch,
           \A z \in Zone : Items(t, z) = Items(s, z),
           t.transition # "HIGH_TO_LOW" => s.transition # "HIGH_TO_LOW",
           \A S \in SUBSET Pan : Heating(pan', S) = Heating(pan, S)
    PROVE  CookInv(t, pan')
<1>1. Rear \subseteq Pan
  BY AreaFacts
<1> QED
  BY <1>1, CookKeeps

LEMMA SaleFlow ==
    ASSUME Before, NEW p \in HighFront, Sale(p)
    PROVE  After
<1>1. /\ p \in Pan /\ pan \in PanTable /\ p \in Warm(pan) /\ SnapInv(snap, pan, revived)
      /\ cyc' = cyc /\ kills' = kills
  BY AreaFacts DEF Before, SchedInv, Sale, Warm, Heating
<1>2. /\ snap'.batch = snap.batch /\ snap'.transition = snap.transition
      /\ \A z \in Zone : Items(snap', z) = Items(snap, z)
  BY <1>1, RegisterKeeps DEF Sale
<1>3. CASE pan' = [pan EXCEPT ![p] = "empty"]
  <2>1. /\ \A S \in SUBSET Pan : Heating(pan', S) = Heating(pan, S)
        /\ Vacant(pan, Pan) \subseteq Vacant(pan', Pan)
    BY <1>1, <1>3, EmptyWarm
  <2>2. PlanInv'
    BY <1>1, <1>2, <2>1, PlanKeeps DEF Before
  <2>3. Undisturbed => CookInv(snap', pan')
    BY <1>2, <2>1, CookStays DEF Before
  <2>4. Sausages!Flow
    BY <1>1, <1>3, FlowTake
  <2> QED
    BY <2>2, <2>3, <2>4 DEF After
<1>4. CASE pan' = pan
  <2>1. PlanInv'
    BY <1>1, <1>2, <1>4, PlanKeeps DEF Before
  <2>2. Undisturbed => CookInv(snap', pan')
    BY <1>2, <1>4, CookStays DEF Before
  <2>3. Sausages!Flow
    BY <1>1, <1>4, FlowStay
  <2> QED
    BY <2>1, <2>2, <2>3 DEF After
<1> QED
  BY <1>3, <1>4 DEF Sale

LEMMA PeopleFlow ==
    ASSUME Before, Resume \/ Restock \/ UNCHANGED coreVars
    PROVE  After
<1>1. UNCHANGED <<pan, snap, cyc, kills>>
  BY DEF Resume, Restock, coreVars
<1>2. PlanInv'
  BY <1>1, PlanKeeps DEF Before
<1>3. Undisturbed => CookInv(snap', pan')
  BY <1>1, CookStays DEF Before
<1> QED
  BY <1>1, <1>2, <1>3, FlowStay DEF After

LEMMA DiscardFlow ==
    ASSUME Before, Discard
    PROVE  After
<1> DEFINE p == Head(cyc.todo).to
<1>1. /\ cyc \in CycleRecord /\ cyc.phase = "discard" /\ cyc.todo # <<>>
      /\ cyc.todo \in Seq(StepRecord)
      /\ StepsTo(cyc.todo, HighFront) /\ StepsTo(cyc.todo, Warm(pan))
      /\ kills' = kills /\ pan \in PanTable /\ SnapInv(snap, pan, revived)
  BY DEF Discard, Before, SchedInv, CycleInv, DiscardInv, PlanInv, CycleRecord
<1>2. p \in HighFront /\ p \in Pan /\ p \in Warm(pan)
      /\ StepsTo(Tail(cyc.todo), Warm(pan))
  BY <1>1, RestFacts, AreaFacts
<1>3. \/ /\ pan' = [pan EXCEPT ![p] = "empty"]
         /\ snap' = RegisterFrontPit(snap, p)
      \/ pan' = pan /\ snap' = snap
  BY DEF Discard, MoveFails
<1> HIDE DEF p
<1>4. \A S \in SUBSET Pan : Heating(pan', S) = Heating(pan, S)
  BY <1>1, <1>2, <1>3, EmptyWarm
<1>5. /\ snap'.batch = snap.batch /\ snap'.transition = snap.transition
      /\ \A z \in Zone : Items(snap', z) = Items(snap, z)
  BY <1>1, <1>2, <1>3, RegisterKeeps
<1>6. Undisturbed => CookInv(snap', pan')
  BY <1>4, <1>5, CookStays DEF Before
<1>7. Sausages!Flow
  BY <1>1, <1>2, <1>3, FlowTake, FlowStay
<1>8. PlanInv'
  <2>1. CASE cyc' = Idle
    BY <2>1, PlainPlan DEF Idle
  <2>2. CASE cyc' = [cyc EXCEPT !.todo = Tail(cyc.todo)]
    <3>1. cyc'.phase = "discard" /\ cyc'.todo = Tail(cyc.todo)
      BY <1>1, <2>2 DEF CycleRecord
    <3>2. Warm(pan') = Warm(pan)
      BY <1>4 DEF Warm
    <3> QED
      BY <1>2, <3>1, <3>2 DEF PlanInv, TidyWork
  <2> QED
    BY <2>1, <2>2 DEF Discard
<1> QED
  BY <1>6, <1>7, <1>8 DEF After

\* The opening batch is loaded where no batch is.
LEMMA InitializeFlow ==
    ASSUME Before, Initialize
    PROVE  After
<1>1. /\ cyc \in CycleRecord /\ cyc.phase = "initialize" /\ cyc.todo # <<>>
      /\ cyc.todo \in Seq(StepRecord) /\ StepsTo(cyc.todo, HighFront)
      /\ kills' = kills /\ pan \in PanTable
  BY DEF Initialize, Before, SchedInv, CycleInv, InitializeInv, CycleRecord
<1>2. Head(cyc.todo).to \in HighFront
  BY <1>1, RestFacts
<1>3. PICK p \in HighFront : p = Head(cyc.todo).to
  BY <1>2
<1>4. p \in Pan /\ p \notin Rear
  BY AreaFacts
<1>5. \/ pan[p] = "empty" /\ pan' = [pan EXCEPT ![p] = "heating"]
      \/ pan' = pan
  BY <1>3 DEF Initialize, Loads, MoveFails, LoadSkipped
<1>6. Heating(pan, Pan) \subseteq Heating(pan', Pan)
      /\ Heating(pan', Rear) \subseteq Heating(pan, Rear)
  BY <1>1, <1>4, <1>5, AreaFacts DEF Heating, PanTable
<1>7. snap' = snap
  BY FinishPlan DEF Initialize
<1>8. Undisturbed => CookInv(snap', pan')
  BY <1>6, <1>7, CookKeeps DEF Before
<1>9. Sausages!Flow
  BY <1>1, <1>4, <1>5, FlowLoad, FlowStay
<1>10. PlanInv'
  <2>1. CASE Finish(snap, pan')
    BY <2>1, FinishPlan
  <2>2. CASE cyc' = [cyc EXCEPT !.todo = Tail(cyc.todo)]
    <3>1. cyc'.phase = "initialize"
      BY <1>1, <2>2 DEF CycleRecord
    <3> QED
      BY <3>1, PlainPlan
  <2> QED
    BY <2>1, <2>2 DEF Initialize
<1> QED
  BY <1>8, <1>9, <1>10 DEF After

LEMMA ZonesApart ==
    /\ \A y, z \in Zone : y # z => ZonePans[y] \cap ZonePans[z] = {}
    /\ \A s : \A y, z \in Zone : y # z => Items(s, y) \cap Items(s, z) = {}
<1>1. \A y, z \in Zone : y # z => ZonePans[y] \cap ZonePans[z] = {}
  BY ZoneFacts, AreaFacts DEF Zone, LowPans
<1> QED
  BY <1>1 DEF Items

\* Holding what is ready takes nothing from the other batches.
LEMMA HoldOthers ==
    ASSUME NEW s \in Snapshot, NEW t, t = HoldBatchInPlace(s)
    PROVE  /\ t.transition = s.transition
           /\ \A z \in Zone : t.batch[z] = "HEATING" \/ z = "main" =>
                 t.batch[z] = s.batch[z] /\ Items(t, z) = Items(s, z)
<1> DEFINE ready == {z \in LowZones : s.batch[z] = "READY"}
           items == UNION {Items(s, z) : z \in ready}
<1>1. /\ t.transition = s.transition
      /\ t.batch = [z \in Zone |-> IF z \in ready THEN "none" ELSE s.batch[z]]
      /\ t.item = [p \in Supply |-> IF p \in items THEN NoItem ELSE s.item[p]]
  BY DEF HoldBatchInPlace, Snapshot
<1>2. ASSUME NEW z \in Zone, t.batch[z] = "HEATING" \/ z = "main"
      PROVE  t.batch[z] = s.batch[z] /\ Items(t, z) = Items(s, z)
  <2>1. z \notin ready
    BY <1>1, <1>2, ZoneFacts
  <2>2. t.batch[z] = s.batch[z]
    BY <1>1, <2>1
  <2>3. \A p \in ZonePans[z] : p \notin items /\ p \in Supply
    <3> SUFFICES ASSUME NEW p \in ZonePans[z], NEW y \in ready, p \in Items(s, y)
                 PROVE  FALSE
      BY ZoneFacts
    <3>1. y \in Zone /\ y # z /\ p \in ZonePans[y]
      BY <2>1, ZoneFacts DEF Items
    <3> QED
      BY <3>1, ZonesApart
  <2> HIDE DEF items
  <2>4. Items(t, z) = Items(s, z)
    BY <1>1, <2>3 DEF Items
  <2> QED
    BY <2>2, <2>4
<1> QED
  BY <1>1, <1>2

(* A batch that cooks on is left alone by the timers: the time of the      *)
(* front outside low concurrency ends every low batch as a whole.          *)
LEMMA CookTimers ==
    ASSUME CookInv(snap, pan), SnapInv(snap, pan, revived), pan \in PanTable, NEW over,
           NEW s0 \in Snapshot, s0.batch = snap.batch, s0.item = snap.item,
           s0.transition = snap.transition,
           NEW pn0, pn0 = CompleteFrontInitialization(s0, pan, over),
           NEW s1, s1 = UpdateBatchStates(s0, pn0, over),
           NEW pn, pn = UpdatedPans(s0, pn0, over)
    PROVE  CookInv(s1, pn)
<1> DEFINE A == UNION {PlanPans[f] : f \in FrontPlans(s0) \cap over}
           R == ReadyZones(s0, pn0, over)
           B == UNION {Items(s0, z) : z \in R}
<1>1. /\ s1.item = s0.item /\ s1.transition = s0.transition
      /\ \A z \in Zone : s1.batch[z] = IF z \in R THEN "READY" ELSE s0.batch[z]
      /\ \A z \in Zone : Items(s1, z) = Items(snap, z) /\ Items(s0, z) = Items(snap, z)
  <2>1. /\ s1.item = s0.item /\ s1.transition = s0.transition
        /\ \A z \in Zone : s1.batch[z] = IF z \in R THEN "READY" ELSE s0.batch[z]
    <3>1. s1 = [s0 EXCEPT !.batch = [z \in Zone |-> IF z \in R THEN "READY" ELSE s0.batch[z]]]
      BY DEF UpdateBatchStates
    <3> HIDE DEF R
    <3> QED
      BY <3>1 DEF Snapshot
  <2> QED
    BY <2>1 DEF Items
<1>2. \A p \in Pan : pn0[p] = IF pan[p] = "heating" /\ p \in A THEN "holding" ELSE pan[p]
  BY DEF CompleteFrontInitialization, MarkHolding, Heating
<1>3. \A p \in Pan : pn[p] = IF pn0[p] = "heating" /\ p \in B THEN "holding" ELSE pn0[p]
  BY DEF UpdatedPans, MarkHolding, Heating
<1>4. ASSUME NEW z \in Zone, s1.batch[z] = "HEATING",
             z = "main" \/ s1.transition # "HIGH_TO_LOW"
      PROVE  Items(s1, z) # {} /\ Items(s1, z) \subseteq Heating(pn, Pan)
  <2>1. z \notin R /\ s0.batch[z] = "HEATING"
    BY <1>1, <1>4
  <2>2. Items(snap, z) # {} /\ Items(snap, z) \subseteq Heating(pan, Pan)
    BY <1>1, <1>4, <2>1 DEF CookInv
  <2>3. Items(snap, z) \cap A = {}
    <3> SUFFICES ASSUME NEW p \in Items(snap, z), NEW f \in FrontPlans(s0) \cap over,
                        p \in PlanPans[f]
                 PROVE  FALSE
      OBVIOUS
    <3>1. p \in ZonePans[z] /\ p \in HighFront
      BY AreaFacts DEF Items, PlanPans, FrontPlans
    <3>2. z \in LowZones /\ p \in LowPans
      BY <3>1, ZoneFacts, AreaFacts
    <3>3. f = "outer"
      BY <3>2, AreaFacts DEF PlanPans, FrontPlans
    <3>4. Items(snap, z) \subseteq HighFront \ Front
      BY <3>2, ZoneFacts, AreaFacts DEF Items
    <3>5. Items(snap, z) \subseteq A
      BY <3>3, <3>4 DEF PlanPans
    <3> HIDE DEF A
    <3>6. \A r \in Items(snap, z) : pn0[r] = "holding"
      BY <1>2, <2>2, <3>5 DEF Heating
    <3>7. Cooked(s0, pn0, z, over)
      BY <1>1, <2>1, <2>2, <3>6 DEF Cooked, Vacant, Heating
    <3> QED
      BY <2>1, <3>7 DEF ReadyZones
  <2>4. Items(snap, z) \cap B = {}
    BY <1>1, <2>1, ZonesApart DEF ReadyZones
  <2> HIDE DEF A, B
  <2>5. \A p \in Items(snap, z) : pn[p] = "heating" /\ p \in Pan
    BY <1>2, <1>3, <2>2, <2>3, <2>4 DEF Heating
  <2> QED
    BY <1>1, <2>2, <2>5 DEF Heating
<1>5. ASSUME s1.batch["main"] = "READY"
      PROVE  Items(s1, "main") \subseteq Warm(pn)
  <2>1. "main" \in Zone
    BY DEF Zone
  <2>2. CASE "main" \in R
    <3>1. Items(s0, "main") \subseteq B
      BY <2>2
    <3> HIDE DEF A, B
    <3>2. \A p \in Items(s0, "main") : p \in Pan /\ pn[p] # "heating"
      BY <1>3, <2>1, <3>1, ItemPans
    <3> QED
      BY <1>1, <2>1, <3>2 DEF Warm, Heating
  <2>3. CASE "main" \notin R
    <3>1. Items(snap, "main") \subseteq Warm(pan)
      BY <1>1, <1>5, <2>1, <2>3 DEF CookInv
    <3> HIDE DEF A, B
    <3> QED
      BY <1>1, <1>2, <1>3, <2>1, <3>1 DEF Warm, Heating
  <2> QED
    BY <2>2, <2>3
<1> QED
  BY <1>4, <1>5 DEF CookInv

LEMMA RunCycleFlow ==
    ASSUME Before, NEW over, RunCycle(over)
    PROVE  After
<1>1. PICK s0 \in Adopted(snap) :
        LET pn0 == CompleteFrontInitialization(s0, pan, over)
            s1 == UpdateBatchStates(s0, pn0, over)
            pn == UpdatedPans(s0, pn0, over)
            s2 == HoldBatchInPlace(s1)
        IN /\ pan' = pn
           /\ \/ /\ Bare(s0, pn) /\ stock
                 /\ snap' = NewSnapshot(s0.mode)
                 /\ \E todo \in Steps(FrontPlan(s0)) :
                        cyc' = [Idle EXCEPT !.phase = "initialize", !.todo = todo]
                 /\ UNCHANGED saved
              \/ /\ Bare(s0, pn)
                 /\ Finish(s1, pn)
              \/ /\ ~Bare(s0, pn)
                 /\ snap' = s2
                 /\ IF s2.batch["main"] = "READY"
                    THEN \E todo \in Steps(Items(s2, "main")) :
                            cyc' = [Idle EXCEPT !.phase = "backfill", !.todo = todo]
                    ELSE cyc' = [Idle EXCEPT !.phase = "decide"]
                 /\ UNCHANGED saved
  BY DEF RunCycle
<1>2. PICK pn0 : pn0 = CompleteFrontInitialization(s0, pan, over)
  OBVIOUS
<1>3. PICK s1 : s1 = UpdateBatchStates(s0, pn0, over)
  OBVIOUS
<1>4. PICK pn : pn = UpdatedPans(s0, pn0, over)
  OBVIOUS
<1>5. PICK s2 : s2 = HoldBatchInPlace(s1)
  OBVIOUS
<1>6. /\ pan' = pn
      /\ \/ /\ snap' = NewSnapshot(s0.mode)
            /\ cyc'.phase = "initialize"
         \/ Finish(s1, pn)
         \/ /\ snap' = s2
            /\ \/ s2.batch["main"] = "READY" /\ cyc'.phase = "backfill"
               \/ cyc'.phase = "decide"
  BY <1>1, <1>2, <1>3, <1>4, <1>5 DEF Idle
<1>7. /\ pan \in PanTable /\ SnapInv(snap, pan, revived) /\ kills' = kills
  BY DEF Before, SchedInv, RunCycle
<1>8. /\ s0.batch = snap.batch /\ s0.item = snap.item
      /\ s0.transition = snap.transition /\ s0 \in Snapshot
  <2>1. SnapInv(s0, pan, revived)
    BY <1>7, AdoptedKeeps
  <2> QED
    BY <1>7, <2>1 DEF Adopted, SnapInv, SnapCore, Snapshot
<1>9. PlanInv'
  <2>1. CASE cyc'.phase \in {"initialize", "decide"}
    BY <2>1, PlainPlan
  <2>2. CASE Finish(s1, pn)
    BY <1>6, <2>2, FinishPlan
  <2>3. CASE snap' = s2 /\ s2.batch["main"] = "READY" /\ cyc'.phase = "backfill"
    BY <2>3 DEF PlanInv, TidyWork
  <2> QED
    BY <1>6, <2>1, <2>2, <2>3
<1>10. ASSUME Undisturbed PROVE CookInv(snap', pan')
  <2>1. CookInv(snap, pan)
    BY <1>10 DEF Before
  <2>2. CookInv(s1, pn)
    BY <1>2, <1>3, <1>4, <1>7, <1>8, <2>1, CookTimers
  <2>3. CASE snap' = NewSnapshot(s0.mode)
    BY <2>3, CookNone DEF NewSnapshot
  <2>4. CASE Finish(s1, pn)
    BY <1>6, <2>2, <2>4, FinishPlan
  <2>5. CASE snap' = s2
    <3>1. s1 \in Snapshot
      <4>1. SnapInv(s0, pan, revived)
        BY <1>7, AdoptedKeeps
      <4> QED
        BY <1>3, <4>1, UpdateKeeps DEF SnapInv, SnapCore
    <3>2. /\ s2.transition = s1.transition
          /\ \A z \in Zone : s2.batch[z] = "HEATING" \/ z = "main" =>
                s2.batch[z] = s1.batch[z] /\ Items(s2, z) = Items(s1, z)
      BY <1>5, <3>1, HoldOthers
    <3>3. CookInv(s2, pn)
      BY <2>2, <3>2 DEF CookInv, Zone
    <3> QED
      BY <1>6, <2>5, <3>3
  <2> QED
    BY <1>6, <2>3, <2>4, <2>5
<1>11. Sausages!Flow
  <2> DEFINE A == UNION {PlanPans[f] : f \in FrontPlans(s0) \cap over}
             B == UNION {Items(s0, z) : z \in ReadyZones(s0, pn0, over)}
             S == {p \in Heating(pan, Pan) : p \in A \cup B}
  <2>1. pn0 = [p \in Pan |-> IF p \in Heating(pan, A) THEN "holding" ELSE pan[p]]
    BY <1>2 DEF CompleteFrontInitialization, MarkHolding
  <2>2. pn = [p \in Pan |-> IF p \in Heating(pn0, B) THEN "holding" ELSE pn0[p]]
    BY <1>4 DEF UpdatedPans, MarkHolding
  <2> HIDE DEF A, B
  <2>3. pn = [p \in Pan |-> IF p \in S THEN "holding" ELSE pan[p]]
    BY <2>1, <2>2 DEF Heating
  <2>4. S \in SUBSET Heating(pan, Pan)
    OBVIOUS
  <2> HIDE DEF S
  <2> QED
    BY <1>6, <1>7, <2>3, <2>4, FlowCook
<1> QED
  BY <1>9, <1>10, <1>11 DEF After

\* A ready batch gets smaller, or is over.
LEMMA CookLess ==
    ASSUME NEW s, NEW pn, CookInv(s, pn), s.batch["main"] = "READY", NEW t, NEW pm,
           t.batch["main"] \in {"READY", "none"},
           Items(t, "main") \subseteq Items(s, "main"),
           \A z \in LowZones : t.batch[z] = s.batch[z] /\ Items(t, z) = Items(s, z),
           t.transition = s.transition,
           Heating(pm, Pan) = Heating(pn, Pan)
    PROVE  CookInv(t, pm)
<1>1. Warm(pm) = Warm(pn)
  BY DEF Warm
<1>2. \A z \in Zone : t.batch[z] = "HEATING" => z \in LowZones
  BY ZoneFacts
<1> QED
  BY <1>1, <1>2, ZoneFacts DEF CookInv

\* After an item the batch is still ready, or is closed.
LEMMA NextPlan ==
    ASSUME cyc \in CycleRecord, cyc.phase = "backfill", NEW s \in Snapshot,
           s.batch["main"] = "READY",
           \/ AfterItem(s)
           \/ /\ snap' = s
              /\ \E r \in HighFront : cyc' = [cyc EXCEPT !.todo = Tail(cyc.todo),
                                                         !.used = cyc.used \cup {r}]
    PROVE  /\ PlanInv'
           /\ snap'.transition = s.transition
           /\ snap'.batch["main"] \in {"READY", "none"}
           /\ \A z \in Zone : Items(snap', z) = Items(s, z)
           /\ \A z \in LowZones : snap'.batch[z] = s.batch[z]
<1>1. CASE /\ snap' = IF Items(s, "main") = {}
                      THEN [s EXCEPT !.batch["main"] = "none"] ELSE s
           /\ Goto("decide")
  <2>1. /\ snap'.item = s.item /\ snap'.transition = s.transition
        /\ snap'.batch["main"] \in {"READY", "none"}
        /\ \A z \in LowZones : snap'.batch[z] = s.batch[z]
    BY <1>1 DEF Snapshot, LowZones, Zone
  <2>2. cyc'.phase = "decide"
    BY <1>1, GotoCycle DEF Phases
  <2> QED
    BY <2>1, <2>2, PlainPlan DEF Items
<1>2. CASE snap' = s /\ cyc'.phase = "backfill"
  BY <1>2 DEF PlanInv, TidyWork
<1>3. CASE snap' = s /\ cyc' = [cyc EXCEPT !.todo = Tail(cyc.todo)]
  <2>1. cyc'.phase = "backfill"
    BY <1>3 DEF CycleRecord
  <2> QED
    BY <1>2, <1>3, <2>1
<1>4. CASE /\ snap' = s
           /\ \E r \in HighFront : cyc' = [cyc EXCEPT !.todo = Tail(cyc.todo),
                                                      !.used = cyc.used \cup {r}]
  <2>1. cyc'.phase = "backfill"
    BY <1>4 DEF CycleRecord
  <2> QED
    BY <1>2, <1>4, <2>1
<1> QED
  BY <1>1, <1>3, <1>4 DEF AfterItem

LEMMA BackfillFlow ==
    ASSUME Before, Backfill
    PROVE  After
<1> DEFINE p == Head(cyc.todo).to
<1>1. /\ cyc.phase = "backfill" /\ cyc \in CycleRecord
      /\ cyc.todo \in Seq(StepRecord) /\ cyc.todo # <<>>
      /\ StepsTo(cyc.todo, Items(snap, "main"))
      /\ snap.batch["main"] = "READY" /\ snap \in Snapshot
      /\ pan \in PanTable /\ SnapInv(snap, pan, revived) /\ SnapCore(snap, pan, revived)
      /\ kills' = kills
  BY DEF Backfill, Before, SchedInv, CycleInv, CycleRecord, BackfillInv, PlanInv,
     SnapInv, SnapCore
<1>2. p \in Items(snap, "main") /\ p \in Rear /\ p \in Pan
  <2>1. p \in Items(snap, "main")
    BY <1>1, RestFacts
  <2> QED
    BY <2>1, ZoneFacts, AreaFacts DEF Items
<1>3. ASSUME NEW t, SnapCore(t, pan', revived), t.batch = snap.batch,
             t.transition = snap.transition,
             Items(t, "main") \subseteq Items(snap, "main"),
             \A z \in LowZones : Items(t, z) = Items(snap, z),
             Undisturbed => Heating(pan', Pan) = Heating(pan, Pan),
             \/ AfterItem(t)
             \/ /\ snap' = t
                /\ \E r \in HighFront : cyc' = [cyc EXCEPT !.todo = Tail(cyc.todo),
                                                           !.used = cyc.used \cup {r}]
      PROVE  PlanInv' /\ (Undisturbed => CookInv(snap', pan'))
  <2>1. t \in Snapshot /\ t.batch["main"] = "READY"
    BY <1>1, <1>3 DEF SnapCore
  <2>2. /\ PlanInv'
        /\ snap'.transition = t.transition
        /\ snap'.batch["main"] \in {"READY", "none"}
        /\ \A z \in Zone : Items(snap', z) = Items(t, z)
        /\ \A z \in LowZones : snap'.batch[z] = t.batch[z]
    BY <1>1, <1>3, <2>1, NextPlan
  <2>3. /\ Items(snap', "main") \subseteq Items(snap, "main")
        /\ \A z \in LowZones : Items(snap', z) = Items(snap, z)
        /\ \A z \in LowZones : snap'.batch[z] = snap.batch[z]
        /\ snap'.transition = snap.transition
    BY <1>3, <2>2, ZoneFacts DEF Zone
  <2>4. ASSUME Undisturbed
        PROVE  CookInv(snap', pan')
    <3>1. CookInv(snap, pan) /\ Heating(pan', Pan) = Heating(pan, Pan)
      BY <1>3, <2>4 DEF Before
    <3> QED
      BY <1>1, <2>2, <2>3, <3>1, CookLess
  <2> QED
    BY <2>2, <2>4
<1> HIDE DEF p
<1>4. \A t, u : \A z \in LowZones : Items(t, z) = Items(u, z) \ {p} /\ z \in Zone
                                        => Items(t, z) = Items(u, z)
  <2>1. \A z \in LowZones : \A u : p \notin Items(u, z)
    BY <1>2, ZoneFacts, AreaFacts DEF Items
  <2> QED
    BY <2>1
<1>5. CASE /\ pan[p] = "empty" /\ AfterItem(Complete(snap, p))
           /\ UNCHANGED <<pan, up, stock>>
  <2>1. PICK t : t = Complete(snap, p)
    OBVIOUS
  <2>2. pan' = pan /\ AfterItem(t)
    BY <1>5, <2>1
  <2>3. Full(pan', Rear) \subseteq Full(pan, Rear) \ {p}
    BY <1>5, <2>2 DEF Full
  <2>4. /\ SnapCore(t, pan', revived) /\ t.transition = snap.transition /\ t.batch = snap.batch
        /\ \A z \in Zone : Items(t, z) = Items(snap, z) \ {p}
    BY <1>1, <1>2, <2>1, <2>3, CompleteKeeps
  <2>5. /\ Items(t, "main") \subseteq Items(snap, "main")
        /\ \A z \in LowZones : Items(t, z) = Items(snap, z)
    BY <1>4, <2>4, ZoneFacts DEF Zone
  <2>6. PlanInv' /\ (Undisturbed => CookInv(snap', pan'))
    BY <1>3, <2>2, <2>4, <2>5
  <2> QED
    BY <1>1, <2>2, <2>6, FlowStay DEF After
<1>6. CASE AfterItem(snap) /\ UNCHANGED <<pan, up, stock>>
  <2>1. PlanInv' /\ (Undisturbed => CookInv(snap', pan'))
    BY <1>1, <1>3, <1>6
  <2> QED
    BY <1>1, <1>6, <2>1, FlowStay DEF After
<1>7. ASSUME NEW q \in IF Targets(snap) = {} THEN {snap.item[p].target}
                       ELSE Targets(snap),
             pan[p] # "empty", pan[q] = "empty",
             NEW s, s = [snap EXCEPT !.item[p].target = q],
             \/ /\ Moves(p, q)
                /\ LET t == Complete(s, p)
                   IN IF Len(cyc.todo) = 1
                      THEN AfterItem(t)
                      ELSE /\ snap' = t
                           /\ cyc' = [cyc EXCEPT !.todo = Tail(@), !.used = @ \cup {q}]
             \/ /\ MoveFails /\ snap' = s /\ Goto("decide")
      PROVE  After
  <2>1. q \in HighFront \/ q = snap.item[p].target
    BY <1>7, AreaFacts DEF Targets, FrontPlan, Vacant
  <2>2. /\ SnapInv(s, pan, revived) /\ q \in HighFront
        /\ s.transition = snap.transition /\ s.batch = snap.batch
        /\ \A z \in Zone : Items(s, z) = Items(snap, z)
    BY <1>1, <1>2, <1>7, <2>1, RetargetKeeps
  <2>3. CASE MoveFails /\ snap' = s /\ Goto("decide")
    <3>1. cyc'.phase = "decide"
      BY <1>1, <2>3, GotoCycle DEF Phases
    <3>2. pan' = pan
      BY <2>3 DEF MoveFails
    <3>3. Undisturbed => CookInv(snap', pan')
      BY <2>2, <2>3, <3>2, CookStays DEF Before
    <3> QED
      BY <1>1, <3>1, <3>2, <3>3, PlainPlan, FlowStay DEF After
  <2>4. CASE /\ Moves(p, q)
             /\ LET t == Complete(s, p)
                IN IF Len(cyc.todo) = 1
                   THEN AfterItem(t)
                   ELSE /\ snap' = t
                        /\ cyc' = [cyc EXCEPT !.todo = Tail(@), !.used = @ \cup {q}]
    <3>1. PICK t : t = Complete(s, p)
      OBVIOUS
    <3>2. q \in Pan /\ p # q
      BY <1>7, <2>2, AreaFacts
    <3>3. pan' \in PanTable /\ Full(pan', Rear) \subseteq Full(pan, Rear) \ {p}
      BY <1>1, <1>2, <2>2, <2>4, MovedPan
    <3>4. /\ SnapCore(t, pan', revived) /\ t.transition = s.transition /\ t.batch = s.batch
          /\ \A z \in Zone : Items(t, z) = Items(s, z) \ {p}
      BY <1>2, <2>2, <3>1, <3>3, CompleteKeeps DEF SnapInv
    <3>5. /\ Items(t, "main") \subseteq Items(snap, "main")
          /\ \A z \in LowZones : Items(t, z) = Items(snap, z)
      BY <1>4, <2>2, <3>4, ZoneFacts DEF Zone
    <3>6. Undisturbed => pan[p] = "holding"
      BY <1>1, <1>2, <1>7 DEF Before, CookInv, Warm, Heating, PanTable
    <3>7. Undisturbed => Heating(pan', Pan) = Heating(pan, Pan)
      BY <1>1, <1>2, <1>7, <2>4, <3>2, <3>6 DEF Moves, PanTable, Heating
    <3>8. \/ AfterItem(t)
          \/ /\ snap' = t
             /\ \E r \in HighFront : cyc' = [cyc EXCEPT !.todo = Tail(cyc.todo),
                                                        !.used = cyc.used \cup {r}]
      BY <2>2, <2>4, <3>1
    <3>9. PlanInv' /\ (Undisturbed => CookInv(snap', pan'))
      BY <1>3, <2>2, <3>4, <3>5, <3>7, <3>8
    <3>10. Sausages!Flow
      BY <1>1, <1>2, <1>7, <2>4, <3>2, <3>6, FlowMove
    <3> QED
      BY <3>9, <3>10 DEF After
  <2> QED
    BY <1>7, <2>3, <2>4
<1>8. \/ /\ pan[p] = "empty" /\ AfterItem(Complete(snap, p))
         /\ UNCHANGED <<pan, up, stock>>
      \/ AfterItem(snap) /\ UNCHANGED <<pan, up, stock>>
      \/ \E q \in IF Targets(snap) = {} THEN {snap.item[p].target} ELSE Targets(snap) :
            /\ pan[p] # "empty" /\ pan[q] = "empty"
            /\ LET s == [snap EXCEPT !.item[p].target = q]
               IN \/ /\ Moves(p, q)
                     /\ LET t == Complete(s, p)
                        IN IF Len(cyc.todo) = 1
                           THEN AfterItem(t)
                           ELSE /\ snap' = t
                                /\ cyc' = [cyc EXCEPT !.todo = Tail(@),
                                                      !.used = @ \cup {q}]
                  \/ /\ MoveFails
                     /\ snap' = s
                     /\ Goto("decide")
  BY DEF Backfill, p
<1> QED
  BY <1>5, <1>6, <1>7, <1>8

-----------------------------------------------------------------------------
(* Low concurrency.                                                        *)

LEMMA DecideLowFlow ==
    ASSUME Before, DecideLow
    PROVE  After
<1>1. /\ snap' = ReconcileLowFrontPits(snap) /\ SnapInv(snap, pan, revived)
      /\ UNCHANGED <<pan, kills>> /\ cyc'.phase = "primary"
  BY DEF DecideLow, Before, SchedInv, Idle
<1>2. /\ snap'.transition = snap.transition
      /\ snap'.item = snap.item /\ snap'.batch = snap.batch
  BY <1>1 DEF ReconcileLowFrontPits, SnapInv, SnapCore, Snapshot
<1>3. Undisturbed => CookInv(snap', pan')
  BY <1>1, <1>2, CookStays DEF Before, Items
<1> QED
  BY <1>1, <1>3, PlainPlan, FlowStay DEF After

\* Sausages that are held go to free pans of the front, each to its own.
LEMMA EvacuationFacts ==
    ASSUME NEW z \in LowZones, NEW moves \in Evacuations(z)
    PROVE  /\ StepsTo(moves, Vacant(pan, Pan)) /\ DistinctTo(moves)
           /\ StepsFrom(moves, Warm(pan))
<1> DEFINE n == Cardinality(Sources(z))
<1>1. /\ Sources(z) \subseteq Warm(pan) /\ IsFiniteSet(Sources(z))
      /\ Vacant(pan, Front) \subseteq Vacant(pan, Pan)
  <2>1. Sources(z) \subseteq Warm(pan) /\ Sources(z) \in SUBSET Pan
    BY ZoneFacts, AreaFacts DEF Sources, Holding, Warm, Heating
  <2> QED
    BY <2>1, AreaFacts, SchedAssumption, FS_Subset DEF Vacant
<1>2. PICK f \in Injection(1..n, Vacant(pan, Front)), S \in Orders(Sources(z)) :
         moves = [i \in 1..n |-> [from |-> S[i], to |-> f[i]]]
  BY DEF Evacuations, Sorted
<1>3. /\ f \in [1..n -> Vacant(pan, Front)]
      /\ \A i, j \in 1..n : f[i] = f[j] => i = j
  BY DEF Injection, IsInjective
<1>4. \A i \in 1..n : S[i] \in Sources(z)
  BY <1>1, OrderFacts
<1> HIDE DEF n
<1>5. /\ DOMAIN moves = 1..n
      /\ \A i \in 1..n : moves[i].from = S[i] /\ moves[i].to = f[i]
  BY <1>2
<1> QED
  BY <1>1, <1>3, <1>4, <1>5 DEF StepsTo, StepsFrom, DistinctTo

LEMMA LaunchLowFlow ==
    ASSUME Before, NEW z \in LowZones, LaunchLow(z)
    PROVE  After
<1>1. /\ cyc \in CycleRecord /\ UNCHANGED <<pan, snap, kills>>
  BY DEF LaunchLow, Before, SchedInv, CycleInv
<1>2. PlanInv'
  <2>1. ASSUME NEW picks, Launch(z, picks, TRUE)
        PROVE  PlanInv'
    BY <2>1 DEF Launch, Idle, PlanInv, TidyWork
  <2>2. ASSUME NEW picks, NEW moves \in Evacuations(z),
               cyc' = [cyc EXCEPT !.phase = "evacuate", !.zone = z,
                                  !.todo = moves, !.picks = picks]
        PROVE  PlanInv'
    <3>1. cyc'.phase = "evacuate" /\ cyc'.todo = moves
      BY <1>1, <2>2 DEF CycleRecord
    <3>2. /\ StepsTo(moves, Vacant(pan', Pan)) /\ DistinctTo(moves)
          /\ StepsFrom(moves, Warm(pan'))
      BY <1>1, EvacuationFacts
    <3> QED
      BY <3>1, <3>2 DEF PlanInv
  <2>3. ASSUME cyc' = [Idle EXCEPT !.phase = Following[z], !.go = cyc.go]
        PROVE  PlanInv'
    BY <2>3, PlainPlan DEF Idle, Following, LowZones
  <2> QED
    BY <2>1, <2>2, <2>3 DEF LaunchLow
<1>3. Undisturbed => CookInv(snap', pan')
  BY <1>1, CookStays DEF Before
<1> QED
  BY <1>1, <1>2, <1>3, FlowStay DEF After

\* A move between pans that do not cook.
LEMMA MoveWarm ==
    ASSUME pan \in PanTable, NEW p \in Pan, NEW q \in Pan, p # q,
           p \in Warm(pan), pan[q] = "empty", Moves(p, q)
    PROVE  \A S \in SUBSET Pan : Heating(pan', S) = Heating(pan, S)
BY DEF Moves, PanTable, Heating, Warm

LEMMA EvacuateFlow ==
    ASSUME Before, Evacuate
    PROVE  After
<1> DEFINE mv == Head(cyc.todo)
<1>1. /\ cyc.phase = "evacuate" /\ cyc \in CycleRecord
      /\ cyc.todo \in Seq(StepRecord) /\ cyc.todo # <<>> /\ cyc.got = {}
      /\ cyc.zone \in LowZones /\ SnapInv(snap, pan, revived)
      /\ StepsTo(cyc.todo, Front) /\ StepsFrom(cyc.todo, LowPans)
      /\ StepsTo(cyc.todo, Vacant(pan, Pan)) /\ DistinctTo(cyc.todo)
      /\ StepsFrom(cyc.todo, Warm(pan))
      /\ kills' = kills /\ pan \in PanTable
  BY DEF Evacuate, Before, SchedInv, CycleInv, EvacuateInv, PlanInv, TidyWork,
     CycleRecord
<1>2. /\ mv.to \in Front /\ mv.from \in LowPans
      /\ mv.to \in Vacant(pan, Pan) /\ mv.from \in Warm(pan)
      /\ StepsTo(Tail(cyc.todo), Vacant(pan, Pan)) /\ DistinctTo(Tail(cyc.todo))
      /\ StepsFrom(Tail(cyc.todo), Warm(pan))
      /\ \A i \in DOMAIN Tail(cyc.todo) : Tail(cyc.todo)[i].to # mv.to
  BY <1>1, RestFacts
<1>3. \/ /\ Moves(mv.from, mv.to)
         /\ snap' = ForgetPit(snap, mv.to)
         /\ \E picks :
               cyc' = IF Len(cyc.todo) = 1
                      THEN [cyc EXCEPT !.phase = "load", !.todo = picks,
                                       !.picks = <<>>, !.got = {}]
                      ELSE [cyc EXCEPT !.todo = Tail(cyc.todo), !.picks = picks]
      \/ /\ MoveFails
         /\ cyc' = [Idle EXCEPT !.phase = Following[cyc.zone], !.go = cyc.go]
         /\ UNCHANGED snap
  BY DEF Evacuate
<1> HIDE DEF mv
<1>4. PICK p \in LowPans, q \in Front : p = mv.from /\ q = mv.to
  BY <1>2
<1>5. p \in Pan /\ q \in Pan /\ q \in HighFront /\ p # q /\ pan[q] = "empty"
  BY <1>2, <1>4, AreaFacts DEF Vacant
<1>6. CASE /\ MoveFails /\ UNCHANGED snap
           /\ cyc' = [Idle EXCEPT !.phase = Following[cyc.zone], !.go = cyc.go]
  <2>1. cyc'.phase \in {"secondary", "threshold"}
    BY <1>1, <1>6 DEF Idle, Following, LowZones
  <2>2. pan' = pan
    BY <1>6 DEF MoveFails
  <2>3. Undisturbed => CookInv(snap', pan')
    BY <1>6, <2>2, CookStays DEF Before
  <2> QED
    BY <1>1, <2>1, <2>2, <2>3, PlainPlan, FlowStay DEF After
<1>7. ASSUME Moves(mv.from, mv.to), snap' = ForgetPit(snap, mv.to), NEW picks,
             cyc' = IF Len(cyc.todo) = 1
                    THEN [cyc EXCEPT !.phase = "load", !.todo = picks,
                                     !.picks = <<>>, !.got = {}]
                    ELSE [cyc EXCEPT !.todo = Tail(cyc.todo), !.picks = picks]
      PROVE  After
  <2>1. Moves(p, q) /\ p \in Warm(pan)
    BY <1>2, <1>4, <1>7
  <2>2. \A S \in SUBSET Pan : Heating(pan', S) = Heating(pan, S)
    BY <1>1, <1>5, <2>1, MoveWarm
  <2>3. /\ snap'.transition = snap.transition /\ snap'.batch = snap.batch
        /\ \A z \in Zone : Items(snap', z) = Items(snap, z)
    BY <1>1, <1>7, ForgetFields DEF SnapInv, SnapCore
  <2>4. Undisturbed => CookInv(snap', pan')
    BY <2>2, <2>3, CookStays DEF Before
  <2>5. Sausages!Flow
    <3>1. pan[p] # "heating" /\ cyc.phase \in TidyWork
      BY <1>1, <2>1 DEF Warm, Heating, TidyWork
    <3> QED
      BY <1>1, <1>5, <2>1, <3>1, FlowMove
  <2>6. PlanInv'
    <3>1. CASE Len(cyc.todo) = 1
      <4>1. cyc'.phase = "load" /\ cyc'.got = {}
        BY <1>1, <1>7, <3>1 DEF CycleRecord
      <4> QED
        BY <4>1 DEF PlanInv, TidyWork
    <3>2. CASE Len(cyc.todo) # 1
      <4>1. cyc'.phase = "evacuate" /\ cyc'.todo = Tail(cyc.todo)
        BY <1>1, <1>7, <3>2 DEF CycleRecord
      <4>2. Vacant(pan, Pan) \ {q} \subseteq Vacant(pan', Pan) /\ Warm(pan') = Warm(pan)
        BY <1>1, <1>5, <2>1, <2>2, MovedPan DEF Warm
      <4>3. StepsTo(Tail(cyc.todo), Vacant(pan', Pan))
        BY <1>2, <1>4, <4>2 DEF StepsTo
      <4> QED
        BY <1>2, <4>1, <4>2, <4>3 DEF PlanInv
    <3> QED
      BY <3>1, <3>2
  <2> QED
    BY <2>4, <2>5, <2>6 DEF After
<1> QED
  BY <1>3, <1>6, <1>7

\* The batch that is added cooks, each of its sausages.
LEMMA AddCook ==
    ASSUME NEW s \in Snapshot, ItemsWhole(s), NEW pn, CookInv(s, pn), NEW z \in Zone,
           Items(s, z) = {}, NEW got \in SUBSET Pick, got # {},
           \A l \in got : /\ l.to \in ZonePans[z] /\ l.to \in Heating(pn, Pan)
                          /\ z = "main" => l.from \in HighFront,
           NEW t, t = AddBatch(s, z, got)
    PROVE  CookInv(t, pn)
<1> DEFINE new == {l.to : l \in got}
<1>1. /\ t.transition = s.transition
      /\ t.batch = [s.batch EXCEPT ![z] = "HEATING"]
      /\ \A p \in Supply : p \notin new => t.item[p] = s.item[p]
      /\ \A p \in new : t.item[p] # NoItem
  <2>1. \A l \in got : /\ l.to \in ZonePans[z]
                       /\ z = "main" => l.from \in HighFront
    OBVIOUS
  <2> QED
    BY <2>1, AddFields DEF Pick
<1>2. new # {} /\ new \subseteq ZonePans[z] /\ new \subseteq Heating(pn, Pan)
  OBVIOUS
<1> HIDE DEF new
<1>3. t.batch[z] = "HEATING" /\ \A y \in Zone : y # z => t.batch[y] = s.batch[y]
  BY <1>1 DEF Snapshot
<1>4. \A p \in ZonePans[z] : p \in Supply /\ s.item[p] = NoItem
  BY ZoneFacts DEF Items
<1>5. Items(t, z) = new
  BY <1>1, <1>2, <1>4 DEF Items
<1>6. ASSUME NEW y \in Zone, y # z
      PROVE  Items(t, y) = Items(s, y)
  <2>1. \A p \in ZonePans[y] : p \in Supply /\ p \notin new
    BY <1>2, <1>6, ZonesApart, ZoneFacts
  <2> QED
    BY <1>1, <2>1 DEF Items
<1>7. \A y \in Zone :
        t.batch[y] = "HEATING" /\ (y = "main" \/ t.transition # "HIGH_TO_LOW")
            => Items(t, y) # {} /\ Items(t, y) \subseteq Heating(pn, Pan)
  BY <1>1, <1>2, <1>3, <1>5, <1>6 DEF CookInv
<1>8. t.batch["main"] = "READY" => Items(t, "main") \subseteq Warm(pn)
  <2>1. CASE z = "main"
    BY <1>3, <2>1
  <2>2. CASE z # "main"
    BY <1>3, <1>6, <2>2 DEF CookInv, Zone
  <2> QED
    BY <2>1, <2>2
<1> QED
  BY <1>7, <1>8 DEF CookInv

LEMMA LoadFlow ==
    ASSUME Before, Load
    PROVE  After
<1> DEFINE l == Head(cyc.todo)
           z == cyc.zone
<1>1. /\ cyc.phase = "load" /\ cyc \in CycleRecord /\ z \in Zone
      /\ cyc.todo \in Seq(StepRecord) /\ cyc.todo # <<>>
      /\ pan \in PanTable /\ SnapInv(snap, pan, revived) /\ kills' = kills
      /\ \A g \in cyc.got : g.to \in Heating(pan, Pan)
  BY DEF Load, Before, SchedInv, CycleInv, CycleRecord, PlanInv
<1>2. /\ l.to \in ZonePans[z] /\ l.to \in Pan
      /\ Undisturbed => pan[l.to] = "empty"
      /\ z = "main" => l.to \in Rear
      /\ z # "main" => l.to \notin Rear
  <2>1. CASE z = "main"
    <3>1. /\ StepsTo(cyc.todo, Rear)
          /\ Undisturbed => StepsTo(cyc.todo, Vacant(pan, Pan))
      BY <1>1, <2>1 DEF Before, SchedInv, CycleInv, LoadHighInv
    <3>2. l.to \in Rear /\ (Undisturbed => l.to \in Vacant(pan, Pan))
      BY <1>1, <3>1, RestFacts
    <3> QED
      BY <2>1, <3>2, ZoneFacts, AreaFacts DEF Vacant
  <2>2. CASE z # "main"
    <3>1. StepsTo(cyc.todo, ZonePans[z]) /\ StepsTo(cyc.todo, Vacant(pan, Pan))
      BY <1>1, <2>2 DEF Before, SchedInv, CycleInv, LoadLowInv, LoadableInv
    <3>2. l.to \in ZonePans[z] /\ l.to \in Vacant(pan, Pan)
      BY <1>1, <3>1, RestFacts
    <3> QED
      BY <1>1, <2>2, <3>2, ZoneFacts, AreaFacts DEF Vacant
  <2> QED
    BY <2>1, <2>2
<1>3. PICK s, got :
         /\ Loaded(l, s, got) \/ NotLoaded(s, got)
         /\ \/ /\ Len(cyc.todo) = 1
               /\ snap' = AddBatch(s, z, got)
               /\ cyc' = [Idle EXCEPT !.phase = Following[z], !.go = cyc.go]
            \/ /\ Len(cyc.todo) # 1 /\ snap' = s
               /\ cyc' = [cyc EXCEPT !.todo = Tail(cyc.todo), !.got = got]
  BY LoadCases
<1>4. Loaded(Head(cyc.todo), s, got) \/ NotLoaded(s, got)
  BY <1>3
<1> HIDE DEF l, z
<1>5. \/ pan' = [pan EXCEPT ![l.to] = "heating"] /\ got = cyc.got \cup {l}
      \/ pan' = pan /\ got = cyc.got
  BY <1>3 DEF Loaded, Loads, NotLoaded, LoadSkipped, MoveFails
<1>6. Sausages!Flow
  <2>1. PICK p \in Pan : p = l.to
    BY <1>2
  <2> QED
    BY <1>1, <1>2, <1>5, <2>1, FlowLoad, FlowStay
<1>7. /\ Heating(pan, Pan) \subseteq Heating(pan', Pan)
      /\ \A g \in got : g.to \in Heating(pan', Pan)
      /\ z # "main" => Heating(pan', Rear) \subseteq Heating(pan, Rear)
  BY <1>1, <1>2, <1>5, AreaFacts DEF Heating, PanTable
<1>8. PlanInv'
  <2>1. CASE cyc' = [Idle EXCEPT !.phase = Following[z], !.go = cyc.go]
    <3>1. cyc'.phase \in {"secondary", "threshold", "finalize"}
      BY <1>1, <2>1 DEF Idle, Following, Zone, z
    <3> QED
      BY <3>1, PlainPlan
  <2>2. CASE cyc' = [cyc EXCEPT !.todo = Tail(cyc.todo), !.got = got]
    <3>1. cyc'.phase = "load" /\ cyc'.got = got
      BY <1>1, <2>2 DEF CycleRecord
    <3> QED
      BY <1>7, <3>1 DEF PlanInv, TidyWork
  <2> QED
    BY <1>3, <2>1, <2>2
<1>9. ASSUME Undisturbed
      PROVE  CookInv(snap', pan')
  <2>1. SchedInv(revived) /\ Book /\ CookInv(snap, pan) /\ snap.batch[z] = "none"
    BY <1>1, <1>9 DEF Before, Book, PhaseInv, z
  <2>2. /\ s \in Snapshot /\ ItemsWhole(s) /\ s.transition = snap.transition
        /\ s.item = snap.item /\ s.batch = snap.batch
        /\ got \in SUBSET Pick
        /\ \A g \in got : g.to \in ZonePans[z]
        /\ z = "main" => \A g \in got : g.from \in Pits(snap)
    BY <1>4, <1>9, <2>1, Clean, LoadFacts DEF z
  <2>3. \A y \in Zone : Items(s, y) = Items(snap, y)
    BY <2>2 DEF Items
  <2>4. CookInv(s, pan')
    <3>1. snap.batch["main"] = "READY" => Heating(pan', Rear) \subseteq Heating(pan, Rear)
      BY <1>7, <2>1
    <3> QED
      BY <1>7, <2>1, <2>2, <2>3, <3>1, CookKeeps
  <2>5. Items(s, z) = {}
    BY <1>1, <2>1, <2>3 DEF SnapInv, SnapCore, z
  <2>6. CASE snap' = s
    BY <2>4, <2>6
  <2>7. CASE snap' = AddBatch(s, z, got)
    <3>1. CASE got = {}
      BY <2>4, <2>7, <3>1 DEF AddBatch
    <3>2. CASE got # {}
      <4>1. z = "main" => \A g \in got : g.from \in HighFront
        BY <2>2 DEF Pits
      <4>2. z \in Zone
        BY <1>1 DEF z
      <4> QED
        BY <1>7, <2>2, <2>4, <2>5, <2>7, <3>2, <4>1, <4>2, AddCook
    <3> QED
      BY <3>1, <3>2
  <2> QED
    BY <1>3, <2>6, <2>7
<1> QED
  BY <1>6, <1>8, <1>9 DEF After

-----------------------------------------------------------------------------
(* The mode, the transition and the compaction.                            *)

\* The cycle ends with the same batches.
LEMMA FinishFlow ==
    ASSUME Before, NEW s, Finish(s, pan), UNCHANGED <<pan, kills>>,
           s.batch = snap.batch, \A z \in Zone : Items(s, z) = Items(snap, z),
           s.transition # "HIGH_TO_LOW" => snap.transition # "HIGH_TO_LOW"
    PROVE  After
<1>1. PlanInv' /\ snap' = s
  BY FinishPlan
<1>2. Undisturbed => CookInv(snap', pan')
  BY <1>1, CookStays DEF Before
<1> QED
  BY <1>1, <1>2, FlowStay DEF After

LEMMA ThresholdFlow ==
    ASSUME Before, Threshold
    PROVE  After
<1>1. /\ UNCHANGED <<pan, kills>> /\ SnapInv(snap, pan, revived) /\ snap.mode = "LOW"
      /\ snap \in Snapshot /\ ItemsWhole(snap) /\ snap.transition = "NONE"
  BY DEF Threshold, Before, SchedInv, CycleInv, LowPhases, SnapInv, SnapCore, LowInv
<1>2. PICK s \in {snap, EnterLowToHigh} : Finish(s, pan)
  BY DEF Threshold
<1>3. CASE s = snap
  BY <1>1, <1>2, <1>3, FinishFlow
<1>4. CASE s = EnterLowToHigh
  <2>1. s.batch = snap.batch
    BY <1>1, <1>4, EnterKeeps
  <2>2. s.item = [p \in Supply |-> [snap.item[p] EXCEPT !.pit = NoPit]]
    BY <1>1, <1>4 DEF EnterLowToHigh, Snapshot
  <2>3. \A p \in Supply : s.item[p] = NoItem <=> snap.item[p] = NoItem
    <3> TAKE p \in Supply
    <3>1. snap.item[p] \in [pit: HighFront \cup {NoPit}, target: Pan \cup {NoPit}]
      BY <1>1 DEF Snapshot
    <3>2. snap.item[p].target = NoPit => snap.item[p] = NoItem
      BY <1>1 DEF ItemsWhole
    <3> QED
      BY <2>2, <3>1, <3>2 DEF NoItem
  <2>4. \A z \in Zone : Items(s, z) = Items(snap, z)
    BY <2>3, ZoneFacts DEF Items
  <2> QED
    BY <1>1, <1>2, <2>1, <2>4, FinishFlow
<1> QED
  BY <1>3, <1>4

LEMMA TransitionFlow ==
    ASSUME Before, NEW x \in {"NONE", "HIGH_TO_LOW"},
           x = "NONE" => snap.transition # "HIGH_TO_LOW",
           Finish([snap EXCEPT !.transition = x], pan), UNCHANGED <<pan, kills>>
    PROVE  After
<1>1. PICK s : s = [snap EXCEPT !.transition = x]
  OBVIOUS
<1>2. s.batch = snap.batch /\ s.item = snap.item /\ s.transition = x
  BY <1>1 DEF Before, SchedInv, SnapInv, SnapCore, Snapshot
<1>3. Finish(s, pan)
  BY <1>1
<1>4. \A z \in Zone : Items(s, z) = Items(snap, z)
  BY <1>2 DEF Items
<1> QED
  BY <1>2, <1>3, <1>4, FinishFlow

LEMMA LaunchHighFlow ==
    ASSUME Before, NEW picks, NEW go, Launch("main", picks, go),
           UNCHANGED <<pan, snap, kills>>
    PROVE  After
<1>1. PlanInv'
  BY DEF Launch, Idle, PlanInv, TidyWork
<1>2. Undisturbed => CookInv(snap', pan')
  BY CookStays DEF Before
<1> QED
  BY <1>1, <1>2, FlowStay DEF After

LEMMA DecideHighFlow ==
    ASSUME Before, DecideHigh
    PROVE  After
<1>1. UNCHANGED <<pan, kills>>
  BY DEF DecideHigh
<1>2. CASE Finish([snap EXCEPT !.transition = "HIGH_TO_LOW"], pan)
  BY <1>1, <1>2, TransitionFlow
<1>3. CASE (\E picks \in Picks("main") : Launch("main", picks, FALSE)) /\ snap' = snap
  BY <1>1, <1>3, LaunchHighFlow
<1>4. CASE Finish(snap, pan)
  BY <1>1, <1>4, FinishFlow
<1> QED
  BY <1>2, <1>3, <1>4 DEF DecideHigh

LEMMA DecideLowToHighFlow ==
    ASSUME Before, DecideLowToHigh
    PROVE  After
<1>1. UNCHANGED <<pan, snap, kills>>
  BY DEF DecideLowToHigh
<1>2. PICK go : \/ \E picks \in Picks("main") : Launch("main", picks, go)
                \/ cyc' = [Idle EXCEPT !.phase = "finalize", !.go = go]
  BY DEF DecideLowToHigh
<1>3. CASE \E picks \in Picks("main") : Launch("main", picks, go)
  BY <1>1, <1>3, LaunchHighFlow
<1>4. CASE cyc' = [Idle EXCEPT !.phase = "finalize", !.go = go]
  <2>1. cyc'.phase = "finalize"
    BY <1>4 DEF Idle
  <2>2. Undisturbed => CookInv(snap', pan')
    BY <1>1, CookStays DEF Before
  <2> QED
    BY <1>1, <2>1, <2>2, PlainPlan, FlowStay DEF After
<1> QED
  BY <1>2, <1>3, <1>4

LEMMA FinalizeFlow ==
    ASSUME Before, Finalize
    PROVE  After
<1>1. UNCHANGED <<pan, kills>>
  BY DEF Finalize
<1>2. CASE /\ snap.transition = "LOW_TO_HIGH"
           /\ Finish([snap EXCEPT !.transition = "NONE"], pan)
  BY <1>1, <1>2, TransitionFlow
<1>3. CASE Finish(snap, pan)
  BY <1>1, <1>3, FinishFlow
<1> QED
  BY <1>2, <1>3 DEF Finalize

\* Low concurrency begins without batches.
LEMMA CollapseFlow ==
    ASSUME NEW pn, pn = pan', Finish(CollapseToLow, pn)
    PROVE  PlanInv' /\ CookInv(snap', pan')
<1>1. PlanInv' /\ snap' = CollapseToLow
  BY FinishPlan
<1> QED
  BY <1>1, CookNone DEF CollapseToLow, NewSnapshot

\* The compaction goes to free pans, to each once.
LEMMA CompactionTargets ==
    ASSUME NEW moves \in Compactions
    PROVE  StepsTo(moves, Vacant(pan, Pan)) /\ DistinctTo(moves)
<1> DEFINE from == Full(pan, HighFront \ Front)
           free == Vacant(pan, Front)
           big == \/ Cardinality(Full(pan, HighFront)) > CompactLimit
                  \/ Cardinality(from) > Cardinality(free)
           all == {[i \in DOMAIN q |-> [from |-> q[i], to |-> to[i]]] :
                      q \in Orders(from), to \in Sorted(free)}
<1>1. IsFiniteSet(from) /\ IsFiniteSet(free) /\ free \subseteq Vacant(pan, Pan)
  <2>1. from \subseteq Pan /\ free \subseteq Pan /\ free \subseteq Vacant(pan, Pan)
    BY AreaFacts DEF Full, Vacant
  <2> QED
    BY <2>1, SchedAssumption, FS_Subset
<1>2. moves \in IF big THEN {} ELSE all
  BY DEF Compactions
<1>3. ~big /\ moves \in all
  <2> HIDE DEF big, all
  <2> QED
    BY <1>2
<1> HIDE DEF from, free
<1>4. PICK q \in Orders(from), to \in Orders(free) :
         moves = [i \in DOMAIN q |-> [from |-> q[i], to |-> to[i]]]
  BY <1>3 DEF Sorted
<1>5. DOMAIN q = 1..Cardinality(from) /\ Cardinality(from) \in Nat
  BY <1>1, OrderFacts
<1>6. /\ DOMAIN to = 1..Cardinality(free) /\ Cardinality(free) \in Nat
      /\ \A i, j \in DOMAIN to : i # j => to[i] # to[j]
      /\ \A i \in DOMAIN to : to[i] \in free
  BY <1>1, OrderFacts
<1>7. DOMAIN q \subseteq DOMAIN to
  BY <1>3, <1>5, <1>6
<1>8. /\ DOMAIN moves = DOMAIN q
      /\ \A i \in DOMAIN q : moves[i].to = to[i]
  BY <1>4
<1> QED
  BY <1>1, <1>6, <1>7, <1>8 DEF StepsTo, DistinctTo

LEMMA DecideHighToLowFlow ==
    ASSUME Before, DecideHighToLow
    PROVE  After
<1>1. cyc \in CycleRecord /\ UNCHANGED <<pan, kills>>
  BY DEF DecideHighToLow, Before, SchedInv, CycleInv
<1>2. CASE Finish(CollapseToLow, pan)
  <2>1. PlanInv' /\ CookInv(snap', pan')
    BY <1>1, <1>2, CollapseFlow
  <2> QED
    BY <1>1, <2>1, FlowStay DEF After
<1>3. CASE Finish(snap, pan)
  BY <1>1, <1>3, FinishFlow
<1>4. ASSUME NEW moves \in Compactions, UNCHANGED snap,
             cyc' = [cyc EXCEPT !.phase = "compact", !.todo = moves]
      PROVE  After
  <2>1. cyc'.phase = "compact" /\ cyc'.todo = moves
    BY <1>1, <1>4 DEF CycleRecord
  <2>2. StepsTo(moves, Vacant(pan', Pan)) /\ DistinctTo(moves)
    BY <1>1, CompactionTargets
  <2>3. PlanInv'
    BY <2>1, <2>2 DEF PlanInv
  <2>4. Undisturbed => CookInv(snap', pan')
    BY <1>1, <1>4, CookStays DEF Before
  <2> QED
    BY <1>1, <2>3, <2>4, FlowStay DEF After
<1> QED
  BY <1>2, <1>3, <1>4 DEF DecideHighToLow

LEMMA CompactFlow ==
    ASSUME Before, Compact
    PROVE  After
<1> DEFINE mv == Head(cyc.todo)
<1>1. /\ cyc.phase = "compact" /\ cyc \in CycleRecord
      /\ cyc.todo \in Seq(StepRecord) /\ cyc.todo # <<>>
      /\ StepsTo(cyc.todo, Front) /\ StepsFrom(cyc.todo, HighFront)
      /\ StepsTo(cyc.todo, Vacant(pan, Pan)) /\ DistinctTo(cyc.todo)
      /\ kills' = kills /\ pan \in PanTable
  BY DEF Compact, Before, SchedInv, CycleInv, CompactInv, PlanInv, TidyWork,
     CycleRecord
<1>2. /\ mv.to \in Front /\ mv.from \in HighFront /\ mv.to \in Vacant(pan, Pan)
      /\ StepsTo(Tail(cyc.todo), Vacant(pan, Pan)) /\ DistinctTo(Tail(cyc.todo))
      /\ \A i \in DOMAIN Tail(cyc.todo) : Tail(cyc.todo)[i].to # mv.to
  BY <1>1, RestFacts
<1>3. \/ /\ Moves(mv.from, mv.to)
         /\ \/ Finish(CollapseToLow, pan')
            \/ cyc' = [cyc EXCEPT !.todo = Tail(cyc.todo)] /\ UNCHANGED snap
      \/ MoveFails /\ Finish(snap, pan)
  BY DEF Compact
<1> HIDE DEF mv
<1>4. PICK p \in HighFront, q \in Front : p = mv.from /\ q = mv.to
  BY <1>2
<1>5. p \in Pan /\ q \in Pan /\ q \in HighFront /\ pan[q] = "empty"
  BY <1>2, <1>4, AreaFacts DEF Vacant
<1>6. CASE MoveFails /\ Finish(snap, pan)
  <2>1. pan' = pan
    BY <1>6 DEF MoveFails
  <2> QED
    BY <1>1, <1>6, <2>1, FinishFlow
<1>7. ASSUME Moves(p, q)
      PROVE  Sausages!Flow
  <2>1. CASE p = q
    <3>1. pan' = pan
      BY <1>1, <1>5, <1>7, <2>1 DEF Moves, PanTable
    <3> QED
      BY <1>1, <3>1, FlowStay
  <2>2. CASE p # q
    BY <1>1, <1>5, <1>7, <2>2, FlowMove DEF TidyWork
  <2> QED
    BY <2>1, <2>2
<1>8. CASE Moves(p, q) /\ Finish(CollapseToLow, pan')
  <2>1. PlanInv' /\ CookInv(snap', pan')
    BY <1>8, CollapseFlow
  <2> QED
    BY <1>7, <1>8, <2>1 DEF After
<1>9. CASE /\ Moves(p, q) /\ UNCHANGED snap
           /\ cyc' = [cyc EXCEPT !.todo = Tail(cyc.todo)]
  <2>1. cyc'.phase = "compact" /\ cyc'.todo = Tail(cyc.todo)
    BY <1>1, <1>9 DEF CycleRecord
  <2>2. Vacant(pan, Pan) \ {q} \subseteq Vacant(pan', Pan)
    BY <1>1, <1>5, <1>9, MovedPan
  <2>3. StepsTo(Tail(cyc.todo), Vacant(pan', Pan))
    BY <1>2, <1>4, <2>2 DEF StepsTo
  <2>4. PlanInv'
    BY <1>2, <2>1, <2>3 DEF PlanInv
  <2>5. Undisturbed => CookInv(snap', pan')
    <3> SUFFICES ASSUME Undisturbed PROVE CookInv(snap', pan')
      OBVIOUS
    <3>1. snap.transition = "HIGH_TO_LOW" /\ snap.batch["main"] = "none"
      BY <1>1 DEF Before, Book, PhaseInv
    <3> QED
      BY <1>9, <3>1 DEF CookInv
  <2> QED
    BY <1>7, <1>9, <2>4, <2>5 DEF After
<1> QED
  BY <1>3, <1>4, <1>6, <1>8, <1>9

-----------------------------------------------------------------------------
(* The batches that cook, until the first kill, and the refinement.        *)

FlowInv == PlanInv /\ (Undisturbed => CookInv(snap, pan))

LEMMA FlowStep == Before /\ [SchedNext]_schedVars => After \/ Kill
<1> SUFFICES ASSUME Before, [SchedNext]_schedVars PROVE After \/ Kill
  OBVIOUS
<1>1. ASSUME NEW over \in SUBSET Running, RunCycle(over) PROVE After
  BY <1>1, RunCycleFlow
<1>2. CASE Initialize
  BY <1>2, InitializeFlow
<1>3. CASE Backfill
  BY <1>3, BackfillFlow
<1>4. CASE DecideLow
  BY <1>4, DecideLowFlow
<1>5. ASSUME NEW z \in LowZones, LaunchLow(z) PROVE After
  BY <1>5, LaunchLowFlow
<1>6. CASE Evacuate
  BY <1>6, EvacuateFlow
<1>7. CASE Load
  BY <1>7, LoadFlow
<1>8. CASE Threshold
  BY <1>8, ThresholdFlow
<1>9. CASE DecideHigh
  BY <1>9, DecideHighFlow
<1>10. CASE DecideLowToHigh
  BY <1>10, DecideLowToHighFlow
<1>11. CASE Finalize
  BY <1>11, FinalizeFlow
<1>12. CASE DecideHighToLow
  BY <1>12, DecideHighToLowFlow
<1>13. CASE Compact
  BY <1>13, CompactFlow
<1>14. CASE Discard
  BY <1>14, DiscardFlow
<1>15. ASSUME NEW p \in HighFront, Sale(p) PROVE After
  BY <1>15, SaleFlow
<1>16. CASE Resume \/ Restock \/ UNCHANGED coreVars
  BY <1>16, PeopleFlow
<1> QED
  BY <1>1, <1>2, <1>3, <1>4, <1>5, <1>6, <1>7, <1>8, <1>9, <1>10, <1>11, <1>12,
     <1>13, <1>14, <1>15, <1>16, StepCases DEF Step, CycleStep

\* The abstract step, and what is needed for the next one.
LEMMA FlowKeeps ==
    ASSUME Sound, BookInv, FlowInv, [SchedNext]_schedVars
    PROVE  FlowInv' /\ [Sausages!FlowNext]_(Sausages!flowVars)
<1>1. Before
  BY DEF Before, Sound, BookInv, FlowInv
<1>2. CASE Kill
  <2>1. ~Undisturbed'
    BY <1>2, KillsGrow
  <2>2. cyc'.phase = "idle" /\ pan' \in PanTable
    BY <1>2 DEF Kill, Idle, Sound
  <2>3. PlanInv'
    BY <2>2, PlainPlan
  <2>4. Sausages!Kill
    BY <2>1, <2>2 DEF Sausages!Kill, TidyWork, PanTable
  <2> QED
    BY <2>1, <2>3, <2>4 DEF FlowInv, Sausages!FlowNext
<1>3. CASE ~Kill
  <2>1. After /\ kills' = kills
    BY <1>1, <1>3, FlowStep, KillsGrow
  <2> QED
    BY <2>1 DEF After, FlowInv, Undisturbed, Sausages!FlowNext
<1> QED
  BY <1>2, <1>3

LEMMA FlowInvariant == SchedSpec => []FlowInv
<1>1. SchedInit => FlowInv
  BY PlanInit DEF FlowInv
<1>2. Sound /\ BookInv /\ FlowInv /\ [SchedNext]_schedVars => FlowInv'
  BY FlowKeeps
<1> QED
  BY <1>1, <1>2, SchedInvariant, BookInvariant, PTL DEF SchedSpec

(* As long as nobody kills the app, a batch that cooks is whole: every     *)
(* sausage it counts on is on its pan and cooks, so that updateBatchStates *)
(* will find the batch done.                                               *)
THEOREM BatchesCookWhole == SchedSpec => []CookingBatchWhole
<1>1. Sound /\ BookInv /\ FlowInv => CookingBatchWhole
  BY CookIsWhole DEF FlowInv, CookingBatchWhole, Sound
<1> QED
  BY <1>1, SchedInvariant, BookInvariant, FlowInvariant, PTL

(* Every step of the scheduler, of a sale, of a failure and of a kill is   *)
(* one that SausageFlow allows: sausages are loaded onto empty pans, move  *)
(* to empty pans when they are cooked, are taken when they are warm, and   *)
(* only the holes that its state shows are made use of.                    *)
THEOREM FlowIsRefined == SchedSpec => RefinesSausageFlow
<1>1. SchedInit => Sausages!FlowInit
  BY DEF SchedInit, NoSausages, Sausages!FlowInit, Undisturbed, TidyWork, Idle
<1>2. Sound /\ BookInv /\ FlowInv /\ [SchedNext]_schedVars
        => [Sausages!FlowNext]_(Sausages!flowVars)
  BY FlowKeeps
<1> QED
  BY <1>1, <1>2, SchedInvariant, BookInvariant, FlowInvariant, PTL
     DEF SchedSpec, RefinesSausageFlow, Sausages!FlowSpec
=============================================================================
