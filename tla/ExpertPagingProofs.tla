------------------------- MODULE ExpertPagingProofs -------------------------
(***************************************************************************)
(* Proofs about ExpertPaging: for any number of experts, slots, rows and   *)
(* experts per route, either pager and any faults, planning a route always *)
(* finds a slot and never evicts an expert of the route; and the routed    *)
(* kernels read the records of their experts, those a failed resolve left  *)
(* in the host map apart, if the staged pager's finish does not fail.      *)
(***************************************************************************)
EXTENDS ExpertPaging, FiniteSetTheorems, SequenceTheorems, TLAPS

AllRoutes == UNION {Routes(n) : n \in 1..TopK}

\* The two host maps are inverse to each other.
MapsAgree == \A e \in Experts, s \in Slots : expert_to_slot[e] = s <=> slot_to_expert[s] = e

\* RouteAlwaysFits is not inductive: the slots protected while a route is planned are
\* exactly the slots of its experts, which needs the two maps to agree.
PlanInv ==
  /\ expert_to_slot \in [Experts -> MaybeSlot]
  /\ slot_to_expert \in [Slots -> MaybeExpert]
  /\ groups \in Seq(AllRoutes)
  /\ pc \in {"resolve", "plan", "read", "publish"} => groups # <<>>
  /\ MapsAgree
  /\ pc = "plan" =>
       /\ todo \in Seq(Experts) /\ Range(todo) \subseteq Range(Route)
       /\ protected = RouteSlots

\* A route has between one and TopK experts of the layer.
LEMMA RouteShape ==
  ASSUME NEW r \in AllRoutes
  PROVE  \E n \in 1..TopK : r \in [1..n -> Experts]
BY DEF AllRoutes, Routes

\* The members of a route are experts.
LEMMA RouteTyped ==
  ASSUME NEW r \in AllRoutes
  PROVE  r \in Seq(Experts) /\ Range(r) \subseteq Experts
<1>1. PICK n \in 1..TopK : r \in [1..n -> Experts] BY RouteShape
<1>2. n \in Nat BY PagingAssumption
<1> QED BY <1>1, <1>2 DEF Range

\* Fewer slots are protected than there are slots while an expert has none: two slots
\* of the same expert would be one slot.
LEMMA SomeSlotLeft ==
  ASSUME NEW r \in AllRoutes, expert_to_slot \in [Experts -> MaybeSlot],
         NEW e \in Range(r), expert_to_slot[e] = None,
         Slots \subseteq {expert_to_slot[f] : f \in Range(r)}
  PROVE  FALSE
<1>1. PICK n \in 1..TopK : r \in [1..n -> Experts] BY RouteShape
<1>2. PICK k \in 1..n : r[k] = e BY <1>1 DEF Range
<1> DEFINE rest == (1..n) \ {k}
<1> DEFINE f == [s \in Slots |-> CHOOSE i \in rest : expert_to_slot[r[i]] = s]
<1>3. \A s \in Slots : f[s] \in rest /\ expert_to_slot[r[f[s]]] = s
  <2> SUFFICES ASSUME NEW s \in Slots PROVE \E i \in rest : expert_to_slot[r[i]] = s
    OBVIOUS
  <2>1. PICK g \in Range(r) : expert_to_slot[g] = s OBVIOUS
  <2>2. PICK i \in 1..n : r[i] = g BY <1>1 DEF Range
  <2>3. s # None BY PagingAssumption DEF Slots
  <2> QED BY <1>2, <2>1, <2>2, <2>3
<1>4. f \in [Slots -> rest] BY <1>3
<1>5. n \in Int /\ 1 <= n /\ n <= Capacity /\ Capacity \in Int BY PagingAssumption
<1>6. IsFiniteSet(Slots) /\ Cardinality(Slots) = Capacity
  BY <1>5, FS_Interval DEF Slots
<1>7. IsFiniteSet(1..n) /\ Cardinality(1..n) = n BY <1>5, FS_Interval
<1>8. IsFiniteSet(rest) /\ Cardinality(rest) = n - 1 BY <1>2, <1>7, FS_RemoveElement
<1>9. PICK x \in Slots, y \in Slots : x # y /\ f[x] = f[y]
  <2>1. Cardinality(rest) < Cardinality(Slots) BY <1>5, <1>6, <1>8
  <2> HIDE DEF f, rest
  <2> QED BY <1>4, <1>6, <1>8, <2>1, FS_PigeonHole
<1> QED BY <1>3, <1>9

\* The inductive invariant gives the slot that planning needs.
LEMMA InvFits == PlanInv => RouteAlwaysFits
<1> SUFFICES ASSUME PlanInv, pc = "plan", NEW i \in DOMAIN todo,
                    expert_to_slot[todo[i]] = None, FreeSlots \cup Evictable = {}
             PROVE  FALSE
  BY DEF RouteAlwaysFits
<1>1. Route \in AllRoutes BY DEF PlanInv, Route
<1>2. todo[i] \in Range(Route) BY DEF PlanInv, Range
<1>3. Slots \subseteq {expert_to_slot[f] : f \in Range(Route)}
  BY DEF PlanInv, Evictable, RouteSlots
<1> QED BY <1>1, <1>2, <1>3, SomeSlotLeft DEF PlanInv

\* What a miss does to the maps: they stay inverse and no expert of the route is lost.
LEMMA MissKeepsRoute ==
  ASSUME PlanInv, PlanMiss
  PROVE  /\ expert_to_slot' \in [Experts -> MaybeSlot]
         /\ slot_to_expert' \in [Slots -> MaybeExpert]
         /\ MapsAgree'
         /\ protected' = RouteSlots'
         /\ \A f \in Range(Route) : expert_to_slot[f] # None => expert_to_slot'[f] # None
<1> DEFINE e == Head(todo)
<1>1. e \in Range(Route) /\ Range(Route) \subseteq Experts
  <2>1. Route \in AllRoutes BY DEF PlanInv, PlanMiss, Route
  <2>2. e \in Range(todo) BY DEF PlanInv, PlanMiss, Range
  <2> QED BY <2>1, <2>2, RouteTyped DEF PlanInv, PlanMiss
<1>2. PICK s \in Victims :
        /\ expert_to_slot' = [f \in Experts |->
             IF f = e THEN s ELSE IF f = slot_to_expert[s] THEN None ELSE expert_to_slot[f]]
        /\ slot_to_expert' = [slot_to_expert EXCEPT ![s] = e]
        /\ protected' = protected \cup {s}
  BY DEF PlanMiss, Placed
<1>3. s \in Slots /\ (slot_to_expert[s] = None \/ s \notin protected)
  BY <1>2 DEF Victims, FreeSlots, Evictable
<1>4. expert_to_slot[e] = None /\ None \notin Slots /\ None \notin Experts
  BY PagingAssumption DEF PlanMiss, Slots, Experts
<1>5. e \in Experts BY <1>1
<1> HIDE DEF e
<1>6. \A f \in Range(Route) : f # slot_to_expert[s]
  BY <1>1, <1>3, <1>4 DEF PlanInv, PlanMiss, MapsAgree, RouteSlots
<1>7. expert_to_slot' \in [Experts -> MaybeSlot]
  BY <1>2, <1>3 DEF PlanInv, MaybeSlot
<1>8. slot_to_expert' \in [Slots -> MaybeExpert]
  BY <1>2, <1>5 DEF PlanInv, MaybeExpert
<1>9. MapsAgree'
  <2> SUFFICES ASSUME NEW f \in Experts, NEW t \in Slots
               PROVE  expert_to_slot'[f] = t <=> slot_to_expert'[t] = f
    BY DEF MapsAgree
  <2>1. slot_to_expert'[t] = IF t = s THEN e ELSE slot_to_expert[t] BY <1>2, <1>3 DEF PlanInv
  <2>2. expert_to_slot'[f] =
          IF f = e THEN s ELSE IF f = slot_to_expert[s] THEN None ELSE expert_to_slot[f]
    BY <1>2
  <2>3. expert_to_slot[f] = t <=> slot_to_expert[t] = f BY DEF PlanInv, MapsAgree
  <2>4. expert_to_slot[f] = s <=> slot_to_expert[s] = f BY <1>3 DEF PlanInv, MapsAgree
  <2>5. expert_to_slot[e] # t /\ slot_to_expert[t] # e BY <1>4, <1>5 DEF PlanInv, MapsAgree
  <2> QED BY <1>4, <2>1, <2>2, <2>3, <2>4, <2>5
<1>10. \A f \in Range(Route) : f # e => expert_to_slot'[f] = expert_to_slot[f]
  BY <1>1, <1>2, <1>6
<1>11. expert_to_slot'[e] = s BY <1>2, <1>5
<1>12. protected' = RouteSlots'
  <2>1. protected = {expert_to_slot[f] : f \in Range(Route)} \ {None}
    BY DEF PlanInv, PlanMiss, RouteSlots
  <2>2. RouteSlots' = {expert_to_slot'[f] : f \in Range(Route)} \ {None}
    BY DEF PlanMiss, RouteSlots, Route, Range
  <2>3. ASSUME NEW t \in protected' PROVE t \in RouteSlots'
    <3>1. CASE t = s BY <1>1, <1>3, <1>4, <1>11, <2>2, <3>1
    <3>2. CASE t \in protected
      <4>1. PICK f \in Range(Route) : expert_to_slot[f] = t /\ t # None BY <2>1, <3>2
      <4> QED BY <1>4, <1>10, <2>2, <4>1
    <3> QED BY <1>2, <2>3, <3>1, <3>2
  <2>4. ASSUME NEW t \in RouteSlots' PROVE t \in protected'
    <3>1. PICK f \in Range(Route) : expert_to_slot'[f] = t /\ t # None BY <2>2, <2>4
    <3> QED BY <1>2, <1>10, <1>11, <2>1, <3>1
  <2> QED BY <2>3, <2>4
<1>13. \A f \in Range(Route) : expert_to_slot[f] # None => expert_to_slot'[f] # None
  BY <1>4, <1>10
<1> QED BY <1>7, <1>8, <1>9, <1>12, <1>13

\* Forgetting the misses of a failed resolve removes both directions of each.
LEMMA DiscardKeepsMaps ==
  ASSUME PlanInv, DiscardMisses
  PROVE  /\ expert_to_slot' \in [Experts -> MaybeSlot]
         /\ slot_to_expert' \in [Slots -> MaybeExpert]
         /\ MapsAgree'
<1> DEFINE planned(e, s) == \E i \in DOMAIN misses : misses[i] = [expert |-> e, slot |-> s]
<1>1. \A e \in Experts : expert_to_slot'[e] =
        IF planned(e, expert_to_slot[e]) THEN None ELSE expert_to_slot[e]
  BY DEF DiscardMisses
<1>2. \A s \in Slots : slot_to_expert'[s] =
        IF planned(slot_to_expert[s], s) THEN None ELSE slot_to_expert[s]
  BY DEF DiscardMisses
<1>3. DOMAIN expert_to_slot' = Experts /\ DOMAIN slot_to_expert' = Slots BY DEF DiscardMisses
<1>4. None \notin Slots /\ None \notin Experts BY PagingAssumption DEF Slots, Experts
<1>5. expert_to_slot' \in [Experts -> MaybeSlot] BY DEF DiscardMisses, PlanInv, MaybeSlot
<1>6. slot_to_expert' \in [Slots -> MaybeExpert] BY DEF DiscardMisses, PlanInv, MaybeExpert
<1> HIDE DEF planned
<1>7. MapsAgree' BY <1>1, <1>2, <1>4 DEF PlanInv, MapsAgree
<1> QED BY <1>5, <1>6, <1>7

-----------------------------------------------------------------------------
\* No route is planned at first.
LEMMA PlanInit == PagingInit => PlanInv
<1> SUFFICES ASSUME PagingInit PROVE PlanInv OBVIOUS
<1>1. None \notin Slots /\ None \notin Experts BY PagingAssumption DEF Slots, Experts
<1>2. MapsAgree BY <1>1 DEF PagingInit, MapsAgree
<1> QED BY <1>2 DEF PagingInit, PlanInv, MaybeSlot, MaybeExpert

\* Steps that touch neither the maps nor the plan: the device, and the host while it
\* reads, releases or publishes.
LEMMA PlanUntouched ==
  ASSUME PlanInv, UNCHANGED <<expert_to_slot, slot_to_expert>>,
         groups' = groups \/ (groups # <<>> /\ groups' = Tail(groups)) \/ groups' = <<>>,
         pc' \in {"resolve", "read", "publish"} => groups' # <<>>,
         pc' # "plan"
  PROVE  PlanInv'
<1>1. groups' \in Seq(AllRoutes)
  <2>1. groups \in Seq(AllRoutes) BY DEF PlanInv
  <2>2. groups # <<>> => Tail(groups) \in Seq(AllRoutes) BY <2>1
  <2>3. <<>> \in Seq(AllRoutes) OBVIOUS
  <2>4. CASE groups' = groups BY <2>1, <2>4
  <2>5. CASE groups # <<>> /\ groups' = Tail(groups) BY <2>2, <2>5
  <2>6. CASE groups' = <<>> BY <2>3, <2>6
  <2> QED BY <2>4, <2>5, <2>6
<1>2. MapsAgree' BY DEF PlanInv, MapsAgree
<1> QED BY <1>1, <1>2 DEF PlanInv

\* Steps that leave the whole plan alone.
LEMMA PlanFrame ==
  ASSUME PlanInv, UNCHANGED <<expert_to_slot, slot_to_expert, groups, pc, todo, protected>>
  PROVE  PlanInv'
<1>1. MapsAgree' BY DEF PlanInv, MapsAgree
<1>2. Range(Route)' = Range(Route) /\ RouteSlots' = RouteSlots BY DEF Route, RouteSlots, Range
<1>3. Range(todo)' = Range(todo) BY DEF Range
<1> QED BY <1>1, <1>2, <1>3 DEF PlanInv

\* Every step preserves the invariant, and a planning step keeps the route's experts.
LEMMA PlanStep ==
  ASSUME PlanInv, [PagingNext]_pagingVars
  PROVE  /\ PlanInv'
         /\ pc = "plan" /\ pc' = "plan" =>
              \A e \in Range(Route) : expert_to_slot[e] # None => expert_to_slot'[e] # None
<1>1. CASE UNCHANGED pagingVars
  <2>1. UNCHANGED <<expert_to_slot, slot_to_expert, groups, pc, todo, protected>>
    BY <1>1 DEF pagingVars, host, cache
  <2> QED BY <2>1, PlanFrame
<1>2. CASE Device
  <2>1. UNCHANGED <<expert_to_slot, slot_to_expert, groups, pc, todo, protected>>
    BY <1>2 DEF Device, InferRecord, InferWait, InferRemap, InferRun, UploadSync, UploadRecord,
                UploadMap, host, cache
  <2> QED BY <2>1, PlanFrame
<1>3. CASE StartPass
  <2>1. groups' \in Seq(AllRoutes) /\ groups' # <<>>
    <3>1. CASE groups' \in SingleRow
      <4>1. PICK r \in Routes(TopK) : groups' = <<r>> BY <3>1 DEF SingleRow
      <4>2. r \in AllRoutes BY PagingAssumption DEF AllRoutes
      <4> QED BY <4>1, <4>2
    <3>2. CASE groups' \in ManyRows
      <4>1. PICK n \in 2..N : groups' \in [1..n -> Groups] BY <3>2 DEF ManyRows
      <4>2. Groups \subseteq AllRoutes BY DEF Groups, AllRoutes
      <4>3. n \in Nat /\ n # 0 BY PagingAssumption
      <4> QED BY <4>1, <4>2, <4>3
    <3>3. CASE groups' \in RowByRow
      <4>1. PICK n \in 2..MaxRows : groups' \in [1..n -> Routes(TopK)] BY <3>3 DEF RowByRow
      <4>2. Routes(TopK) \subseteq AllRoutes BY PagingAssumption DEF AllRoutes
      <4>3. n \in Nat /\ n # 0 BY PagingAssumption
      <4> QED BY <4>1, <4>2, <4>3
    <3> QED BY <1>3, <3>1, <3>2, <3>3 DEF StartPass
  <2>2. UNCHANGED <<expert_to_slot, slot_to_expert>> /\ pc' = "resolve"
    BY <1>3 DEF StartPass, cache
  <2> QED BY <2>1, <2>2 DEF PlanInv, MapsAgree
<1>4. CASE BeginResolve
  <2>1. /\ UNCHANGED <<expert_to_slot, slot_to_expert, groups>> /\ pc = "resolve" /\ pc' = "plan"
        /\ todo' = Route
        /\ protected' = RouteSlots
    BY <1>4 DEF BeginResolve, cache, RouteSlots
  <2>2. Route \in Seq(Experts) BY <2>1, RouteTyped DEF PlanInv, Route
  <2>3. Route' = Route /\ RouteSlots' = RouteSlots BY <2>1 DEF Route, RouteSlots, Range
  <2>4. MapsAgree' BY <2>1 DEF PlanInv, MapsAgree
  <2> QED BY <2>1, <2>2, <2>3, <2>4 DEF PlanInv
<1>5. CASE PlanHit
  <2>1. /\ UNCHANGED <<expert_to_slot, slot_to_expert, groups, pc>> /\ pc = "plan" /\ todo # <<>>
        /\ todo' = Tail(todo)
        /\ protected' = protected \cup {expert_to_slot[Head(todo)]}
        /\ expert_to_slot[Head(todo)] # None
    BY <1>5 DEF PlanHit, Placed
  <2>2. /\ Head(todo) \in Range(todo) /\ todo' \in Seq(Experts)
        /\ Range(todo') \subseteq Range(todo)
    BY <2>1 DEF PlanInv, Range
  <2>3. Head(todo) \in Range(Route) BY <2>1, <2>2 DEF PlanInv
  <2>4. protected' = protected BY <2>1, <2>3 DEF PlanInv, RouteSlots
  <2>5. Range(Route)' = Range(Route) /\ RouteSlots' = RouteSlots
    BY <2>1 DEF Route, RouteSlots, Range
  <2>6. MapsAgree' BY <2>1 DEF PlanInv, MapsAgree
  <2> QED BY <2>1, <2>2, <2>4, <2>5, <2>6 DEF PlanInv
<1>6. CASE PlanMiss
  <2>1. UNCHANGED <<groups, pc>> /\ pc = "plan" /\ todo # <<>> /\ todo' = Tail(todo)
    BY <1>6 DEF PlanMiss, Placed
  <2>2. todo' \in Seq(Experts) /\ Range(todo') \subseteq Range(todo)
    BY <2>1 DEF PlanInv, Range
  <2>3. Range(Route)' = Range(Route) BY <2>1 DEF Route, Range
  <2> QED BY <1>6, <2>1, <2>2, <2>3, MissKeepsRoute DEF PlanInv
<1>7. CASE AllHits \/ Publish
  <2>1. /\ UNCHANGED <<expert_to_slot, slot_to_expert>> /\ groups' = Tail(groups)
        /\ pc \in {"plan", "publish"}
        /\ pc' = IF Len(groups) = 1 THEN "idle" ELSE "resolve"
    BY <1>7 DEF AllHits, Publish, NextGroup, cache
  <2>2. groups # <<>> /\ groups \in Seq(AllRoutes) BY <2>1 DEF PlanInv
  <2>3. ASSUME Len(groups) # 1 PROVE Tail(groups) # <<>>
    <3>1. Len(groups) \in Nat /\ Len(groups) # 0 BY <2>2
    <3>2. Len(Tail(groups)) = Len(groups) - 1 BY <2>2
    <3>3. \A n \in Nat : n # 0 /\ n # 1 => n - 1 # 0 OBVIOUS
    <3>4. Len(Tail(groups)) # 0 BY <2>3, <3>1, <3>2, <3>3
    <3>5. Len(<<>>) = 0 OBVIOUS
    <3> QED BY <3>4, <3>5
  <2> QED BY <2>1, <2>2, <2>3, PlanUntouched
<1>8. CASE ReleaseSlots \/ ReadRecords
  <2>1. /\ UNCHANGED <<expert_to_slot, slot_to_expert, groups>>
        /\ pc \in {"plan", "read"} /\ pc' \in {"read", "publish"}
    BY <1>8 DEF ReleaseSlots, ReadRecords, cache
  <2>2. groups # <<>> BY <2>1 DEF PlanInv
  <2> QED BY <2>1, <2>2, PlanUntouched
<1>9. CASE ReleaseFails \/ ReadFails \/ PublishFails
  <2>1. /\ DiscardMisses \/ UNCHANGED <<expert_to_slot, slot_to_expert>>
        /\ pc' = "idle" /\ groups' = <<>>
    BY <1>9 DEF ReleaseFails, ReadFails, PublishFails, FailResolve
  <2>2. CASE DiscardMisses BY <2>1, <2>2, DiscardKeepsMaps DEF PlanInv
  <2>3. CASE UNCHANGED <<expert_to_slot, slot_to_expert>> BY <2>1, <2>3, PlanUntouched
  <2> QED BY <2>1, <2>2, <2>3
<1> QED BY <1>1, <1>2, <1>3, <1>4, <1>5, <1>6, <1>7, <1>8, <1>9 DEF PagingNext, Host

\* plan_experts never fails with "no evictable slot for the current route".
THEOREM PlanAlwaysFits == PagingSpec => []RouteAlwaysFits
<1>1. PlanInv /\ [PagingNext]_pagingVars => PlanInv' BY PlanStep
<1> QED BY PlanInit, InvFits, <1>1, PTL DEF PagingSpec

\* Planning a route never evicts a resident expert of the same route.
THEOREM PlanKeepsRoute == PagingSpec => RouteNotReloaded
<1>1. PlanInv /\ [PagingNext]_pagingVars => PlanInv' BY PlanStep
<1>2. PlanInv /\ [PagingNext]_pagingVars =>
        [pc = "plan" /\ pc' = "plan" =>
           \A e \in Range(Route) : expert_to_slot[e] # None => expert_to_slot'[e] # None]_pagingVars
  BY PlanStep
<1> QED BY PlanInit, <1>1, <1>2, PTL DEF PagingSpec, RouteNotReloaded

-----------------------------------------------------------------------------
(***************************************************************************)
(* What the routed kernels read.                                           *)
(***************************************************************************)
Sync == [op : {"record", "wait"}, token : Nat]
InferOp == Sync \cup [op : {"remap", "run"}, route : AllRoutes]
UploadOp == Sync \cup [op : {"copy"}, buffer : 1..TopK, slot : Slots] \cup {MapCopy}
Miss == [expert : Experts, slot : Slots]

Kernel(op) == op.op \in {"remap", "run"}
NoKernels == \A j \in DOMAIN infer : ~Kernel(infer[j])
CopiesTo(op, s) == op.op = "copy" /\ op.slot = s
Untargeted(s) == \A q \in DOMAIN upload : ~CopiesTo(upload[q], s)

StreamTypes ==
  /\ pager \in Pagers
  /\ pc \in {"idle", "resolve", "plan", "read", "publish"}
  /\ inflight \in BOOLEAN
  /\ misses \in Seq(Miss)
  /\ map_staging \in [Experts -> MaybeSlot]
  /\ staging \in [1..TopK -> MaybeExpert]
  /\ device_map \in [Experts -> MaybeSlot]
  /\ slot_data \in [Slots -> MaybeExpert]
  /\ infer \in Seq(InferOp)
  /\ upload \in Seq(UploadOp)

\* The misses of a plan: each has the slot of its expert, no two have the same slot,
\* and with them every expert of the route has one.
Misses ==
  /\ pc \in {"idle", "resolve"} => misses = <<>>
  /\ pc \notin {"idle", "resolve"} => ~inflight
  /\ \A i \in DOMAIN misses : expert_to_slot[misses[i].expert] = misses[i].slot
  /\ \A i, j \in DOMAIN misses : misses[i].slot = misses[j].slot => i = j
  /\ pc = "plan" =>
       /\ Len(misses) + Len(todo) <= TopK
       /\ \A i \in DOMAIN misses : misses[i].expert \in Range(Route)
       /\ \A e \in Range(Route) : expert_to_slot[e] # None \/ e \in Range(todo)
  /\ pc \in {"read", "publish"} =>
       Len(misses) <= TopK /\ \A e \in Range(Route) : expert_to_slot[e] # None

\* Between the reads and the uploads the records are where the pager wants them.
Records ==
  /\ pager = "host" => \A q \in DOMAIN upload : upload[q].op # "copy"
  /\ pc = "publish" /\ pager = "host" =>
       \A i \in DOMAIN misses : slot_data[misses[i].slot] = misses[i].expert
  /\ pc = "publish" /\ pager = "staged" =>
       \A i \in DOMAIN misses : staging[i] = misses[i].expert

\* The device has, or will have once the uploads in flight are executed, the record of
\* the expert in the slot that the pinned map names.
Loaded(e) ==
  /\ map_staging[e] \in Slots
  /\ \/ device_map[e] = map_staging[e]
     \/ inflight /\ \E q \in DOMAIN upload : upload[q] = MapCopy
  /\ \/ slot_data[map_staging[e]] = e /\ Untargeted(map_staging[e])
     \/ /\ inflight
        /\ \E q \in DOMAIN upload :
             /\ CopiesTo(upload[q], map_staging[e]) /\ staging[upload[q].buffer] = e
             /\ \A k \in DOMAIN upload : k > q => ~CopiesTo(upload[k], map_staging[e])

\* Every resident expert is loaded, but those just planned and those left unfilled.
Resident ==
  \A e \in Experts : expert_to_slot[e] # None /\ e \notin unfilled \cup Planned =>
    Loaded(e) /\ map_staging[e] = expert_to_slot[e]

\* The inference stream waits for the last of the uploads in flight.
AwaitedAt(k) == infer[k].op = "wait" /\ upload[Len(upload)] = Record(infer[k].token)
Awaited == inflight /\ upload # <<>> => \E k \in DOMAIN infer : AwaitedAt(k)

PagingInv == PlanInv /\ StreamTypes /\ Misses /\ Records /\ Resident /\ Awaited

(***************************************************************************)
(* The queued kernels.  The operations of the upload stream that would     *)
(* disturb the kernel at position j wait for an event recorded behind it   *)
(* (slots_released), unless the kernel itself waits for them.              *)
(***************************************************************************)
Gate(j, q) ==
  upload[q].op = "wait" /\ \E k \in DOMAIN infer : k > j /\ infer[k] = Record(upload[q].token)

Gated(j) == \E q \in DOMAIN upload : Gate(j, q)

\* The operation changes where the device has the expert, or the record there.
Disturbs(op, e) ==
  CopiesTo(op, device_map[e]) \/ (op = MapCopy /\ map_staging[e] # device_map[e])

Settled(e, j) ==
  /\ device_map[e] \in Slots /\ slot_data[device_map[e]] = e
  /\ \A q \in DOMAIN upload : Disturbs(upload[q], e) => \E p \in 1..(q - 1) : Gate(j, p)

Late(j) == inflight /\ upload # <<>> /\ \E k \in 1..(j - 1) : AwaitedAt(k)

\* The kernel at position j reads expert e.
Reads(j, e) ==
  Kernel(infer[j]) /\ \E i \in DOMAIN infer[j].route : infer[j].route[i] = e

\* Every expert of a queued kernel is in place when the kernel runs, or left unfilled.
KernelsLoaded ==
  \A j \in DOMAIN infer, e \in Experts : Reads(j, e) =>
    e \in unfilled \/ Settled(e, j) \/ (Late(j) /\ Loaded(e))

\* Between two resolves no map copy is left that could publish a later map too early.
NoStaleMap ==
  pager = "staged" /\ ~inflight => \A q \in DOMAIN upload : upload[q] # MapCopy

\* The slots of the misses are released by a record behind all kernels, which the upload
\* stream or the host waits for.
Released ==
  /\ infer # <<>> /\ infer[Len(infer)].op = "record"
  /\ pager = "staged" =>
       upload # <<>> /\ upload[Len(upload)] = Wait(infer[Len(infer)].token)

Drained ==
  /\ pc \in {"read", "publish"} => NoKernels \/ Released
  /\ pc = "publish" /\ pager = "host" => NoKernels

\* An expert of a queued kernel is evicted only by a resolve whose uploads the next one
\* awaits, so it is not planned again while the kernel is queued.
Kept ==
  \A j \in DOMAIN infer, e \in Experts : Reads(j, e) =>
    /\ pc = "resolve" => expert_to_slot[e] # None \/ (inflight /\ Gated(j))
    /\ pc = "plan" /\ (misses = <<>> \/ e \in Range(Route)) => expert_to_slot[e] # None
    /\ pc \in {"plan", "read", "publish"} => e \notin Planned

\* A kernel runs on the indices of its own remap.
Remapped ==
  /\ \A j \in DOMAIN infer : j > 1 /\ infer[j].op = "run" => infer[j - 1] = Remap(infer[j].route)
  /\ infer # <<>> /\ infer[1].op = "run" =>
       \A i \in DOMAIN infer[1].route :
         infer[1].route[i] \in unfilled \/ slot_indices[i] = device_map[infer[1].route[i]]

\* It needs the staged pager's finish not to fail: a map copy it leaves queued would be
\* executed with a later map in the pinned buffer.
KernelInv == KernelsLoaded /\ NoStaleMap /\ Drained /\ Kept /\ Remapped

\* None is neither a slot nor an expert.
LEMMA NoneApart == None \notin Slots /\ None \notin Experts
BY PagingAssumption DEF Slots, Experts

\* What is behind the head of a stream.
LEMMA Popped ==
  ASSUME NEW S, NEW q \in Seq(S), q # <<>>
  PROVE  /\ Head(q) = q[1] /\ 1 \in DOMAIN q /\ Len(q) \in Nat \ {0} /\ DOMAIN q = 1..Len(q)
         /\ Tail(q) \in Seq(S) /\ Len(Tail(q)) = Len(q) - 1
         /\ DOMAIN Tail(q) = 1..(Len(q) - 1)
         /\ \A k \in 1..(Len(q) - 1) : Tail(q)[k] = q[k + 1]
OBVIOUS

\* What is in a stream that gets more work.
LEMMA Queued ==
  ASSUME NEW S, NEW p \in Seq(S), NEW q \in Seq(S)
  PROVE  /\ p \o q \in Seq(S) /\ Len(p \o q) = Len(p) + Len(q)
         /\ Len(p) \in Nat /\ Len(q) \in Nat
         /\ DOMAIN (p \o q) = 1..(Len(p) + Len(q))
         /\ \A k \in 1..Len(p) : (p \o q)[k] = p[k]
         /\ \A k \in 1..Len(q) : (p \o q)[Len(p) + k] = q[k]
         /\ \A k \in 1..(Len(p) + Len(q)) : k > Len(p) => (p \o q)[k] = q[k - Len(p)]
OBVIOUS

\* One of the 0..n numbers is not the token of any of the n queued operations.
LEMMA TokenFits ==
  ASSUME NEW S, infer \in Seq(S), upload \in Seq(S)
  PROVE  Token \in Nat
<1> DEFINE n == Len(infer) + Len(upload)
           all == infer \o upload
           at(t, i) == all[i] = Record(t) \/ all[i] = Wait(t)
<1>1. n \in Nat /\ DOMAIN all = 1..n /\ Len(infer) \in Nat /\ Len(upload) \in Nat
  BY Queued
<1>2. \E t \in 0..n : \A i \in 1..n : ~at(t, i)
  <2> SUFFICES ASSUME \A t \in 0..n : \E i \in 1..n : at(t, i) PROVE FALSE
    OBVIOUS
  <2> DEFINE f == [t \in 0..n |-> CHOOSE i \in 1..n : at(t, i)]
  <2>1. \A t \in 0..n : f[t] \in 1..n /\ at(t, f[t])
    OBVIOUS
  <2>2. f \in [0..n -> 1..n]
    BY <2>1
  <2>3. IsFiniteSet(0..n) /\ Cardinality(0..n) = n + 1
    BY <1>1, FS_Interval
  <2>4. IsFiniteSet(1..n) /\ Cardinality(1..n) = n
    BY <1>1, FS_Interval
  <2>5. Cardinality(1..n) < Cardinality(0..n)
    BY <1>1, <2>3, <2>4
  <2>6. PICK x \in 0..n, y \in 0..n : x # y /\ f[x] = f[y]
    <3> DEFINE A == 0..n
               B == 1..n
    <3>1. IsFiniteSet(A) /\ IsFiniteSet(B) /\ Cardinality(B) < Cardinality(A) /\ f \in [A -> B]
      BY <2>2, <2>3, <2>4, <2>5
    <3> HIDE DEF f, A, B, at, all, n
    <3>2. \E x, y \in A : x # y /\ f[x] = f[y]
      BY <3>1, FS_PigeonHole
    <3> QED BY <3>2 DEF A
  <2>7. at(x, f[x]) /\ at(y, f[x])
    BY <2>1, <2>6
  <2>8. \A t, i : at(t, i) => all[i].token = t
    <3>1. \A t : Record(t).token = t /\ Wait(t).token = t
      BY DEF Record, Wait
    <3> QED BY <3>1
  <2> HIDE DEF at, f
  <2>9. all[f[x]].token = x /\ all[f[x]].token = y
    BY <2>7, <2>8
  <2> QED
    BY <2>6, <2>9
<1>3. PICK t \in 0..n : \A i \in 1..n : ~at(t, i)
  BY <1>2
<1>4. \A i \in DOMAIN infer : infer[i] # Record(t) /\ infer[i] # Wait(t)
  <2>1. \A i \in 1..Len(infer) : all[i] = infer[i] /\ i \in 1..n
    BY <1>1, Queued
  <2> QED BY <1>3, <2>1
<1>5. \A i \in DOMAIN upload : upload[i] # Record(t) /\ upload[i] # Wait(t)
  <2>1. \A i \in 1..Len(upload) : all[Len(infer) + i] = upload[i] /\ Len(infer) + i \in 1..n
    BY <1>1, Queued
  <2> QED BY <1>3, <2>1
<1>6. \E u \in 0..n : \A q \in {infer, upload} : \A i \in DOMAIN q : q[i] # Record(u) /\ q[i] # Wait(u)
  BY <1>4, <1>5
<1>7. Token \in 0..n
  BY <1>6 DEF Token
<1> QED BY <1>1, <1>7

\* Nothing is planned, queued or loaded at first.
LEMMA PagingStarts == PagingInit => PagingInv /\ KernelInv
<1> SUFFICES ASSUME PagingInit PROVE PagingInv /\ KernelInv OBVIOUS
<1>1. PlanInv BY PlanInit
<1>2. StreamTypes
  <2>1. pager \in Pagers /\ pc = "idle" /\ inflight = FALSE /\ misses \in Seq(Miss)
        /\ infer \in Seq(InferOp) /\ upload \in Seq(UploadOp)
    BY DEF PagingInit
  <2>2. /\ map_staging \in [Experts -> MaybeSlot] /\ staging \in [1..TopK -> MaybeExpert]
        /\ device_map \in [Experts -> MaybeSlot] /\ slot_data \in [Slots -> MaybeExpert]
    BY DEF PagingInit, MaybeSlot, MaybeExpert
  <2> QED BY <2>1, <2>2 DEF StreamTypes
<1>3. Misses /\ Records BY PagingAssumption DEF PagingInit, Misses, Records
<1>4. Resident /\ Awaited BY DEF PagingInit, Resident, Awaited
<1>5. KernelsLoaded /\ NoStaleMap /\ Drained /\ Kept /\ Remapped
  BY DEF PagingInit, KernelsLoaded, NoStaleMap, Drained, Kept, Remapped
<1> QED BY <1>1, <1>2, <1>3, <1>4, <1>5 DEF PagingInv, KernelInv

-----------------------------------------------------------------------------
(***************************************************************************)
(* The device.                                                             *)
(***************************************************************************)

\* The inference stream moves on.
LEMMA InferPops ==
  ASSUME PagingInv, infer # <<>>, infer' = Tail(infer)
  PROVE  /\ Head(infer) = infer[1] /\ Len(infer) \in Nat \ {0} /\ DOMAIN infer = 1..Len(infer)
         /\ infer' \in Seq(InferOp) /\ Len(infer') = Len(infer) - 1
         /\ DOMAIN infer' = 1..(Len(infer) - 1)
         /\ \A k \in DOMAIN infer' : infer'[k] = infer[k + 1] /\ k + 1 \in DOMAIN infer
<1>1. infer \in Seq(InferOp) BY DEF PagingInv, StreamTypes
<1> QED BY <1>1, Popped

\* What the operations of the inference stream have in common.
Inferred == InferRecord \/ InferWait \/ InferRemap \/ InferRun

LEMMA InferSteps ==
  ASSUME PagingInv, Inferred
  PROVE  /\ infer # <<>> /\ infer' = Tail(infer)
         /\ UNCHANGED <<pager, pc, groups, todo, protected, misses, expert_to_slot, slot_to_expert,
                        inflight, unfilled, map_staging, staging, upload, device_map, slot_data>>
         /\ Head(infer).op = "wait" => ~Pending(upload, Head(infer).token)
BY DEF Inferred, InferRecord, InferWait, InferRemap, InferRun, device, host, cache, uploads, pinned

\* A wait that passes is not the one the uploads in flight are awaited with.
LEMMA AwaitedBehind ==
  ASSUME PagingInv, Inferred, upload # <<>>, NEW k \in DOMAIN infer, AwaitedAt(k)
  PROVE  k - 1 \in DOMAIN infer' /\ infer'[k - 1] = infer[k] /\ AwaitedAt(k - 1)'
<1>1. upload \in Seq(UploadOp) BY DEF PagingInv, StreamTypes
<1>2. Len(upload) \in DOMAIN upload BY <1>1, Popped
<1>3. k # 1 BY <1>2, InferSteps, InferPops DEF AwaitedAt, Pending
<1>4. k - 1 \in DOMAIN infer' /\ infer'[k - 1] = infer[k] BY <1>3, InferSteps, InferPops
<1> QED BY <1>4, InferSteps DEF AwaitedAt

LEMMA InferHolds ==
  ASSUME PagingInv, Inferred, PlanInv'
  PROVE  PagingInv'
<1>1. StreamTypes' BY InferSteps, InferPops DEF PagingInv, StreamTypes
<1>2. Misses' BY InferSteps DEF PagingInv, Misses, Route, Range
<1>3. Records' BY InferSteps DEF PagingInv, Records
<1>4. \A e : Loaded(e)' <=> Loaded(e) BY InferSteps DEF Loaded, Untargeted
<1>5. Resident' BY <1>4, InferSteps DEF PagingInv, Resident, Planned, Missing
<1>6. Awaited' BY InferSteps, AwaitedBehind DEF PagingInv, Awaited
<1> QED BY <1>1, <1>2, <1>3, <1>5, <1>6 DEF PagingInv

\* An operation of the upload stream takes effect.
Uploaded == UploadSync \/ UploadRecord \/ UploadMap

\* It brings what is loaded closer to the device.
LEMMA LoadedPops ==
  ASSUME PagingInv, Uploaded, NEW e \in Experts, Loaded(e)
  PROVE  Loaded(e)'
<1> DEFINE s == map_staging[e]
<1>1. /\ upload # <<>> /\ upload' = Tail(upload)
      /\ UNCHANGED <<inflight, map_staging, staging>>
  BY DEF Uploaded, UploadSync, UploadRecord, UploadMap, uploads, pinned
<1>2. upload \in Seq(UploadOp) /\ map_staging \in [Experts -> MaybeSlot]
      /\ slot_data \in [Slots -> MaybeExpert]
  BY DEF PagingInv, StreamTypes
<1>3. /\ Head(upload) = upload[1] /\ 1 \in DOMAIN upload /\ Len(upload) \in Nat \ {0}
      /\ DOMAIN upload = 1..Len(upload) /\ DOMAIN upload' = 1..(Len(upload) - 1)
      /\ \A k \in 1..(Len(upload) - 1) : upload'[k] = upload[k + 1]
  BY <1>1, <1>2, Popped
<1>4. s \in Slots BY DEF Loaded
<1>5. /\ Head(upload).op = "map" => device_map' = map_staging
      /\ Head(upload).op # "map" => device_map' = device_map
  BY DEF Uploaded, UploadSync, UploadRecord, UploadMap, device
<1>6. /\ CopiesTo(Head(upload), s) => slot_data'[s] = staging[Head(upload).buffer]
      /\ ~CopiesTo(Head(upload), s) => slot_data'[s] = slot_data[s]
  BY <1>2, <1>4 DEF Uploaded, UploadSync, UploadRecord, UploadMap, CopiesTo, device
<1>7. \/ device_map'[e] = s
      \/ inflight /\ \E q \in DOMAIN upload' : upload'[q] = MapCopy
  <2>1. CASE device_map[e] = s BY <1>5, <2>1
  <2>2. CASE inflight /\ \E q \in DOMAIN upload : upload[q] = MapCopy
    <3>1. PICK q \in DOMAIN upload : upload[q] = MapCopy BY <2>2
    <3>2. CASE q = 1 BY <1>3, <1>5, <3>1, <3>2 DEF MapCopy
    <3>3. CASE q # 1
      <4>1. q - 1 \in DOMAIN upload' /\ upload'[q - 1] = MapCopy BY <1>3, <3>1, <3>3
      <4> QED BY <2>2, <4>1
    <3> QED BY <3>2, <3>3
  <2> QED BY <2>1, <2>2 DEF Loaded
<1>8. \/ slot_data'[s] = e /\ \A q \in DOMAIN upload' : ~CopiesTo(upload'[q], s)
      \/ /\ inflight
         /\ \E q \in DOMAIN upload' :
              /\ CopiesTo(upload'[q], s) /\ staging[upload'[q].buffer] = e
              /\ \A k \in DOMAIN upload' : k > q => ~CopiesTo(upload'[k], s)
  <2>1. CASE slot_data[s] = e /\ Untargeted(s)
    <3>1. \A q \in DOMAIN upload' : ~CopiesTo(upload'[q], s) BY <1>3, <2>1 DEF Untargeted
    <3>2. ~CopiesTo(Head(upload), s) BY <1>3, <2>1 DEF Untargeted
    <3> QED BY <1>6, <2>1, <3>1, <3>2
  <2>2. ASSUME inflight, NEW q \in DOMAIN upload, CopiesTo(upload[q], s),
               staging[upload[q].buffer] = e,
               \A k \in DOMAIN upload : k > q => ~CopiesTo(upload[k], s)
        PROVE  \/ slot_data'[s] = e /\ \A k \in DOMAIN upload' : ~CopiesTo(upload'[k], s)
               \/ \E p \in DOMAIN upload' :
                    /\ CopiesTo(upload'[p], s) /\ staging[upload'[p].buffer] = e
                    /\ \A k \in DOMAIN upload' : k > p => ~CopiesTo(upload'[k], s)
    <3>1. CASE q = 1
      <4>1. slot_data'[s] = e BY <1>3, <1>6, <2>2, <3>1
      <4>2. \A k \in DOMAIN upload' : k + 1 \in DOMAIN upload /\ k + 1 > q /\ upload'[k] = upload[k + 1]
        BY <1>3, <3>1
      <4> QED BY <2>2, <4>1, <4>2
    <3>2. CASE q # 1
      <4>1. q - 1 \in DOMAIN upload' /\ upload'[q - 1] = upload[q] BY <1>3, <3>2
      <4>2. \A k \in DOMAIN upload' :
              k > q - 1 => k + 1 \in DOMAIN upload /\ k + 1 > q /\ upload'[k] = upload[k + 1]
        BY <1>3
      <4>3. \A k \in DOMAIN upload' : k > q - 1 => ~CopiesTo(upload'[k], s) BY <2>2, <4>2
      <4> QED BY <2>2, <4>1, <4>3
    <3> QED BY <3>1, <3>2
  <2> QED BY <2>1, <2>2 DEF Loaded
<1>9. map_staging'[e] = s BY <1>1
<1> HIDE DEF s
<1> QED BY <1>1, <1>4, <1>7, <1>8, <1>9 DEF Loaded, Untargeted

\* The upload stream.
LEMMA UploadSteps ==
  ASSUME PagingInv, Uploaded
  PROVE  /\ upload # <<>> /\ upload' = Tail(upload)
         /\ UNCHANGED <<pager, pc, groups, todo, protected, misses, expert_to_slot, slot_to_expert,
                        inflight, unfilled, map_staging, staging, infer, slot_indices>>
         /\ Head(upload) = upload[1] /\ 1 \in DOMAIN upload /\ Len(upload) \in Nat \ {0}
         /\ DOMAIN upload = 1..Len(upload) /\ DOMAIN upload' = 1..(Len(upload) - 1)
         /\ upload' \in Seq(UploadOp) /\ Len(upload') = Len(upload) - 1
         /\ \A k \in 1..(Len(upload) - 1) : upload'[k] = upload[k + 1]
<1>1. /\ upload # <<>> /\ upload' = Tail(upload)
      /\ UNCHANGED <<pager, pc, groups, todo, protected, misses, expert_to_slot, slot_to_expert,
                     inflight, unfilled, map_staging, staging, infer, slot_indices>>
  BY DEF Uploaded, UploadSync, UploadRecord, UploadMap, host, cache, uploads, pinned, device
<1>2. upload \in Seq(UploadOp) BY DEF PagingInv, StreamTypes
<1> QED BY <1>1, <1>2, Popped

LEMMA UploadHolds ==
  ASSUME PagingInv, Uploaded, PlanInv'
  PROVE  PagingInv'
<1>1. /\ upload # <<>> /\ upload' = Tail(upload)
      /\ UNCHANGED <<pager, pc, groups, todo, protected, misses, expert_to_slot, slot_to_expert,
                     inflight, unfilled, map_staging, staging, infer, slot_indices>>
      /\ Head(upload) = upload[1] /\ 1 \in DOMAIN upload /\ Len(upload) \in Nat \ {0}
      /\ DOMAIN upload = 1..Len(upload) /\ DOMAIN upload' = 1..(Len(upload) - 1)
      /\ upload' \in Seq(UploadOp) /\ Len(upload') = Len(upload) - 1
      /\ \A k \in 1..(Len(upload) - 1) : upload'[k] = upload[k + 1]
  BY UploadSteps
<1>2. slot_data' = slot_data \/ (Head(upload).op = "copy" /\ slot_data' \in [Slots -> MaybeExpert])
  <2>1. CASE UploadRecord
    <3>1. upload \in Seq(UploadOp) BY DEF PagingInv, StreamTypes
    <3>2. Head(upload) \in UploadOp /\ Head(upload).op = "copy" BY <1>1, <2>1, <3>1 DEF UploadRecord
    <3>3. Head(upload).buffer \in 1..TopK BY <3>2 DEF UploadOp, Sync, MapCopy
    <3>4. staging[Head(upload).buffer] \in MaybeExpert BY <3>3 DEF PagingInv, StreamTypes
    <3> QED BY <2>1, <3>2, <3>4 DEF UploadRecord, PagingInv, StreamTypes
  <2> QED BY <2>1 DEF Uploaded, UploadSync, UploadMap, device
<1>3. device_map' \in [Experts -> MaybeSlot] /\ slot_data' \in [Slots -> MaybeExpert]
  BY <1>2 DEF Uploaded, UploadSync, UploadRecord, UploadMap, device, PagingInv, StreamTypes
<1>4. StreamTypes' BY <1>1, <1>3 DEF PagingInv, StreamTypes
<1>5. Misses' BY <1>1 DEF PagingInv, Misses, Route, Range
<1>6. Records'
  <2>1. pager = "host" => \A q \in DOMAIN upload' : upload'[q].op # "copy"
    BY <1>1 DEF PagingInv, Records
  <2>2. pager = "host" => slot_data' = slot_data BY <1>1, <1>2 DEF PagingInv, Records
  <2> QED BY <1>1, <2>1, <2>2 DEF PagingInv, Records
<1>7. Resident' BY <1>1, LoadedPops DEF PagingInv, Resident, Planned, Missing
<1>8. Awaited'
  <2> SUFFICES ASSUME inflight, upload' # <<>>
               PROVE  \E k \in DOMAIN infer : AwaitedAt(k)'
    BY <1>1 DEF Awaited
  <2>1. Len(upload') # 0 BY <1>1
  <2>2. upload'[Len(upload')] = upload[Len(upload)] BY <1>1, <2>1
  <2>3. PICK k \in DOMAIN infer : AwaitedAt(k) BY <1>1 DEF PagingInv, Awaited
  <2> QED BY <1>1, <2>2, <2>3 DEF AwaitedAt
<1> QED BY <1>4, <1>5, <1>6, <1>7, <1>8 DEF PagingInv

-----------------------------------------------------------------------------
(***************************************************************************)
(* The host.                                                               *)
(***************************************************************************)

\* A step that touches neither the upload stream nor what it reads and writes.
LEMMA LoadedStays ==
  ASSUME UNCHANGED <<upload, inflight, map_staging, staging, device_map, slot_data>>
  PROVE  \A e : Loaded(e)' <=> Loaded(e)
BY DEF Loaded, Untargeted

\* Nor the inference stream.
LEMMA AwaitedStays ==
  ASSUME PagingInv, UNCHANGED <<upload, inflight, infer>>
  PROVE  Awaited'
BY DEF PagingInv, Awaited, AwaitedAt

\* A pass begins with an empty inference stream.
LEMMA StartHolds ==
  ASSUME PagingInv, StartPass, PlanInv'
  PROVE  PagingInv'
<1>1. /\ UNCHANGED <<pager, todo, protected, misses, expert_to_slot, slot_to_expert, inflight,
                     unfilled, pinned, infer, upload, device>>
      /\ pc = "idle" /\ pc' = "resolve" /\ infer = <<>>
  BY DEF StartPass, cache, uploads
<1>2. UNCHANGED <<map_staging, staging, device_map, slot_data>> BY <1>1 DEF pinned, device
<1>3. StreamTypes' BY <1>1, <1>2 DEF PagingInv, StreamTypes
<1>4. Misses' BY <1>1 DEF PagingInv, Misses
<1>5. Records' BY <1>1, <1>2 DEF PagingInv, Records
<1>6. Resident' BY <1>1, <1>2, LoadedStays DEF PagingInv, Resident, Planned, Missing
<1> QED BY <1>1, <1>3, <1>4, <1>5, <1>6, AwaitedStays DEF PagingInv

\* The uploads in flight end with a record, so a resolve that has waited for the records
\* finds the upload stream empty.
LEMMA ResolveAwaitsUploads ==
  ASSUME PagingInv, BeginResolve
  PROVE  ~inflight \/ upload = <<>>
<1> SUFFICES ASSUME inflight, upload # <<>> PROVE FALSE
  OBVIOUS
<1>1. upload \in Seq(UploadOp) BY DEF PagingInv, StreamTypes
<1>2. Len(upload) \in DOMAIN upload BY <1>1, Popped
<1>3. PICK t : upload[Len(upload)] = Record(t) BY DEF PagingInv, Awaited, AwaitedAt
<1> QED BY <1>2, <1>3 DEF BeginResolve, StagingReusable, Recorded, Record

LEMMA BeginHolds ==
  ASSUME PagingInv, BeginResolve, PlanInv'
  PROVE  PagingInv'
<1>1. /\ UNCHANGED <<pager, groups, expert_to_slot, slot_to_expert, unfilled, map_staging, staging,
                     infer, upload, device_map, slot_data, slot_indices>>
      /\ pc = "resolve" /\ pc' = "plan" /\ inflight' = FALSE /\ todo' = Route /\ misses' = <<>>
  BY DEF BeginResolve, cache, pinned, device
<1>2. misses = <<>> BY <1>1 DEF PagingInv, Misses
<1>3. \A e : Loaded(e) => Loaded(e)'
  <2> SUFFICES ASSUME NEW e, Loaded(e) PROVE Loaded(e)'
    OBVIOUS
  <2>1. ~inflight \/ upload = <<>> BY ResolveAwaitsUploads
  <2>2. /\ map_staging[e] \in Slots /\ device_map[e] = map_staging[e]
        /\ slot_data[map_staging[e]] = e /\ Untargeted(map_staging[e])
    BY <2>1 DEF Loaded
  <2> QED BY <1>1, <2>2 DEF Loaded, Untargeted
<1>4. StreamTypes'
  <2>1. <<>> \in Seq(Miss) OBVIOUS
  <2>2. misses' \in Seq(Miss) BY <1>1, <2>1
  <2>3. inflight' \in BOOLEAN BY <1>1, Zenon
  <2> QED BY <1>1, <2>2, <2>3 DEF PagingInv, StreamTypes
<1>5. Misses'
  <2>1. Route \in AllRoutes BY <1>1 DEF PagingInv, PlanInv, Route
  <2>2. PICK n \in 1..TopK : Route \in [1..n -> Experts] BY <2>1, RouteShape
  <2>3. n \in Nat /\ TopK \in Nat BY PagingAssumption
  <2>4. Len(Route) = n BY <2>2, <2>3
  <2>5. Len(misses') + Len(todo') <= TopK BY <1>1, <2>3, <2>4
  <2>6. Route' = Route BY <1>1 DEF Route
  <2> QED BY <1>1, <2>5, <2>6 DEF Misses
<1>6. Records' BY <1>1 DEF PagingInv, Records
<1>7. Resident' BY <1>1, <1>2, <1>3 DEF PagingInv, Resident, Planned, Missing
<1>8. Awaited' BY <1>1 DEF Awaited
<1> QED BY <1>4, <1>5, <1>6, <1>7, <1>8 DEF PagingInv

\* The expert that is placed leaves the rest of the route to do.
LEMMA RestOfRoute ==
  ASSUME PagingInv, pc = "plan", todo # <<>>
  PROVE  /\ Head(todo) \in Range(Route) /\ Head(todo) \in Experts
         /\ Len(todo) \in Nat /\ Len(Tail(todo)) = Len(todo) - 1
         /\ Range(todo) = Range(Tail(todo)) \cup {Head(todo)}
<1>1. todo \in Seq(Experts) /\ Range(todo) \subseteq Range(Route) BY DEF PagingInv, PlanInv
<1>2. /\ Head(todo) = todo[1] /\ 1 \in DOMAIN todo /\ Len(todo) \in Nat \ {0}
      /\ DOMAIN todo = 1..Len(todo) /\ DOMAIN Tail(todo) = 1..(Len(todo) - 1)
      /\ Len(Tail(todo)) = Len(todo) - 1
      /\ \A k \in 1..(Len(todo) - 1) : Tail(todo)[k] = todo[k + 1]
  BY <1>1, Popped
<1>3. Head(todo) \in Range(todo) /\ Head(todo) \in Experts BY <1>1, <1>2 DEF Range
<1>4. \A x \in Range(todo) : x \in Range(Tail(todo)) \cup {Head(todo)}
  <2> SUFFICES ASSUME NEW k \in DOMAIN todo, k # 1 PROVE todo[k] \in Range(Tail(todo))
    BY <1>2 DEF Range
  <2>1. k - 1 \in DOMAIN Tail(todo) /\ Tail(todo)[k - 1] = todo[k] BY <1>2
  <2> QED BY <2>1 DEF Range
<1>5. \A x \in Range(Tail(todo)) : x \in Range(todo)
  <2> SUFFICES ASSUME NEW k \in DOMAIN Tail(todo) PROVE Tail(todo)[k] \in Range(todo)
    BY DEF Range
  <2>1. k + 1 \in DOMAIN todo /\ Tail(todo)[k] = todo[k + 1] BY <1>2
  <2> QED BY <2>1 DEF Range
<1> QED BY <1>1, <1>2, <1>3, <1>4, <1>5

LEMMA HitHolds ==
  ASSUME PagingInv, PlanHit, PlanInv'
  PROVE  PagingInv'
<1>1. /\ UNCHANGED <<pager, pc, groups, misses, expert_to_slot, slot_to_expert, inflight, unfilled,
                     pinned, infer, upload, device>>
      /\ pc = "plan" /\ todo # <<>> /\ todo' = Tail(todo) /\ expert_to_slot[Head(todo)] # None
  BY DEF PlanHit, Placed, uploads
<1>2. UNCHANGED <<map_staging, staging, device_map, slot_data>> BY <1>1 DEF pinned, device
<1>3. StreamTypes' BY <1>1, <1>2 DEF PagingInv, StreamTypes
<1>4. Misses'
  <2>1. Range(Route)' = Range(Route) BY <1>1 DEF Route, Range
  <2>2. \A e \in Range(Route) : expert_to_slot[e] # None \/ e \in Range(todo')
    BY <1>1, RestOfRoute DEF PagingInv, Misses
  <2>3. Len(misses) \in Nat /\ TopK \in Nat BY PagingAssumption DEF PagingInv, StreamTypes
  <2>4. Len(misses') + Len(todo') <= TopK BY <1>1, <2>3, RestOfRoute DEF PagingInv, Misses
  <2> QED BY <1>1, <2>1, <2>2, <2>4 DEF PagingInv, Misses
<1>5. Records' BY <1>1, <1>2 DEF PagingInv, Records
<1>6. Resident' BY <1>1, <1>2, LoadedStays DEF PagingInv, Resident, Planned, Missing
<1> QED BY <1>1, <1>3, <1>4, <1>5, <1>6, AwaitedStays DEF PagingInv

\* A miss takes a slot that no other miss of the plan has.
LEMMA MissHolds ==
  ASSUME PagingInv, PlanMiss, PlanInv'
  PROVE  PagingInv'
<1> DEFINE e == Head(todo)
<1>1. /\ UNCHANGED <<pager, pc, groups, inflight, unfilled, pinned, infer, upload, device>>
      /\ pc = "plan" /\ todo # <<>> /\ todo' = Tail(todo) /\ expert_to_slot[e] = None
  BY DEF PlanMiss, Placed, uploads
<1>2. UNCHANGED <<map_staging, staging, device_map, slot_data>> BY <1>1 DEF pinned, device
<1>3. PICK s \in Victims :
        /\ expert_to_slot' = [f \in Experts |->
             IF f = e THEN s ELSE IF f = slot_to_expert[s] THEN None ELSE expert_to_slot[f]]
        /\ misses' = Append(misses, [expert |-> e, slot |-> s])
  BY DEF PlanMiss
<1>4. s \in Slots /\ (slot_to_expert[s] = None \/ s \notin protected)
  BY <1>3 DEF Victims, FreeSlots, Evictable
<1>5. e \in Experts /\ e \in Range(Route) BY <1>1, RestOfRoute
<1>6. misses \in Seq(Miss) /\ Len(misses) \in Nat /\ DOMAIN misses = 1..Len(misses)
  BY DEF PagingInv, StreamTypes
<1> DEFINE m == [expert |-> e, slot |-> s]
<1>7. m \in Miss /\ m.expert = e /\ m.slot = s BY <1>4, <1>5 DEF Miss
<1>8. /\ misses' \in Seq(Miss) /\ Len(misses') = Len(misses) + 1
      /\ DOMAIN misses' = 1..(Len(misses) + 1)
      /\ \A i \in DOMAIN misses : misses'[i] = misses[i]
      /\ misses'[Len(misses) + 1] = m
  <2> HIDE DEF m
  <2>1. misses' = Append(misses, m) BY <1>3 DEF m
  <2> QED BY <1>6, <1>7, <2>1
<1> HIDE DEF e, m
<1>9. \A i \in DOMAIN misses : misses[i].expert \in Experts /\ misses[i].slot \in Slots
  <2>1. \A i \in DOMAIN misses : misses[i] \in Miss BY <1>6
  <2> QED BY <2>1 DEF Miss
<1>10. \A i \in DOMAIN misses :
         /\ misses[i].expert # e /\ misses[i].slot # s /\ slot_to_expert[s] # misses[i].expert
  <2> SUFFICES ASSUME NEW i \in DOMAIN misses
               PROVE  /\ misses[i].expert # e /\ misses[i].slot # s
                      /\ slot_to_expert[s] # misses[i].expert
    OBVIOUS
  <2>1. expert_to_slot[misses[i].expert] = misses[i].slot BY DEF PagingInv, Misses
  <2>2. misses[i].expert \in Range(Route) BY <1>1 DEF PagingInv, Misses
  <2>3. misses[i].slot \in protected
    BY <1>1, <1>9, <2>1, <2>2, NoneApart DEF PagingInv, PlanInv, RouteSlots
  <2>4. slot_to_expert[misses[i].slot] = misses[i].expert
    BY <1>9, <2>1 DEF PagingInv, PlanInv, MapsAgree
  <2>5. misses[i].slot # s BY <1>4, <1>9, <2>3, <2>4, NoneApart
  <2>6. slot_to_expert[s] = misses[i].expert <=> expert_to_slot[misses[i].expert] = s
    BY <1>4, <1>9 DEF PagingInv, PlanInv, MapsAgree
  <2> QED BY <1>1, <1>9, <2>1, <2>5, <2>6, NoneApart
<1>11. \A f \in Experts :
         expert_to_slot'[f] = IF f = e THEN s ELSE IF f = slot_to_expert[s] THEN None ELSE expert_to_slot[f]
  BY <1>3
<1>12. StreamTypes' BY <1>1, <1>2, <1>8 DEF PagingInv, StreamTypes
<1>13. Misses'
  <2>1. Range(Route)' = Range(Route) BY <1>1 DEF Route, Range
  <2>2. \A i \in DOMAIN misses' : i \in DOMAIN misses \/ i = Len(misses) + 1 BY <1>6, <1>8
  <2>3. \A i \in DOMAIN misses' : expert_to_slot'[misses'[i].expert] = misses'[i].slot
    <3> SUFFICES ASSUME NEW i \in DOMAIN misses'
                 PROVE  expert_to_slot'[misses'[i].expert] = misses'[i].slot
      OBVIOUS
    <3>1. CASE i = Len(misses) + 1 BY <1>5, <1>7, <1>8, <1>11, <3>1
    <3>2. CASE i \in DOMAIN misses
      <4>1. misses'[i] = misses[i] /\ expert_to_slot[misses[i].expert] = misses[i].slot
        BY <1>8, <3>2 DEF PagingInv, Misses
      <4> QED BY <1>9, <1>10, <1>11, <3>2, <4>1
    <3> QED BY <2>2, <3>1, <3>2
  <2>4. \A i, j \in DOMAIN misses' : misses'[i].slot = misses'[j].slot => i = j
    <3>1. \A i, j \in DOMAIN misses : misses[i].slot = misses[j].slot => i = j
      BY DEF PagingInv, Misses
    <3> QED BY <1>7, <1>8, <1>10, <2>2, <3>1
  <2>5. \A i \in DOMAIN misses' : misses'[i].expert \in Range(Route)
    <3>1. \A i \in DOMAIN misses : misses[i].expert \in Range(Route)
      BY <1>1 DEF PagingInv, Misses
    <3> QED BY <1>5, <1>7, <1>8, <2>2, <3>1
  <2>6. \A f \in Range(Route) : expert_to_slot'[f] # None \/ f \in Range(todo')
    <3>1. \A f \in Range(Route) : expert_to_slot[f] # None \/ f \in Range(todo)
      BY <1>1 DEF PagingInv, Misses
    <3>2. \A f \in Range(Route) : expert_to_slot[f] # None => expert_to_slot'[f] # None
      BY MissKeepsRoute DEF PagingInv
    <3>3. expert_to_slot'[e] # None BY <1>4, <1>5, <1>11, NoneApart
    <3> QED BY <1>1, <3>1, <3>2, <3>3, RestOfRoute DEF e
  <2>7. Len(misses') + Len(todo') <= TopK
    <3>1. Len(misses) + Len(todo) <= TopK BY <1>1 DEF PagingInv, Misses
    <3>2. Len(todo') = Len(todo) - 1 /\ Len(todo) \in Nat /\ TopK \in Nat
      BY <1>1, RestOfRoute, PagingAssumption
    <3> QED BY <1>6, <1>8, <3>1, <3>2
  <2>8. ~inflight BY <1>1 DEF PagingInv, Misses
  <2> QED BY <1>1, <2>1, <2>3, <2>4, <2>5, <2>6, <2>7, <2>8 DEF Misses
<1>14. Records' BY <1>1, <1>2 DEF PagingInv, Records
<1>15. Resident'
  <2>1. Planned' = Planned \cup {e}
    <3>1. \A i \in DOMAIN misses : misses'[i].expert = misses[i].expert /\ i \in DOMAIN misses'
      BY <1>6, <1>8
    <3>2. misses'[Len(misses) + 1].expert = e /\ Len(misses) + 1 \in DOMAIN misses'
      BY <1>6, <1>7, <1>8
    <3>3. \A i \in DOMAIN misses' : i \in DOMAIN misses \/ i = Len(misses) + 1 BY <1>6, <1>8
    <3> QED BY <3>1, <3>2, <3>3 DEF Planned, Missing
  <2> SUFFICES ASSUME NEW f \in Experts, expert_to_slot'[f] # None, f \notin unfilled,
                      f \notin Planned'
               PROVE  Loaded(f)' /\ map_staging'[f] = expert_to_slot'[f]
    BY <1>1 DEF Resident
  <2>2. expert_to_slot'[f] = expert_to_slot[f] /\ f \notin Planned BY <1>11, <2>1
  <2>3. Loaded(f) /\ map_staging[f] = expert_to_slot[f] BY <2>2 DEF PagingInv, Resident
  <2> QED BY <1>1, <1>2, <2>2, <2>3, LoadedStays
<1> QED BY <1>1, <1>12, <1>13, <1>14, <1>15, AwaitedStays DEF PagingInv

\* The remap and the run of a route behind queued work.
LEMMA LaunchBehind ==
  ASSUME NEW p \in Seq(InferOp), Route \in AllRoutes
  PROVE  /\ p \o Launch \in Seq(InferOp) /\ Len(p \o Launch) = Len(p) + 2 /\ Len(p) \in Nat
         /\ DOMAIN (p \o Launch) = 1..(Len(p) + 2)
         /\ \A k \in 1..Len(p) : (p \o Launch)[k] = p[k]
         /\ (p \o Launch)[Len(p) + 1] = Remap(Route) /\ (p \o Launch)[Len(p) + 2] = Run(Route)
<1>1. Remap(Route) \in InferOp /\ Run(Route) \in InferOp BY DEF Remap, Run, InferOp
<1> DEFINE a == Remap(Route)
           b == Run(Route)
<1>2. Launch = <<a, b>> BY DEF Launch
<1> HIDE DEF a, b
<1>3. <<a, b>> \in Seq(InferOp) /\ Len(<<a, b>>) = 2 /\ <<a, b>>[1] = a /\ <<a, b>>[2] = b
  BY <1>1 DEF a, b
<1> QED BY <1>2, <1>3, Queued DEF a, b

\* The groups that are left when one is launched.
LEMMA GroupDone ==
  ASSUME PagingInv, NextGroup, pc \in {"plan", "publish"}
  PROVE  pc' \in {"idle", "resolve"} /\ misses' = <<>> /\ Route \in AllRoutes
<1>1. groups \in Seq(AllRoutes) /\ groups # <<>> BY DEF PagingInv, PlanInv
<1> QED BY <1>1 DEF NextGroup, Forget, Route

LEMMA AllHitsHolds ==
  ASSUME PagingInv, AllHits, PlanInv'
  PROVE  PagingInv'
<1>1. /\ UNCHANGED <<pager, expert_to_slot, slot_to_expert, inflight, unfilled, map_staging, staging,
                     upload, device_map, slot_data, slot_indices>>
      /\ pc = "plan" /\ todo = <<>> /\ misses = <<>> /\ infer' = infer \o Launch /\ NextGroup
  BY DEF AllHits, cache, uploads, pinned, device
<1>2. pc' \in {"idle", "resolve"} /\ misses' = <<>> /\ Route \in AllRoutes BY <1>1, GroupDone
<1>3. infer \in Seq(InferOp) BY DEF PagingInv, StreamTypes
<1>4. /\ infer' \in Seq(InferOp) /\ Len(infer) \in Nat /\ DOMAIN infer' = 1..(Len(infer) + 2)
      /\ DOMAIN infer = 1..Len(infer)
      /\ \A k \in DOMAIN infer : infer'[k] = infer[k]
      /\ infer'[Len(infer) + 1] = Remap(Route) /\ infer'[Len(infer) + 2] = Run(Route)
  BY <1>1, <1>2, <1>3, LaunchBehind
<1>5. StreamTypes' BY <1>1, <1>2, <1>4 DEF PagingInv, StreamTypes
<1>6. ~inflight BY <1>1 DEF PagingInv, Misses
<1>7. Misses' BY <1>2 DEF Misses
<1>8. Records' BY <1>1, <1>2 DEF PagingInv, Records
<1>9. Planned' = {} /\ Planned = {} BY <1>1, <1>2 DEF Planned
<1>10. Resident' BY <1>1, <1>9, LoadedStays DEF PagingInv, Resident
<1>11. Awaited' BY <1>1, <1>6 DEF Awaited
<1> QED BY <1>5, <1>7, <1>8, <1>10, <1>11 DEF PagingInv

\* A record behind the inference stream, and a wait behind the uploads.
LEMMA RecordQueued ==
  ASSUME infer \in Seq(InferOp), upload \in Seq(UploadOp), infer' = Append(infer, Record(Token))
  PROVE  /\ infer' \in Seq(InferOp) /\ Len(infer) \in Nat /\ DOMAIN infer = 1..Len(infer)
         /\ DOMAIN infer' = 1..(Len(infer) + 1) /\ Len(infer') = Len(infer) + 1
         /\ \A k \in DOMAIN infer : infer'[k] = infer[k]
         /\ infer'[Len(infer) + 1].op = "record"
<1>1. Record(Token) \in InferOp /\ Record(Token).op = "record"
  <2>1. Token \in Nat
    <3>1. infer \in Seq(InferOp \cup UploadOp) /\ upload \in Seq(InferOp \cup UploadOp) OBVIOUS
    <3> QED BY <3>1, TokenFits
  <2> QED BY <2>1 DEF Record, InferOp, Sync
<1> DEFINE r == Record(Token)
<1>2. infer' = Append(infer, r) OBVIOUS
<1> HIDE DEF r
<1>3. infer'[Len(infer) + 1] = r BY <1>2
<1> QED BY <1>1, <1>2, <1>3 DEF r

LEMMA WaitQueued ==
  ASSUME infer \in Seq(InferOp), upload \in Seq(UploadOp),
         upload' = upload \/ upload' = Append(upload, Wait(Token))
  PROVE  /\ upload' \in Seq(UploadOp) /\ Len(upload) \in Nat
         /\ \A q \in DOMAIN upload : q \in DOMAIN upload' /\ upload'[q] = upload[q]
         /\ \A q \in DOMAIN upload' : upload'[q].op \in {"copy", "map"} => q \in DOMAIN upload
<1>1. Wait(Token) \in UploadOp /\ Wait(Token).op = "wait"
  <2>1. Token \in Nat
    <3>1. infer \in Seq(InferOp \cup UploadOp) /\ upload \in Seq(InferOp \cup UploadOp) OBVIOUS
    <3> QED BY <3>1, TokenFits
  <2> QED BY <2>1 DEF Wait, UploadOp, Sync
<1> DEFINE w == Wait(Token)
<1>2. upload' = upload \/ upload' = Append(upload, w) OBVIOUS
<1> HIDE DEF w
<1>3. CASE upload' = upload BY <1>3
<1>4. CASE upload' = Append(upload, w)
  <2>1. /\ Len(upload) \in Nat /\ DOMAIN upload = 1..Len(upload)
        /\ DOMAIN upload' = 1..(Len(upload) + 1) /\ upload'[Len(upload) + 1] = w
        /\ \A q \in DOMAIN upload : upload'[q] = upload[q]
    BY <1>4
  <2>2. w.op = "wait" /\ w \in UploadOp BY <1>1 DEF w
  <2>3. upload' \in Seq(UploadOp) BY <1>4, <2>2
  <2>4. \A q \in DOMAIN upload' : q \in DOMAIN upload \/ q = Len(upload) + 1 BY <2>1
  <2> QED BY <2>1, <2>2, <2>3, <2>4
<1> QED BY <1>2, <1>3, <1>4

\* The record of slots_released goes behind the queued kernels.
LEMMA ReleaseHolds ==
  ASSUME PagingInv, ReleaseSlots, PlanInv'
  PROVE  PagingInv'
<1>1. /\ UNCHANGED <<pager, groups, misses, expert_to_slot, slot_to_expert, inflight, unfilled,
                     map_staging, staging, device_map, slot_data, slot_indices>>
      /\ pc = "plan" /\ pc' = "read" /\ todo = <<>> /\ misses # <<>>
      /\ infer' = Append(infer, Record(Token))
      /\ upload' = upload \/ upload' = Append(upload, Wait(Token))
  BY DEF ReleaseSlots, cache, uploads, pinned, device
<1>2. infer \in Seq(InferOp) /\ upload \in Seq(UploadOp) BY DEF PagingInv, StreamTypes
<1>3. /\ infer' \in Seq(InferOp) /\ Len(infer) \in Nat /\ DOMAIN infer = 1..Len(infer)
      /\ DOMAIN infer' = 1..(Len(infer) + 1) /\ Len(infer') = Len(infer) + 1
      /\ \A k \in DOMAIN infer : infer'[k] = infer[k]
      /\ infer'[Len(infer) + 1].op = "record"
  BY <1>1, <1>2, RecordQueued
<1>4. /\ upload' \in Seq(UploadOp) /\ Len(upload) \in Nat
      /\ \A q \in DOMAIN upload : q \in DOMAIN upload' /\ upload'[q] = upload[q]
      /\ \A q \in DOMAIN upload' : upload'[q].op \in {"copy", "map"} => q \in DOMAIN upload
  BY <1>1, <1>2, WaitQueued
<1>5. ~inflight BY <1>1 DEF PagingInv, Misses
<1>6. \A e : Loaded(e) => Loaded(e)'
  BY <1>1, <1>4, <1>5 DEF Loaded, Untargeted, CopiesTo
<1>7. StreamTypes' BY <1>1, <1>3, <1>4 DEF PagingInv, StreamTypes
<1>8. Misses'
  <2>1. Range(Route)' = Range(Route) /\ Range(todo) = {} BY <1>1 DEF Route, Range
  <2>2. Len(misses) <= TopK BY <1>1 DEF PagingInv, Misses
  <2> QED BY <1>1, <2>1, <2>2 DEF PagingInv, Misses
<1>9. Records' BY <1>1, <1>4 DEF PagingInv, Records
<1>10. Resident' BY <1>1, <1>6 DEF PagingInv, Resident, Planned, Missing
<1>11. Awaited' BY <1>1, <1>5 DEF Awaited
<1> QED BY <1>7, <1>8, <1>9, <1>10, <1>11 DEF PagingInv

\* A miss has a slot of its own: the slots of the other experts are not its slot.
LEMMA MissSlot ==
  ASSUME PagingInv, NEW e \in Experts, e \notin Planned, NEW i \in DOMAIN misses
  PROVE  expert_to_slot[e] # misses[i].slot
<1>1. misses[i] \in Miss BY DEF PagingInv, StreamTypes
<1>2. misses[i].slot \in Slots /\ misses[i].expert \in Experts BY <1>1 DEF Miss
<1>3. expert_to_slot[misses[i].expert] = misses[i].slot BY DEF PagingInv, Misses
<1>4. slot_to_expert[misses[i].slot] = misses[i].expert
  BY <1>2, <1>3 DEF PagingInv, PlanInv, MapsAgree
<1>5. misses[i].expert # e BY DEF Planned, Missing
<1> QED BY <1>2, <1>4, <1>5 DEF PagingInv, PlanInv, MapsAgree

\* The records go where no other expert is.
LEMMA WriteKeeps ==
  ASSUME PagingInv, pc = "read", NEW good, WriteRecords(good), UNCHANGED <<upload, inflight>>
  PROVE  /\ UNCHANGED <<map_staging, device_map, slot_indices>>
         /\ staging' \in [1..TopK -> MaybeExpert] /\ slot_data' \in [Slots -> MaybeExpert]
         /\ \A e \in Experts : expert_to_slot[e] # None /\ e \notin unfilled \cup Planned =>
              Loaded(e)' /\ map_staging'[e] = expert_to_slot[e]
<1>1. UNCHANGED <<map_staging, device_map, slot_indices>>
  BY DEF WriteRecords, device
<1>2. \A i \in DOMAIN misses : Missing(i) \in MaybeExpert
  <2>1. \A i \in DOMAIN misses : misses[i] \in Miss BY DEF PagingInv, StreamTypes
  <2> QED BY <2>1 DEF Miss, Missing, MaybeExpert
<1>3. staging' \in [1..TopK -> MaybeExpert]
  <2>1. CASE staging' = staging BY <2>1 DEF PagingInv, StreamTypes
  <2>2. CASE WriteStaging(good)
    <3>1. \A i \in 1..TopK : staging[i] \in MaybeExpert BY DEF PagingInv, StreamTypes
    <3> QED BY <1>2, <2>2, <3>1 DEF WriteStaging, MaybeExpert
  <2> QED BY <2>1, <2>2 DEF WriteRecords
<1> DEFINE m(s) == {i \in DOMAIN misses : misses[i].slot = s}
<1>4. \/ slot_data' = slot_data
      \/ slot_data' = [s \in Slots |->
           IF m(s) = {} THEN slot_data[s]
           ELSE IF m(s) \subseteq good THEN Missing(CHOOSE i \in m(s) : TRUE) ELSE None]
  BY DEF WriteRecords, WriteSlots, device
<1>5. slot_data' \in [Slots -> MaybeExpert]
  <2>1. \A s \in Slots : slot_data[s] \in MaybeExpert BY DEF PagingInv, StreamTypes
  <2>2. \A s : m(s) # {} => Missing(CHOOSE i \in m(s) : TRUE) \in MaybeExpert
    <3> SUFFICES ASSUME NEW s, m(s) # {} PROVE Missing(CHOOSE i \in m(s) : TRUE) \in MaybeExpert
      OBVIOUS
    <3>1. (CHOOSE i \in m(s) : TRUE) \in m(s) OBVIOUS
    <3>2. m(s) \subseteq DOMAIN misses OBVIOUS
    <3> HIDE DEF m
    <3> QED BY <1>2, <3>1, <3>2
  <2>3. None \in MaybeExpert BY DEF MaybeExpert
  <2> HIDE DEF m
  <2> QED BY <1>4, <2>1, <2>2, <2>3 DEF PagingInv, StreamTypes
<1>6. ASSUME NEW e \in Experts, expert_to_slot[e] # None, e \notin unfilled \cup Planned
      PROVE  Loaded(e)' /\ map_staging'[e] = expert_to_slot[e]
  <2>1. Loaded(e) /\ map_staging[e] = expert_to_slot[e] BY <1>6 DEF PagingInv, Resident
  <2>2. ~inflight BY DEF PagingInv, Misses
  <2>3. /\ map_staging[e] \in Slots /\ device_map[e] = map_staging[e]
        /\ slot_data[map_staging[e]] = e /\ Untargeted(map_staging[e])
    BY <2>1, <2>2 DEF Loaded
  <2>4. m(map_staging[e]) = {} BY <1>6, <2>1, MissSlot
  <2>5. slot_data'[map_staging[e]] = slot_data[map_staging[e]]
    <3> HIDE DEF m
    <3> QED BY <1>4, <2>3, <2>4
  <2> QED BY <1>1, <2>1, <2>3, <2>5 DEF Loaded, Untargeted
<1> QED BY <1>1, <1>3, <1>5, <1>6

\* All records are read.
LEMMA ReadHolds ==
  ASSUME PagingInv, ReadRecords, PlanInv'
  PROVE  PagingInv'
<1>1. /\ UNCHANGED <<pager, groups, todo, misses, expert_to_slot, slot_to_expert, inflight, unfilled,
                     infer, upload>>
      /\ pc = "read" /\ pc' = "publish" /\ SlotsReleased /\ WriteRecords(DOMAIN misses)
  BY DEF ReadRecords, cache, uploads
<1>2. /\ UNCHANGED <<map_staging, device_map, slot_indices>>
      /\ staging' \in [1..TopK -> MaybeExpert] /\ slot_data' \in [Slots -> MaybeExpert]
      /\ \A e \in Experts : expert_to_slot[e] # None /\ e \notin unfilled \cup Planned =>
           Loaded(e)' /\ map_staging'[e] = expert_to_slot[e]
  BY <1>1, WriteKeeps
<1>5. StreamTypes' BY <1>1, <1>2 DEF PagingInv, StreamTypes
<1>6. Misses'
  <2>1. Range(Route)' = Range(Route) BY <1>1 DEF Route, Range
  <2> QED BY <1>1, <2>1 DEF PagingInv, Misses
<1>7. Records'
  <2>1. ASSUME pager = "host", NEW i \in DOMAIN misses
        PROVE  slot_data'[misses[i].slot] = misses[i].expert
    <3> DEFINE m == {k \in DOMAIN misses : misses[k].slot = misses[i].slot}
    <3>1. misses[i] \in Miss BY DEF PagingInv, StreamTypes
    <3>2. misses[i].slot \in Slots BY <3>1 DEF Miss
    <3>3. m = {i} BY DEF PagingInv, Misses
    <3>4. WriteSlots(DOMAIN misses) BY <1>1, <2>1 DEF WriteRecords
    <3>5. slot_data'[misses[i].slot] =
            IF m = {} THEN slot_data[misses[i].slot]
            ELSE IF m \subseteq DOMAIN misses THEN Missing(CHOOSE k \in m : TRUE) ELSE None
      BY <3>2, <3>4 DEF WriteSlots
    <3>6. (CHOOSE k \in m : TRUE) = i BY <3>3
    <3> HIDE DEF m
    <3> QED BY <3>3, <3>5, <3>6 DEF Missing
  <2>2. ASSUME pager = "staged", NEW i \in DOMAIN misses
        PROVE  staging'[i] = misses[i].expert
    <3>1. misses \in Seq(Miss) /\ Len(misses) <= TopK /\ TopK \in Nat
      BY <1>1, PagingAssumption DEF PagingInv, StreamTypes, Misses
    <3>2. i \in 1..TopK BY <3>1
    <3>3. WriteStaging(DOMAIN misses) BY <1>1, <2>2 DEF WriteRecords
    <3> QED BY <3>2, <3>3 DEF WriteStaging, Missing
  <2> QED BY <1>1, <2>1, <2>2 DEF PagingInv, Records
<1>8. Resident' BY <1>1, <1>2 DEF Resident, Planned, Missing
<1> QED BY <1>1, <1>5, <1>6, <1>7, <1>8, AwaitedStays DEF PagingInv
-----------------------------------------------------------------------------
(***************************************************************************)
(* A resolve that fails: what it planned is discarded or left unfilled.    *)
(***************************************************************************)
LEMMA FailForgets ==
  ASSUME PagingInv, NEW d \in BOOLEAN, FailResolve(d)
  PROVE  /\ misses' = <<>> /\ groups' = <<>> /\ pc' = "idle" /\ UNCHANGED <<pager, inflight>>
         /\ unfilled \subseteq unfilled' /\ Planned' = {}
         /\ \A e \in Experts : expert_to_slot'[e] # None /\ e \notin unfilled' =>
              expert_to_slot'[e] = expert_to_slot[e] /\ e \notin unfilled \cup Planned
<1>1. /\ misses' = <<>> /\ groups' = <<>> /\ pc' = "idle" /\ UNCHANGED <<pager, inflight>>
  BY DEF FailResolve, Forget
<1>2. Planned' = {} BY <1>1 DEF Planned
<1>3. CASE d
  <2>1. DiscardMisses /\ unfilled' = unfilled BY <1>3 DEF FailResolve
  <2>2. ASSUME NEW e \in Experts, expert_to_slot'[e] # None, e \notin unfilled'
        PROVE  expert_to_slot'[e] = expert_to_slot[e] /\ e \notin unfilled \cup Planned
    <3>1. /\ expert_to_slot'[e] = expert_to_slot[e]
          /\ \A i \in DOMAIN misses : misses[i] # [expert |-> e, slot |-> expert_to_slot[e]]
      BY <2>1, <2>2 DEF DiscardMisses
    <3>2. ASSUME NEW i \in DOMAIN misses, misses[i].expert = e PROVE FALSE
      <4>1. misses[i] \in Miss BY DEF PagingInv, StreamTypes
      <4>2. misses[i] = [expert |-> misses[i].expert, slot |-> misses[i].slot] BY <4>1 DEF Miss
      <4>3. expert_to_slot[e] = misses[i].slot BY <3>2 DEF PagingInv, Misses
      <4> QED BY <3>1, <3>2, <4>2, <4>3
    <3>3. e \notin Planned BY <3>2 DEF Planned, Missing
    <3> QED BY <2>1, <2>2, <3>1, <3>3
  <2> QED BY <1>1, <1>2, <2>1, <2>2
<1>4. CASE ~d
  <2>1. unfilled' = unfilled \cup Planned /\ expert_to_slot' = expert_to_slot
    BY <1>4 DEF FailResolve
  <2> QED BY <1>1, <1>2, <2>1
<1> QED BY <1>3, <1>4

\* What holds after any failure that keeps the loaded experts loaded.
LEMMA FailKeeps ==
  ASSUME PagingInv, NEW d \in BOOLEAN, FailResolve(d), pc \notin {"idle", "resolve"},
         pager = "host" => \A q \in DOMAIN upload' : upload'[q].op # "copy",
         \A e \in Experts : expert_to_slot[e] # None /\ e \notin unfilled \cup Planned =>
           Loaded(e)' /\ map_staging'[e] = expert_to_slot[e]
  PROVE  Misses' /\ Records' /\ Resident' /\ Awaited'
<1>1. /\ misses' = <<>> /\ groups' = <<>> /\ pc' = "idle" /\ UNCHANGED <<pager, inflight>>
      /\ Planned' = {}
      /\ \A e \in Experts : expert_to_slot'[e] # None /\ e \notin unfilled' =>
           expert_to_slot'[e] = expert_to_slot[e] /\ e \notin unfilled \cup Planned
  BY FailForgets
<1>2. ~inflight' BY <1>1 DEF PagingInv, Misses
<1>3. Misses' BY <1>1 DEF Misses
<1>4. Records' BY <1>1 DEF Records
<1>5. Resident' BY <1>1 DEF Resident
<1>6. Awaited' BY <1>2 DEF Awaited
<1> QED BY <1>3, <1>4, <1>5, <1>6

LEMMA ReadFailsHolds ==
  ASSUME PagingInv, ReadFails, PlanInv'
  PROVE  PagingInv'
<1>1. /\ UNCHANGED <<infer, upload>> /\ pc = "read" /\ SlotsReleased
      /\ FailResolve(pager = "host")
  BY DEF ReadFails
<1>2. PICK good : WriteRecords(good) BY DEF ReadFails
<1> DEFINE d == pager = "host"
<1>3. d \in BOOLEAN /\ FailResolve(d) BY <1>1
<1> HIDE DEF d
<1>4. /\ misses' = <<>> /\ groups' = <<>> /\ pc' = "idle" /\ UNCHANGED <<pager, inflight>>
      /\ unfilled \subseteq unfilled'
  BY <1>3, FailForgets
<1>5. /\ UNCHANGED <<map_staging, device_map, slot_indices>>
      /\ staging' \in [1..TopK -> MaybeExpert] /\ slot_data' \in [Slots -> MaybeExpert]
      /\ \A e \in Experts : expert_to_slot[e] # None /\ e \notin unfilled \cup Planned =>
           Loaded(e)' /\ map_staging'[e] = expert_to_slot[e]
  BY <1>1, <1>2, <1>4, WriteKeeps
<1>7. StreamTypes'
  <2>1. <<>> \in Seq(Miss) OBVIOUS
  <2>2. misses' \in Seq(Miss) BY <1>4, <2>1
  <2> QED BY <1>1, <1>4, <1>5, <2>2 DEF PagingInv, StreamTypes
<1>8. Misses' /\ Records' /\ Resident' /\ Awaited'
  <2>1. pager = "host" => \A q \in DOMAIN upload' : upload'[q].op # "copy"
    BY <1>1 DEF PagingInv, Records
  <2> QED BY <1>1, <1>3, <1>5, <2>1, FailKeeps
<1> QED BY <1>7, <1>8 DEF PagingInv

LEMMA ReleaseFailsHolds ==
  ASSUME PagingInv, ReleaseFails, PlanInv'
  PROVE  PagingInv'
<1>1. /\ UNCHANGED <<map_staging, staging, device_map, slot_data, slot_indices>>
      /\ pc = "plan" /\ FailResolve(FALSE)
      /\ infer' = infer \/ infer' = Append(infer, Record(Token))
      /\ upload' = upload \/ upload' = Append(upload, Wait(Token))
  BY DEF ReleaseFails, pinned, device
<1>2. /\ misses' = <<>> /\ groups' = <<>> /\ pc' = "idle" /\ UNCHANGED <<pager, inflight>>
      /\ unfilled \subseteq unfilled'
  BY <1>1, FailForgets
<1>3. infer \in Seq(InferOp) /\ upload \in Seq(UploadOp) BY DEF PagingInv, StreamTypes
<1>4. /\ infer' \in Seq(InferOp)
      /\ \A j \in DOMAIN infer' : Kernel(infer'[j]) => j \in DOMAIN infer /\ infer'[j] = infer[j]
  <2>1. CASE infer' = infer BY <1>3, <2>1
  <2>2. CASE infer' = Append(infer, Record(Token))
    <3>1. /\ infer' \in Seq(InferOp) /\ Len(infer) \in Nat /\ DOMAIN infer = 1..Len(infer)
          /\ DOMAIN infer' = 1..(Len(infer) + 1)
          /\ \A k \in DOMAIN infer : infer'[k] = infer[k]
          /\ infer'[Len(infer) + 1].op = "record"
      BY <1>3, <2>2, RecordQueued
    <3> QED BY <3>1 DEF Kernel
  <2> QED BY <1>1, <2>1, <2>2
<1>5. /\ upload' \in Seq(UploadOp) /\ Len(upload) \in Nat
      /\ \A q \in DOMAIN upload : q \in DOMAIN upload' /\ upload'[q] = upload[q]
      /\ \A q \in DOMAIN upload' : upload'[q].op \in {"copy", "map"} => q \in DOMAIN upload
  BY <1>1, <1>3, WaitQueued
<1>6. ~inflight BY <1>1 DEF PagingInv, Misses
<1>7. \A e : Loaded(e) => Loaded(e)'
  BY <1>1, <1>2, <1>5, <1>6 DEF Loaded, Untargeted, CopiesTo
<1>8. StreamTypes'
  <2>1. <<>> \in Seq(Miss) OBVIOUS
  <2>2. misses' \in Seq(Miss) BY <1>2, <2>1
  <2> QED BY <1>1, <1>2, <1>4, <1>5, <2>2 DEF PagingInv, StreamTypes
<1>9. Misses' /\ Records' /\ Resident' /\ Awaited'
  <2>1. pager = "host" => \A q \in DOMAIN upload' : upload'[q].op # "copy"
    BY <1>5 DEF PagingInv, Records
  <2>2. \A e \in Experts : expert_to_slot[e] # None /\ e \notin unfilled \cup Planned =>
          Loaded(e)' /\ map_staging'[e] = expert_to_slot[e]
    BY <1>1, <1>7 DEF PagingInv, Resident
  <2> QED BY <1>1, <2>1, <2>2, FailKeeps
<1> QED BY <1>8, <1>9 DEF PagingInv

-----------------------------------------------------------------------------
(***************************************************************************)
(* The uploads of a resolve: the copies of its misses, the map, a record.  *)
(***************************************************************************)
LEMMA UploadsShape ==
  ASSUME PagingInv, pc = "publish"
  PROVE  /\ Token \in Nat /\ Len(misses) \in Nat /\ Len(misses) <= TopK
         /\ DOMAIN misses = 1..Len(misses)
         /\ Copies \in Seq(UploadOp) /\ Uploads \in Seq(UploadOp)
         /\ Len(Copies) = IF pager = "staged" THEN Len(misses) ELSE 0
         /\ Len(Uploads) = Len(Copies) + 2
         /\ \A i \in 1..Len(Copies) : Uploads[i] = Copy(i, misses[i].slot)
         /\ Uploads[Len(Copies) + 1] = MapCopy /\ Uploads[Len(Copies) + 2] = Record(Token)
<1>1. /\ infer \in Seq(InferOp) /\ upload \in Seq(UploadOp) /\ misses \in Seq(Miss)
      /\ Len(misses) <= TopK
  BY DEF PagingInv, StreamTypes, Misses
<1>2. Token \in Nat
  <2>1. infer \in Seq(InferOp \cup UploadOp) /\ upload \in Seq(InferOp \cup UploadOp) BY <1>1
  <2> QED BY <2>1, TokenFits
<1>3. Len(misses) \in Nat /\ DOMAIN misses = 1..Len(misses) BY <1>1
<1>4. \A i \in 1..Len(misses) : Copy(i, misses[i].slot) \in UploadOp
  <2> SUFFICES ASSUME NEW i \in 1..Len(misses) PROVE Copy(i, misses[i].slot) \in UploadOp
    OBVIOUS
  <2>1. misses[i] \in Miss BY <1>1
  <2>2. misses[i].slot \in Slots BY <2>1 DEF Miss
  <2>3. i \in 1..TopK BY <1>1, <1>3, PagingAssumption
  <2> QED BY <2>2, <2>3 DEF Copy, UploadOp
<1>5. /\ Copies \in Seq(UploadOp) /\ Len(Copies) = IF pager = "staged" THEN Len(misses) ELSE 0
      /\ \A i \in 1..Len(Copies) : Copies[i] = Copy(i, misses[i].slot)
  <2>1. CASE pager = "staged"
    <3> DEFINE c(i) == Copy(i, misses[i].slot)
    <3>1. Copies = [i \in 1..Len(misses) |-> c(i)] BY <1>3, <2>1 DEF Copies
    <3>2. \A i \in 1..Len(misses) : c(i) \in UploadOp BY <1>4
    <3> HIDE DEF c
    <3>3. /\ Copies \in Seq(UploadOp) /\ Len(Copies) = Len(misses)
          /\ \A i \in 1..Len(misses) : Copies[i] = c(i)
      BY <1>3, <3>1, <3>2
    <3> QED BY <2>1, <3>3 DEF c
  <2>2. CASE pager # "staged" BY <2>2 DEF Copies
  <2> QED BY <2>1, <2>2
<1> DEFINE a == MapCopy
           b == Record(Token)
<1>6. a \in UploadOp /\ b \in UploadOp BY <1>2 DEF UploadOp, Sync, Record
<1>7. Uploads = Copies \o <<a, b>> BY DEF Uploads
<1> HIDE DEF a, b
<1>8. <<a, b>> \in Seq(UploadOp) /\ Len(<<a, b>>) = 2 /\ <<a, b>>[1] = a /\ <<a, b>>[2] = b
  BY <1>6
<1>9. /\ Uploads \in Seq(UploadOp) /\ Len(Uploads) = Len(Copies) + 2
      /\ \A i \in 1..Len(Copies) : Uploads[i] = Copies[i]
      /\ Uploads[Len(Copies) + 1] = a /\ Uploads[Len(Copies) + 2] = b
  BY <1>5, <1>7, <1>8, Queued
<1> QED BY <1>1, <1>2, <1>3, <1>5, <1>9 DEF a, b

\* The first operations of the uploads, behind the upload stream.
LEMMA UploadsQueued ==
  ASSUME PagingInv, pc = "publish", NEW k \in 0..Len(Uploads),
         upload' = upload \o SubSeq(Uploads, 1, k)
  PROVE  /\ upload' \in Seq(UploadOp) /\ Len(upload) \in Nat /\ Len(upload') = Len(upload) + k
         /\ DOMAIN upload = 1..Len(upload) /\ DOMAIN upload' = 1..(Len(upload) + k)
         /\ \A q \in DOMAIN upload : upload'[q] = upload[q]
         /\ \A i \in 1..k : upload'[Len(upload) + i] = Uploads[i]
<1>1. upload \in Seq(UploadOp) BY DEF PagingInv, StreamTypes
<1>2. Uploads \in Seq(UploadOp) BY UploadsShape
<1> DEFINE u == SubSeq(Uploads, 1, k)
<1>3. u \in Seq(UploadOp) /\ Len(u) = k /\ k \in Nat /\ \A i \in 1..k : u[i] = Uploads[i]
  BY <1>2
<1>4. upload' = upload \o u OBVIOUS
<1> HIDE DEF u
<1>5. /\ upload' \in Seq(UploadOp) /\ Len(upload') = Len(upload) + Len(u) /\ Len(upload) \in Nat
      /\ DOMAIN upload' = 1..(Len(upload) + Len(u))
      /\ \A q \in 1..Len(upload) : upload'[q] = upload[q]
      /\ \A q \in 1..Len(u) : upload'[Len(upload) + q] = u[q]
  BY <1>1, <1>3, <1>4, Queued
<1> QED BY <1>1, <1>3, <1>5

\* They copy to the slots of the misses, so every other loaded expert stays loaded, and the
\* map they publish has it where it was.
LEMMA UploadsKeep ==
  ASSUME PagingInv, pc = "publish", NEW k \in 0..Len(Uploads),
         upload' = upload \o SubSeq(Uploads, 1, k),
         map_staging' = map_staging \/ map_staging' = expert_to_slot,
         UNCHANGED <<device_map, slot_data>>,
         NEW e \in Experts, expert_to_slot[e] # None, e \notin unfilled \cup Planned
  PROVE  Loaded(e)' /\ map_staging'[e] = expert_to_slot[e]
<1>1. Loaded(e) /\ map_staging[e] = expert_to_slot[e] BY DEF PagingInv, Resident
<1>2. ~inflight BY DEF PagingInv, Misses
<1>3. /\ map_staging[e] \in Slots /\ device_map[e] = map_staging[e]
      /\ slot_data[map_staging[e]] = e /\ Untargeted(map_staging[e])
  BY <1>1, <1>2 DEF Loaded
<1>4. map_staging'[e] = map_staging[e] BY <1>1
<1> DEFINE s == map_staging[e]
           n == Len(upload)
<1>5. \A q \in DOMAIN upload' : ~CopiesTo(upload'[q], s)
  <2> SUFFICES ASSUME NEW q \in DOMAIN upload' PROVE ~CopiesTo(upload'[q], s)
    OBVIOUS
  <2>1. /\ n \in Nat /\ DOMAIN upload = 1..n /\ DOMAIN upload' = 1..(n + k)
        /\ \A p \in DOMAIN upload : upload'[p] = upload[p]
        /\ \A i \in 1..k : upload'[n + i] = Uploads[i]
    BY UploadsQueued
  <2>2. CASE q \in DOMAIN upload BY <1>3, <2>1, <2>2 DEF Untargeted
  <2>3. CASE q \notin DOMAIN upload
    <3> DEFINE i == q - n
    <3>1. i \in 1..k /\ q = n + i BY <2>1, <2>3
    <3>2. upload'[q] = Uploads[i] BY <2>1, <3>1
    <3>3. /\ Len(Copies) \in Nat /\ Len(Uploads) = Len(Copies) + 2
          /\ Len(Copies) = 0 \/ Len(Copies) = Len(misses)
          /\ DOMAIN misses = 1..Len(misses)
          /\ \A p \in 1..Len(Copies) : Uploads[p] = Copy(p, misses[p].slot)
          /\ Uploads[Len(Copies) + 1] = MapCopy /\ Uploads[Len(Copies) + 2] = Record(Token)
      BY UploadsShape
    <3>4. MapCopy.op = "map" /\ Record(Token).op = "record" BY DEF MapCopy, Record
    <3>5. CASE i \in 1..Len(Copies)
      <4>1. i \in DOMAIN misses /\ Uploads[i] = Copy(i, misses[i].slot) BY <3>3, <3>5
      <4>2. s # misses[i].slot BY <1>1, <4>1, MissSlot
      <4> QED BY <3>2, <4>1, <4>2 DEF CopiesTo, Copy
    <3>6. CASE i \notin 1..Len(Copies)
      <4>1. i = Len(Copies) + 1 \/ i = Len(Copies) + 2 BY <3>1, <3>3, <3>6
      <4> QED BY <3>2, <3>3, <3>4, <4>1 DEF CopiesTo
    <3> QED BY <3>5, <3>6
  <2> QED BY <2>2, <2>3
<1>6. Untargeted(map_staging[e])' BY <1>4, <1>5 DEF Untargeted
<1> QED BY <1>1, <1>3, <1>4, <1>6 DEF Loaded

\* All of a sequence is one of its prefixes.
LEMMA WholePrefix ==
  ASSUME NEW S, NEW u \in Seq(S)
  PROVE  SubSeq(u, 1, Len(u)) = u /\ Len(u) \in 0..Len(u)
OBVIOUS

\* The host pager copies no records.
LEMMA HostCopiesNothing ==
  ASSUME PagingInv, pc = "publish", NEW k \in 0..Len(Uploads),
         upload' = upload \o SubSeq(Uploads, 1, k), pager = "host", NEW q \in DOMAIN upload'
  PROVE  upload'[q].op # "copy"
<1> DEFINE n == Len(upload)
<1>1. /\ n \in Nat /\ DOMAIN upload = 1..n /\ DOMAIN upload' = 1..(n + k)
      /\ \A p \in DOMAIN upload : upload'[p] = upload[p]
      /\ \A i \in 1..k : upload'[n + i] = Uploads[i]
  BY UploadsQueued
<1>2. CASE q \in DOMAIN upload BY <1>1, <1>2 DEF PagingInv, Records
<1>3. CASE q \notin DOMAIN upload
  <2> DEFINE i == q - n
  <2>1. i \in 1..k /\ q = n + i BY <1>1, <1>3
  <2>2. /\ Len(Copies) = 0 /\ Len(Uploads) = 2
        /\ Uploads[1] = MapCopy /\ Uploads[2] = Record(Token)
    BY UploadsShape
  <2>3. MapCopy.op = "map" /\ Record(Token).op = "record" BY DEF MapCopy, Record
  <2>4. i = 1 \/ i = 2 BY <2>1, <2>2
  <2> QED BY <1>1, <2>1, <2>2, <2>3, <2>4
<1> QED BY <1>2, <1>3

LEMMA PublishFailsHolds ==
  ASSUME PagingInv, PublishFails, PlanInv'
  PROVE  PagingInv'
<1>1. /\ UNCHANGED <<infer, staging, device_map, slot_data, slot_indices>>
      /\ pc = "publish" /\ FailResolve(pager = "host")
  BY DEF PublishFails, device
<1>2. PICK k \in 0..Len(Uploads) :
        /\ upload' = upload \o SubSeq(Uploads, 1, k)
        /\ map_staging' = IF k < Len(Copies) THEN map_staging ELSE expert_to_slot
  BY DEF PublishFails
<1> DEFINE d == pager = "host"
<1>3. d \in BOOLEAN /\ FailResolve(d) BY <1>1
<1> HIDE DEF d
<1>4. /\ misses' = <<>> /\ pc' = "idle" /\ UNCHANGED <<pager, inflight>>
  BY <1>3, FailForgets
<1>5. map_staging' = map_staging \/ map_staging' = expert_to_slot BY <1>2
<1>6. StreamTypes'
  <2>1. <<>> \in Seq(Miss) OBVIOUS
  <2>2. misses' \in Seq(Miss) BY <1>4, <2>1
  <2>3. upload' \in Seq(UploadOp) BY <1>1, <1>2, UploadsQueued
  <2>4. map_staging' \in [Experts -> MaybeSlot] BY <1>5 DEF PagingInv, PlanInv, StreamTypes
  <2> QED BY <1>1, <1>4, <2>2, <2>3, <2>4 DEF PagingInv, StreamTypes
<1>7. Misses' /\ Records' /\ Resident' /\ Awaited'
  <2>1. pager = "host" => \A q \in DOMAIN upload' : upload'[q].op # "copy"
    BY <1>1, <1>2, HostCopiesNothing
  <2>2. \A e \in Experts : expert_to_slot[e] # None /\ e \notin unfilled \cup Planned =>
          Loaded(e)' /\ map_staging'[e] = expert_to_slot[e]
    BY <1>1, <1>2, <1>5, UploadsKeep
  <2> QED BY <1>1, <1>3, <2>1, <2>2, FailKeeps
<1> QED BY <1>6, <1>7 DEF PagingInv

\* Once published, a miss is loaded: its record is in its slot or the last copy to it.
LEMMA PublishLoads ==
  ASSUME PagingInv, Publish, NEW i \in DOMAIN misses, NEW e, e = Missing(i)
  PROVE  Loaded(e)' /\ map_staging'[e] = expert_to_slot[e]
<1>1. /\ UNCHANGED <<staging, device_map, slot_data>> /\ pc = "publish" /\ inflight'
      /\ map_staging' = expert_to_slot /\ upload' = upload \o Uploads
  BY DEF Publish, device
<1> DEFINE s == misses[i].slot
           n == Len(upload)
           m == Len(Copies)
<1>2. misses[i] \in Miss BY DEF PagingInv, StreamTypes
<1>3. s \in Slots /\ e \in Experts BY <1>2 DEF Miss, Missing
<1>4. map_staging'[e] = s BY <1>1 DEF PagingInv, Misses, Missing
<1>5. /\ m \in Nat /\ DOMAIN misses = 1..Len(misses) /\ Len(misses) \in Nat
      /\ m = IF pager = "staged" THEN Len(misses) ELSE 0
      /\ Uploads \in Seq(UploadOp) /\ Len(Uploads) = m + 2
      /\ \A p \in 1..m : Uploads[p] = Copy(p, misses[p].slot)
      /\ Uploads[m + 1] = MapCopy /\ Uploads[m + 2] = Record(Token)
  BY <1>1, UploadsShape
<1>6. upload' = upload \o SubSeq(Uploads, 1, Len(Uploads)) /\ Len(Uploads) \in 0..Len(Uploads)
  BY <1>1, <1>5, WholePrefix
<1>7. /\ n \in Nat /\ DOMAIN upload = 1..n /\ DOMAIN upload' = 1..(n + (m + 2))
      /\ \A p \in 1..(m + 2) : upload'[n + p] = Uploads[p]
  BY <1>1, <1>5, <1>6, UploadsQueued
<1>8. n + (m + 1) \in DOMAIN upload' /\ upload'[n + (m + 1)] = MapCopy
  <2>1. m + 1 \in 1..(m + 2) /\ n + (m + 1) \in 1..(n + (m + 2)) BY <1>5, <1>7
  <2> HIDE DEF n, m
  <2> QED BY <1>5, <1>7, <2>1
<1>9. \/ slot_data[s] = e /\ \A q \in DOMAIN upload' : ~CopiesTo(upload'[q], s)
      \/ \E q \in DOMAIN upload' :
           /\ CopiesTo(upload'[q], s) /\ staging[upload'[q].buffer] = e
           /\ \A k \in DOMAIN upload' : k > q => ~CopiesTo(upload'[k], s)
  <2>1. CASE pager = "host"
    <3>1. slot_data[s] = e BY <1>1, <2>1 DEF PagingInv, Records, Missing
    <3>2. \A q \in DOMAIN upload' : upload'[q].op # "copy" BY <1>1, <1>6, <2>1, HostCopiesNothing
    <3> QED BY <3>1, <3>2 DEF CopiesTo
  <2>2. CASE pager = "staged"
    <3> DEFINE q == n + i
    <3>1. i \in 1..m /\ q \in DOMAIN upload' BY <1>5, <1>7, <2>2
    <3>2. upload'[q] = Copy(i, s)
      <4>1. i \in 1..(m + 2) BY <1>5, <3>1
      <4>2. upload'[q] = Uploads[i] BY <1>7, <4>1
      <4> QED BY <1>5, <3>1, <4>2
    <3>3. CopiesTo(upload'[q], s) /\ staging[upload'[q].buffer] = e
      BY <1>1, <2>2, <3>2 DEF CopiesTo, Copy, PagingInv, Records, Missing
    <3>4. ASSUME NEW k \in DOMAIN upload', k > q PROVE ~CopiesTo(upload'[k], s)
      <4> DEFINE p == k - n
      <4>1. p \in 1..(m + 2) /\ k = n + p /\ p # i BY <1>5, <1>7, <3>1, <3>4
      <4>2. upload'[k] = Uploads[p] BY <1>7, <4>1
      <4>3. CASE p \in 1..m
        <5>1. p \in DOMAIN misses /\ Uploads[p] = Copy(p, misses[p].slot) BY <1>5, <2>2, <4>3
        <5>2. misses[p].slot # s BY <4>1, <5>1 DEF PagingInv, Misses
        <5> QED BY <4>2, <5>1, <5>2 DEF CopiesTo, Copy
      <4>4. CASE p \notin 1..m
        <5>1. p = m + 1 \/ p = m + 2 BY <1>5, <4>1, <4>4
        <5>2. MapCopy.op = "map" /\ Record(Token).op = "record" BY DEF MapCopy, Record
        <5> QED BY <1>5, <4>2, <5>1, <5>2 DEF CopiesTo
      <4> QED BY <4>3, <4>4
    <3> QED BY <3>1, <3>3, <3>4
  <2> QED BY <2>1, <2>2 DEF PagingInv, StreamTypes, Pagers
<1> HIDE DEF s, n, m
<1>10. Loaded(e)' BY <1>1, <1>3, <1>4, <1>8, <1>9 DEF Loaded, Untargeted
<1> QED BY <1>1, <1>10

\* So every expert with a slot is, but those still unfilled.
LEMMA PublishFills ==
  ASSUME PagingInv, Publish, NEW e \in Experts, expert_to_slot[e] # None, e \notin unfilled'
  PROVE  Loaded(e)' /\ map_staging'[e] = expert_to_slot[e]
<1>1. /\ UNCHANGED <<device_map, slot_data>> /\ pc = "publish"
      /\ map_staging' = expert_to_slot /\ upload' = upload \o Uploads
      /\ unfilled' = unfilled \ Planned
  BY DEF Publish, device
<1>2. CASE e \in Planned BY <1>2, PublishLoads DEF Planned
<1>3. CASE e \notin Planned
  <2>1. Uploads \in Seq(UploadOp) BY <1>1, UploadsShape
  <2>2. upload' = upload \o SubSeq(Uploads, 1, Len(Uploads)) /\ Len(Uploads) \in 0..Len(Uploads)
    BY <1>1, <2>1, WholePrefix
  <2> QED BY <1>1, <1>3, <2>2, UploadsKeep
<1> QED BY <1>2, <1>3

\* What Publish queues: the wait for its record, then the kernels of the route.
LEMMA PublishQueued ==
  ASSUME PagingInv, Publish
  PROVE  /\ upload' \in Seq(UploadOp) /\ upload' # <<>> /\ upload'[Len(upload')] = Record(Token)
         /\ \A q \in DOMAIN upload : q \in DOMAIN upload' /\ upload'[q] = upload[q]
         /\ infer' \in Seq(InferOp) /\ Len(infer) \in Nat /\ DOMAIN infer = 1..Len(infer)
         /\ DOMAIN infer' = 1..(Len(infer) + 3)
         /\ \A k \in DOMAIN infer : infer'[k] = infer[k]
         /\ infer'[Len(infer) + 1] = Wait(Token)
         /\ infer'[Len(infer) + 2] = Remap(Route) /\ infer'[Len(infer) + 3] = Run(Route)
<1>1. /\ pc = "publish" /\ upload' = upload \o Uploads
      /\ infer' = infer \o <<Wait(Token)>> \o Launch /\ NextGroup
  BY DEF Publish
<1>2. Route \in AllRoutes BY <1>1, GroupDone
<1>3. /\ Token \in Nat /\ Uploads \in Seq(UploadOp) /\ Len(Copies) \in Nat
      /\ Len(Uploads) = Len(Copies) + 2 /\ Uploads[Len(Copies) + 2] = Record(Token)
  BY <1>1, UploadsShape
<1>4. upload' = upload \o SubSeq(Uploads, 1, Len(Uploads)) /\ Len(Uploads) \in 0..Len(Uploads)
  BY <1>1, <1>3, WholePrefix
<1>5. /\ upload' \in Seq(UploadOp) /\ upload' # <<>> /\ upload'[Len(upload')] = Record(Token)
      /\ \A q \in DOMAIN upload : q \in DOMAIN upload' /\ upload'[q] = upload[q]
  <2>1. /\ upload' \in Seq(UploadOp) /\ Len(upload) \in Nat /\ DOMAIN upload = 1..Len(upload)
        /\ Len(upload') = Len(upload) + Len(Uploads)
        /\ DOMAIN upload' = 1..(Len(upload) + Len(Uploads))
        /\ \A q \in DOMAIN upload : upload'[q] = upload[q]
        /\ \A i \in 1..Len(Uploads) : upload'[Len(upload) + i] = Uploads[i]
    BY <1>1, <1>4, UploadsQueued
  <2>2. Len(Uploads) \in 1..Len(Uploads) BY <1>3
  <2>3. upload'[Len(upload')] = Uploads[Len(Uploads)] BY <2>1, <2>2
  <2>4. Len(upload') # 0 BY <1>3, <2>1
  <2> QED BY <1>3, <2>1, <2>3, <2>4
<1> DEFINE w == Wait(Token)
           p == Append(infer, w)
           n == Len(infer)
<1>6. w \in InferOp BY <1>3 DEF Wait, InferOp, Sync
<1>7. infer \in Seq(InferOp) BY DEF PagingInv, StreamTypes
<1>8. infer' = p \o Launch
  <2>1. infer' = (infer \o <<w>>) \o Launch BY <1>1
  <2> HIDE DEF w
  <2>2. infer \o <<w>> = p BY <1>6, <1>7
  <2> QED BY <2>1, <2>2
<1>9. /\ p \in Seq(InferOp) /\ n \in Nat /\ Len(p) = n + 1 /\ DOMAIN p = 1..(n + 1)
      /\ DOMAIN infer = 1..n /\ p[n + 1] = w /\ \A k \in 1..n : p[k] = infer[k]
  <2> HIDE DEF w
  <2> QED BY <1>6, <1>7
<1> HIDE DEF w, p
<1>10. /\ infer' \in Seq(InferOp) /\ DOMAIN infer' = 1..(n + 3)
       /\ \A k \in 1..(n + 1) : infer'[k] = p[k]
       /\ infer'[n + 2] = Remap(Route) /\ infer'[n + 3] = Run(Route)
  <2>1. /\ p \o Launch \in Seq(InferOp) /\ DOMAIN (p \o Launch) = 1..(Len(p) + 2)
        /\ \A k \in 1..Len(p) : (p \o Launch)[k] = p[k]
        /\ (p \o Launch)[Len(p) + 1] = Remap(Route) /\ (p \o Launch)[Len(p) + 2] = Run(Route)
    BY <1>2, <1>9, LaunchBehind
  <2>2. Len(p) + 1 = n + 2 /\ Len(p) + 2 = n + 3 BY <1>9
  <2> QED BY <1>8, <1>9, <2>1, <2>2
<1>11. infer'[n + 1] = w /\ \A k \in DOMAIN infer : infer'[k] = infer[k] BY <1>9, <1>10
<1> QED BY <1>5, <1>9, <1>10, <1>11 DEF w

LEMMA PublishHolds ==
  ASSUME PagingInv, Publish, PlanInv'
  PROVE  PagingInv'
<1>1. /\ UNCHANGED <<pager, expert_to_slot, slot_to_expert, staging, device_map, slot_data>>
      /\ pc = "publish" /\ inflight' = TRUE /\ map_staging' = expert_to_slot
      /\ upload' = upload \o Uploads /\ NextGroup
  BY DEF Publish, cache, device
<1>2. pc' \in {"idle", "resolve"} /\ misses' = <<>> BY <1>1, GroupDone
<1>3. StreamTypes'
  <2>1. <<>> \in Seq(Miss) OBVIOUS
  <2>2. misses' \in Seq(Miss) BY <1>2, <2>1
  <2>3. inflight' \in BOOLEAN BY <1>1, Zenon
  <2>4. map_staging' \in [Experts -> MaybeSlot] BY <1>1 DEF PagingInv, PlanInv
  <2>5. infer' \in Seq(InferOp) /\ upload' \in Seq(UploadOp) BY PublishQueued
  <2> QED BY <1>1, <1>2, <2>2, <2>3, <2>4, <2>5 DEF PagingInv, StreamTypes
<1>4. Misses' BY <1>2 DEF Misses
<1>5. Records'
  <2>1. Uploads \in Seq(UploadOp) BY <1>1, UploadsShape
  <2>2. upload' = upload \o SubSeq(Uploads, 1, Len(Uploads)) /\ Len(Uploads) \in 0..Len(Uploads)
    BY <1>1, <2>1, WholePrefix
  <2>3. pager = "host" => \A q \in DOMAIN upload' : upload'[q].op # "copy"
    BY <1>1, <2>2, HostCopiesNothing
  <2> QED BY <1>1, <1>2, <2>3 DEF Records
<1>6. Resident' BY <1>1, PublishFills DEF Resident
<1>7. Awaited'
  <2>1. Wait(Token).op = "wait" /\ Wait(Token).token = Token BY DEF Wait
  <2>2. Len(infer) + 1 \in DOMAIN infer' BY PublishQueued
  <2> QED BY <2>1, <2>2, PublishQueued DEF Awaited, AwaitedAt
<1> QED BY <1>3, <1>4, <1>5, <1>6, <1>7 DEF PagingInv

-----------------------------------------------------------------------------
(***************************************************************************)
(* Every step.                                                             *)
(***************************************************************************)
LEMMA PagingStep == PagingInv /\ [PagingNext]_pagingVars => PagingInv'
<1> SUFFICES ASSUME PagingInv, [PagingNext]_pagingVars PROVE PagingInv'
  OBVIOUS
<1>1. PlanInv' BY PlanStep DEF PagingInv
<1>2. CASE StartPass BY <1>1, <1>2, StartHolds
<1>3. CASE BeginResolve BY <1>1, <1>3, BeginHolds
<1>4. CASE PlanHit BY <1>1, <1>4, HitHolds
<1>5. CASE PlanMiss BY <1>1, <1>5, MissHolds
<1>6. CASE AllHits BY <1>1, <1>6, AllHitsHolds
<1>7. CASE ReleaseSlots BY <1>1, <1>7, ReleaseHolds
<1>8. CASE ReleaseFails BY <1>1, <1>8, ReleaseFailsHolds
<1>9. CASE ReadRecords BY <1>1, <1>9, ReadHolds
<1>10. CASE ReadFails BY <1>1, <1>10, ReadFailsHolds
<1>11. CASE Publish BY <1>1, <1>11, PublishHolds
<1>12. CASE PublishFails BY <1>1, <1>12, PublishFailsHolds
<1>13. CASE Inferred BY <1>1, <1>13, InferHolds
<1>14. CASE Uploaded BY <1>1, <1>14, UploadHolds
<1>15. CASE UNCHANGED pagingVars
  <2>1. UNCHANGED <<pager, pc, groups, todo, protected, misses, expert_to_slot, slot_to_expert,
                    inflight, unfilled, pinned, infer, upload, device>>
    BY <1>15 DEF pagingVars, host, cache, uploads
  <2>2. UNCHANGED <<map_staging, staging, device_map, slot_data>> BY <2>1 DEF pinned, device
  <2>3. StreamTypes' BY <2>1, <2>2 DEF PagingInv, StreamTypes
  <2>4. Misses' BY <2>1 DEF PagingInv, Misses, Route, Range
  <2>5. Records' BY <2>1, <2>2 DEF PagingInv, Records
  <2>6. Resident' BY <2>1, <2>2, LoadedStays DEF PagingInv, Resident, Planned, Missing
  <2> QED BY <1>1, <2>1, <2>3, <2>4, <2>5, <2>6, AwaitedStays DEF PagingInv
<1> QED
  BY <1>2, <1>3, <1>4, <1>5, <1>6, <1>7, <1>8, <1>9, <1>10, <1>11, <1>12, <1>13, <1>14, <1>15
  DEF PagingNext, Host, Device, Inferred, Uploaded

-----------------------------------------------------------------------------
(***************************************************************************)
(* The queued kernels: what their experts' places depend on.               *)
(***************************************************************************)

\* The experts of a queued kernel are experts of the layer.
LEMMA KernelRoutes ==
  ASSUME PagingInv, NEW j \in DOMAIN infer, Kernel(infer[j])
  PROVE  infer[j].route \in AllRoutes /\ \A i \in DOMAIN infer[j].route : infer[j].route[i] \in Experts
<1>1. infer[j] \in InferOp BY DEF PagingInv, StreamTypes
<1>2. infer[j].route \in AllRoutes BY <1>1 DEF Kernel, InferOp, Sync
<1>3. PICK n \in 1..TopK : infer[j].route \in [1..n -> Experts] BY <1>2, RouteShape
<1> QED BY <1>2, <1>3

\* The host only adds work to the streams.
Longer ==
  /\ \A k \in DOMAIN infer : k \in DOMAIN infer' /\ infer'[k] = infer[k]
  /\ \A q \in DOMAIN upload : q \in DOMAIN upload' /\ upload'[q] = upload[q]

LEMMA GatesStay ==
  ASSUME Longer, NEW j, NEW q \in DOMAIN upload, Gate(j, q)
  PROVE  Gate(j, q)'
BY DEF Longer, Gate

\* An expert in place stays there when nothing that disturbs it is added but behind a gate.
LEMMA SettledStays ==
  ASSUME PagingInv, Longer, UNCHANGED <<device_map, slot_data>>,
         map_staging' = map_staging \/ \A q \in DOMAIN upload : upload[q] # MapCopy,
         NEW j, NEW e, Settled(e, j),
         \A q \in DOMAIN upload' : q \notin DOMAIN upload =>
           upload'[q].op \notin {"copy", "map"} \/ \E p \in 1..(q - 1) : Gate(j, p)'
  PROVE  Settled(e, j)'
<1>1. device_map'[e] \in Slots /\ slot_data'[device_map'[e]] = e BY DEF Settled
<1>2. ASSUME NEW q \in DOMAIN upload', Disturbs(upload[q], e)' PROVE \E p \in 1..(q - 1) : Gate(j, p)'
  <2>1. CASE q \in DOMAIN upload
    <3>1. Disturbs(upload[q], e) BY <1>2, <2>1 DEF Disturbs, Longer
    <3>2. PICK p \in 1..(q - 1) : Gate(j, p) BY <2>1, <3>1 DEF Settled
    <3>3. upload \in Seq(UploadOp) BY DEF PagingInv, StreamTypes
    <3>4. p \in DOMAIN upload BY <2>1, <3>3
    <3> QED BY <3>2, <3>4, GatesStay
  <2>2. CASE q \notin DOMAIN upload
    <3>1. upload'[q].op \in {"copy", "map"} BY <1>2 DEF Disturbs, CopiesTo, MapCopy
    <3> QED BY <2>2, <3>1
  <2> QED BY <2>1, <2>2
<1> QED BY <1>1, <1>2 DEF Settled

\* What the host does while no uploads are in flight leaves the queued kernels their experts.
LEMMA KernelsStay ==
  ASSUME PagingInv, KernelsLoaded, ~inflight \/ upload = <<>>, Longer,
         UNCHANGED <<device_map, slot_data>>, unfilled \subseteq unfilled',
         map_staging' = map_staging \/ \A q \in DOMAIN upload : upload[q] # MapCopy,
         \A j \in DOMAIN infer' : Kernel(infer'[j]) => j \in DOMAIN infer,
         \A j \in DOMAIN infer, q \in DOMAIN upload' : Kernel(infer[j]) /\ q \notin DOMAIN upload =>
           upload'[q].op \notin {"copy", "map"} \/ \E p \in 1..(q - 1) : Gate(j, p)'
  PROVE  KernelsLoaded'
<1>1. ASSUME NEW j \in DOMAIN infer', NEW e \in Experts, Reads(j, e)'
      PROVE  e \in unfilled' \/ Settled(e, j)'
  <2>1. j \in DOMAIN infer /\ infer'[j] = infer[j] BY <1>1 DEF Reads, Longer
  <2>2. Reads(j, e) /\ Kernel(infer[j]) BY <1>1, <2>1 DEF Reads
  <2>3. e \in unfilled \/ Settled(e, j) BY <2>1, <2>2 DEF KernelsLoaded, Late
  <2>4. ASSUME Settled(e, j) PROVE Settled(e, j)' BY <2>1, <2>2, <2>4, SettledStays
  <2> QED BY <2>3, <2>4
<1> QED BY <1>1 DEF KernelsLoaded

\* Every run stays behind its remap, and the first kernel keeps its indices.
LEMMA RemapsStay ==
  ASSUME PagingInv, Remapped, Longer, infer' \in Seq(InferOp), UNCHANGED <<device_map, slot_indices>>,
         \A e \in Experts : Reads(1, e) /\ e \in unfilled => e \in unfilled',
         \A j \in DOMAIN infer' : j \notin DOMAIN infer /\ infer'[j].op = "run" =>
           j > 1 /\ infer'[j - 1] = Remap(infer'[j].route)
  PROVE  Remapped'
<1>1. infer \in Seq(InferOp) BY DEF PagingInv, StreamTypes
<1>2. ASSUME NEW j \in DOMAIN infer', j > 1, infer'[j].op = "run"
      PROVE  infer'[j - 1] = Remap(infer'[j].route)
  <2>1. CASE j \in DOMAIN infer
    <3>1. j - 1 \in DOMAIN infer BY <1>1, <1>2, <2>1
    <3> QED BY <1>2, <2>1, <3>1 DEF Longer, Remapped
  <2> QED BY <1>2, <2>1
<1>3. ASSUME infer' # <<>>, infer'[1].op = "run", NEW i \in DOMAIN infer'[1].route
      PROVE  infer'[1].route[i] \in unfilled' \/ slot_indices'[i] = device_map'[infer'[1].route[i]]
  <2>1. 1 \in DOMAIN infer' BY <1>3, Popped
  <2>2. 1 \in DOMAIN infer BY <1>3, <2>1
  <2>3. infer'[1] = infer[1] /\ infer # <<>> BY <1>1, <2>2 DEF Longer
  <2>4. infer[1].route[i] \in unfilled \/ slot_indices[i] = device_map[infer[1].route[i]]
    BY <1>3, <2>3 DEF Remapped
  <2>5. Kernel(infer[1]) BY <1>3, <2>3 DEF Kernel
  <2>6. infer[1].route[i] \in Experts BY <1>3, <2>2, <2>3, <2>5, KernelRoutes
  <2>7. Reads(1, infer[1].route[i]) BY <1>3, <2>3, <2>5 DEF Reads
  <2> QED BY <2>3, <2>4, <2>6, <2>7
<1> QED BY <1>2, <1>3 DEF Remapped

-----------------------------------------------------------------------------
(***************************************************************************)
(* The queued kernels and the device.                                      *)
(***************************************************************************)

\* A gate is still shut one operation later, and the kernel one position closer.
LEMMA GatesMove ==
  ASSUME PagingInv, Inferred, NEW j \in Nat, NEW q, Gate(j + 1, q)
  PROVE  Gate(j, q)'
<1>1. PICK k \in DOMAIN infer : k > j + 1 /\ infer[k] = Record(upload[q].token) BY DEF Gate
<1>2. k - 1 \in DOMAIN infer' /\ infer'[k - 1] = infer[k] /\ k - 1 > j
  BY <1>1, InferSteps, InferPops
<1> QED BY <1>1, <1>2, InferSteps DEF Gate

LEMMA InferKernels ==
  ASSUME PagingInv, KernelInv, Inferred
  PROVE  KernelInv'
<1>1. /\ Head(infer) = infer[1] /\ Len(infer) \in Nat \ {0} /\ DOMAIN infer = 1..Len(infer)
      /\ infer' \in Seq(InferOp) /\ Len(infer') = Len(infer) - 1
      /\ DOMAIN infer' = 1..(Len(infer) - 1)
      /\ \A k \in DOMAIN infer' : infer'[k] = infer[k + 1] /\ k + 1 \in DOMAIN infer
  BY InferSteps, InferPops
<1>2. /\ UNCHANGED <<pager, pc, groups, misses, expert_to_slot, inflight, unfilled, map_staging,
                     staging, upload, device_map, slot_data>>
  BY InferSteps
<1>3. \A j \in DOMAIN infer', e \in Experts : Reads(j, e)' => Reads(j + 1, e) BY <1>1 DEF Reads
<1>4. KernelsLoaded'
  <2>1. ASSUME NEW j \in DOMAIN infer', NEW e \in Experts, Settled(e, j + 1) PROVE Settled(e, j)'
    <3>1. \A q \in DOMAIN upload : Disturbs(upload[q], e)' <=> Disturbs(upload[q], e)
      BY <1>2 DEF Disturbs
    <3>2. j \in Nat BY <1>1
    <3>3. \A q : Gate(j + 1, q) => Gate(j, q)' BY <3>2, GatesMove
    <3> QED BY <1>2, <2>1, <3>1, <3>3 DEF Settled
  <2>2. ASSUME NEW j \in DOMAIN infer', Late(j + 1) PROVE Late(j)'
    <3>1. PICK k \in 1..j : AwaitedAt(k) BY <1>1, <2>2 DEF Late
    <3>2. k \in DOMAIN infer /\ upload # <<>> BY <1>1, <2>2, <3>1 DEF Late
    <3>3. k - 1 \in DOMAIN infer' /\ AwaitedAt(k - 1)' BY <3>1, <3>2, AwaitedBehind
    <3>4. k - 1 \in 1..(j - 1) BY <1>1, <3>1, <3>3
    <3> QED BY <1>2, <2>2, <3>3, <3>4 DEF Late
  <2>3. \A e : Loaded(e)' <=> Loaded(e) BY <1>2 DEF Loaded, Untargeted
  <2>4. ASSUME NEW j \in DOMAIN infer', NEW e \in Experts, Reads(j, e)'
        PROVE  e \in unfilled' \/ Settled(e, j)' \/ (Late(j)' /\ Loaded(e)')
    <3>1. e \in unfilled \/ Settled(e, j + 1) \/ (Late(j + 1) /\ Loaded(e))
      BY <1>1, <1>3, <2>4 DEF KernelInv, KernelsLoaded
    <3> QED BY <1>2, <2>1, <2>2, <2>3, <3>1
  <2> QED BY <2>4 DEF KernelsLoaded
<1>5. NoStaleMap' BY <1>2 DEF KernelInv, NoStaleMap
<1>6. Drained'
  <2>1. NoKernels => NoKernels' BY <1>1 DEF NoKernels
  <2>2. Released => NoKernels' \/ Released'
    <3>1. CASE Len(infer) = 1 BY <1>1, <3>1 DEF NoKernels
    <3>2. CASE Len(infer) # 1
      <4>1. Len(infer') \in DOMAIN infer' /\ Len(infer') + 1 = Len(infer) BY <1>1, <3>2
      <4>2. infer'[Len(infer')] = infer[Len(infer)] /\ infer' # <<>> BY <1>1, <4>1
      <4> QED BY <1>2, <4>2 DEF Released
    <3> QED BY <3>1, <3>2
  <2> QED BY <1>2, <2>1, <2>2 DEF KernelInv, Drained
<1>7. Kept'
  <2>1. \A j \in DOMAIN infer' : Gated(j + 1) => Gated(j)'
    <3> SUFFICES ASSUME NEW j \in DOMAIN infer', NEW q \in DOMAIN upload, Gate(j + 1, q)
                 PROVE  Gate(j, q)'
      BY <1>2 DEF Gated
    <3>1. j \in Nat BY <1>1
    <3> QED BY <3>1, GatesMove
  <2>2. Range(Route)' = Range(Route) /\ Planned' = Planned
    BY <1>2 DEF Route, Range, Planned, Missing
  <2>3. ASSUME NEW j \in DOMAIN infer', NEW e \in Experts, Reads(j, e)'
        PROVE  /\ pc = "resolve" => expert_to_slot[e] # None \/ (inflight /\ Gated(j + 1))
               /\ pc = "plan" /\ (misses = <<>> \/ e \in Range(Route)) => expert_to_slot[e] # None
               /\ pc \in {"plan", "read", "publish"} => e \notin Planned
    BY <1>1, <1>3, <2>3 DEF KernelInv, Kept
  <2> QED BY <1>2, <2>1, <2>2, <2>3 DEF Kept
<1>8. Remapped'
  <2>1. ASSUME NEW j \in DOMAIN infer', j > 1, infer'[j].op = "run"
        PROVE  infer'[j - 1] = Remap(infer'[j].route)
    <3>1. j + 1 \in DOMAIN infer /\ j + 1 > 1 /\ infer'[j] = infer[j + 1] BY <1>1
    <3>2. j - 1 \in DOMAIN infer' /\ infer'[j - 1] = infer[(j + 1) - 1] BY <1>1, <2>1
    <3> QED BY <2>1, <3>1, <3>2 DEF KernelInv, Remapped
  <2>2. ASSUME infer' # <<>>, infer'[1].op = "run", NEW i \in DOMAIN infer'[1].route
        PROVE  slot_indices'[i] = device_map'[infer'[1].route[i]]
    <3>1. 2 \in DOMAIN infer /\ infer'[1] = infer[2] BY <1>1, <2>2
    <3>2. Head(infer) = Remap(infer[2].route)
      <4>1. infer[2].op = "run" /\ 2 > 1 /\ 2 - 1 = 1 BY <2>2, <3>1
      <4>2. infer[2 - 1] = Remap(infer[2].route) BY <3>1, <4>1 DEF KernelInv, Remapped
      <4> QED BY <1>1, <4>1, <4>2
    <3>3. Head(infer).op = "remap" /\ Head(infer).route = infer[2].route BY <3>2 DEF Remap
    <3>4. slot_indices' = [k \in DOMAIN Head(infer).route |-> device_map[Head(infer).route[k]]]
      BY <3>3 DEF Inferred, InferRecord, InferWait, InferRemap, InferRun
    <3> QED BY <1>2, <2>2, <3>1, <3>3, <3>4
  <2> QED BY <2>1, <2>2 DEF Remapped
<1> QED BY <1>4, <1>5, <1>6, <1>7, <1>8 DEF KernelInv

\* The upload stream does not get past a gate.
LEMMA GatesHold ==
  ASSUME PagingInv, Uploaded, NEW j, NEW q \in DOMAIN upload, Gate(j, q)
  PROVE  q # 1 /\ q - 1 \in DOMAIN upload' /\ Gate(j, q - 1)'
<1>1. q # 1
  <2> SUFFICES ASSUME q = 1 PROVE FALSE OBVIOUS
  <2>1. Head(upload).op = "wait" /\ Pending(infer, Head(upload).token)
    BY UploadSteps DEF Gate, Pending
  <2> QED BY <2>1 DEF Uploaded, UploadSync, UploadRecord, UploadMap
<1>2. q - 1 \in DOMAIN upload' /\ upload'[q - 1] = upload[q] BY <1>1, UploadSteps
<1> QED BY <1>1, <1>2, UploadSteps DEF Gate

\* So it does not disturb an expert in place.
LEMMA SettledHolds ==
  ASSUME PagingInv, Uploaded, NEW j, NEW e \in Experts, Settled(e, j)
  PROVE  Settled(e, j)' /\ device_map'[e] = device_map[e]
<1>1. ~Disturbs(Head(upload), e) BY UploadSteps DEF Settled
<1>2. device_map'[e] = device_map[e]
  <2>1. CASE UploadMap
    <3>1. Head(upload) \in UploadOp /\ Head(upload).op = "map"
      BY <2>1, UploadSteps DEF PagingInv, StreamTypes, UploadMap
    <3>2. Head(upload) = MapCopy BY <3>1 DEF UploadOp, Sync
    <3> QED BY <1>1, <2>1, <3>2 DEF UploadMap, Disturbs
  <2> QED BY <2>1 DEF Uploaded, UploadSync, UploadRecord, device
<1>3. slot_data'[device_map[e]] = e
  <2>1. slot_data[device_map[e]] = e /\ device_map[e] \in Slots BY DEF Settled
  <2>2. CASE UploadRecord
    <3>1. Head(upload).slot # device_map[e] BY <1>1, <2>2 DEF UploadRecord, Disturbs, CopiesTo
    <3> QED BY <2>1, <2>2, <3>1 DEF UploadRecord, PagingInv, StreamTypes
  <2> QED BY <2>1, <2>2 DEF Uploaded, UploadSync, UploadMap, device
<1>4. ASSUME NEW q \in DOMAIN upload', Disturbs(upload[q], e)'
      PROVE  \E p \in 1..(q - 1) : Gate(j, p)'
  <2>1. q + 1 \in DOMAIN upload /\ upload'[q] = upload[q + 1] /\ q \in Nat BY UploadSteps
  <2>2. map_staging' = map_staging BY UploadSteps
  <2>3. Disturbs(upload[q + 1], e) BY <1>2, <1>4, <2>1, <2>2 DEF Disturbs
  <2>4. PICK p \in 1..((q + 1) - 1) : Gate(j, p) BY <2>1, <2>3 DEF Settled
  <2>5. p \in DOMAIN upload BY <2>1, <2>4, UploadSteps
  <2>6. p # 1 /\ Gate(j, p - 1)' BY <2>4, <2>5, GatesHold
  <2>7. p - 1 \in 1..(q - 1) BY <2>1, <2>4, <2>6
  <2> QED BY <2>6, <2>7
<1>5. device_map'[e] \in Slots /\ slot_data'[device_map'[e]] = e BY <1>2, <1>3 DEF Settled
<1> QED BY <1>2, <1>4, <1>5 DEF Settled

LEMMA UploadKernels ==
  ASSUME PagingInv, KernelInv, Uploaded
  PROVE  KernelInv'
<1>1. /\ upload # <<>>
      /\ UNCHANGED <<pager, pc, groups, misses, expert_to_slot, inflight, unfilled, map_staging,
                     infer, slot_indices>>
      /\ Head(upload) = upload[1] /\ 1 \in DOMAIN upload /\ Len(upload) \in Nat \ {0}
      /\ DOMAIN upload = 1..Len(upload) /\ DOMAIN upload' = 1..(Len(upload) - 1)
      /\ upload' \in Seq(UploadOp) /\ Len(upload') = Len(upload) - 1
      /\ \A k \in 1..(Len(upload) - 1) : upload'[k] = upload[k + 1]
  BY UploadSteps
<1>2. upload' # <<>> => upload'[Len(upload')] = upload[Len(upload)]
  <2>1. upload' # <<>> => Len(upload') # 0 BY <1>1
  <2> QED BY <1>1, <2>1
<1>3. \A j, e : Reads(j, e)' <=> Reads(j, e) BY <1>1 DEF Reads
<1>4. KernelsLoaded'
  <2>1. ASSUME NEW j \in DOMAIN infer, NEW e \in Experts, Late(j), Loaded(e)
        PROVE  Settled(e, j)' \/ (Late(j)' /\ Loaded(e)')
    <3>1. Loaded(e)' BY <2>1, LoadedPops
    <3>2. CASE upload' = <<>>
      <4>1. /\ map_staging'[e] \in Slots /\ device_map'[e] = map_staging'[e]
            /\ slot_data'[map_staging'[e]] = e
        BY <3>1, <3>2 DEF Loaded
      <4> QED BY <3>2, <4>1 DEF Settled
    <3>3. CASE upload' # <<>>
      <4>1. Late(j)' BY <1>1, <1>2, <2>1, <3>3 DEF Late, AwaitedAt
      <4> QED BY <3>1, <4>1
    <3> QED BY <3>2, <3>3
  <2>2. ASSUME NEW j \in DOMAIN infer, NEW e \in Experts, Reads(j, e)
        PROVE  e \in unfilled \/ Settled(e, j)' \/ (Late(j)' /\ Loaded(e)')
    <3>1. e \in unfilled \/ Settled(e, j) \/ (Late(j) /\ Loaded(e))
      BY <2>2 DEF KernelInv, KernelsLoaded
    <3>2. Settled(e, j) => Settled(e, j)' BY SettledHolds
    <3> QED BY <2>1, <3>1, <3>2
  <2> QED BY <1>1, <1>3, <2>2 DEF KernelsLoaded
<1>5. NoStaleMap' BY <1>1 DEF KernelInv, NoStaleMap
<1>6. Drained'
  <2>1. NoKernels' <=> NoKernels BY <1>1 DEF NoKernels
  <2>2. Released => Released'
    <3> SUFFICES ASSUME Released, pager = "staged"
                 PROVE  upload' # <<>> /\ upload'[Len(upload')] = Wait(infer[Len(infer)].token)
      BY <1>1 DEF Released
    <3>1. upload[Len(upload)] = Wait(infer[Len(infer)].token) BY DEF Released
    <3>2. Len(upload) # 1
      <4> SUFFICES ASSUME Len(upload) = 1 PROVE FALSE OBVIOUS
      <4>1. Head(upload).op = "wait" /\ Head(upload).token = infer[Len(infer)].token
        BY <1>1, <3>1 DEF Wait
      <4>2. infer \in Seq(InferOp) /\ infer # <<>> BY DEF PagingInv, StreamTypes, Released
      <4>3. Len(infer) \in DOMAIN infer /\ infer[Len(infer)] \in InferOp BY <4>2, Popped
      <4>4. infer[Len(infer)] = Record(infer[Len(infer)].token)
        BY <4>3 DEF Released, InferOp, Sync, Record
      <4>5. Pending(infer, Head(upload).token) BY <4>1, <4>3, <4>4 DEF Pending
      <4> QED BY <4>1, <4>5 DEF Uploaded, UploadSync, UploadRecord, UploadMap
    <3>3. upload' # <<>> BY <1>1, <3>2
    <3> QED BY <1>2, <3>1, <3>3
  <2> QED BY <1>1, <2>1, <2>2 DEF KernelInv, Drained
<1>7. Kept'
  <2>1. \A j : Gated(j) => Gated(j)' BY GatesHold DEF Gated
  <2>2. Range(Route)' = Range(Route) /\ Planned' = Planned
    BY <1>1 DEF Route, Range, Planned, Missing
  <2> QED BY <1>1, <1>3, <2>1, <2>2 DEF KernelInv, Kept
<1>8. Remapped'
  <2>1. ASSUME infer # <<>>, infer[1].op = "run", NEW i \in DOMAIN infer[1].route
        PROVE  infer[1].route[i] \in unfilled \/ slot_indices[i] = device_map'[infer[1].route[i]]
    <3> DEFINE e == infer[1].route[i]
    <3>1. infer \in Seq(InferOp) BY DEF PagingInv, StreamTypes
    <3>2. 1 \in DOMAIN infer /\ Kernel(infer[1]) BY <2>1, <3>1, Popped DEF Kernel
    <3>3. e \in Experts /\ Reads(1, e) BY <2>1, <3>2, KernelRoutes DEF Reads
    <3>4. e \in unfilled \/ slot_indices[i] = device_map[e] BY <2>1 DEF KernelInv, Remapped
    <3> HIDE DEF e
    <3>5. ~Late(1) BY DEF Late
    <3>6. e \in unfilled \/ Settled(e, 1) BY <3>2, <3>3, <3>5 DEF KernelInv, KernelsLoaded
    <3>7. Settled(e, 1) => device_map'[e] = device_map[e] BY <3>3, SettledHolds
    <3>8. e \in unfilled \/ slot_indices[i] = device_map'[e] BY <3>4, <3>6, <3>7
    <3> QED BY <3>8 DEF e
  <2> QED BY <1>1, <2>1 DEF KernelInv, Remapped
<1> QED BY <1>4, <1>5, <1>6, <1>7, <1>8 DEF KernelInv

-----------------------------------------------------------------------------
(***************************************************************************)
(* The queued kernels and the host.                                        *)
(***************************************************************************)

\* A pass begins with an empty inference stream.
LEMMA StartKernels ==
  ASSUME PagingInv, KernelInv, StartPass
  PROVE  KernelInv'
<1>1. infer' = <<>> /\ pc' = "resolve" /\ UNCHANGED <<pager, inflight, upload>>
  BY DEF StartPass, uploads
<1>2. KernelsLoaded' /\ Drained' /\ Kept' /\ Remapped'
  BY <1>1 DEF KernelsLoaded, Drained, Kept, Remapped
<1>3. NoStaleMap' BY <1>1 DEF KernelInv, NoStaleMap
<1> QED BY <1>2, <1>3 DEF KernelInv

\* Once the staging buffers are reusable the upload stream is empty, so no gate is left and
\* no kernel is late.
LEMMA BeginKernels ==
  ASSUME PagingInv, KernelInv, BeginResolve
  PROVE  KernelInv'
<1>1. /\ UNCHANGED <<pager, groups, expert_to_slot, unfilled, map_staging, infer, upload, device_map,
                     slot_data, slot_indices>>
      /\ pc = "resolve" /\ pc' = "plan" /\ misses' = <<>>
  BY DEF BeginResolve, cache, pinned, device
<1>2. ~inflight \/ upload = <<>> BY ResolveAwaitsUploads
<1>3. Longer BY <1>1 DEF Longer
<1>4. KernelsLoaded' BY <1>1, <1>2, <1>3, KernelsStay DEF KernelInv
<1>5. NoStaleMap' BY <1>1, <1>2 DEF KernelInv, NoStaleMap
<1>6. Drained' BY <1>1 DEF Drained
<1>7. Kept'
  <2>1. Planned' = {} BY <1>1 DEF Planned
  <2>2. ASSUME NEW j \in DOMAIN infer, NEW e \in Experts, Reads(j, e)' PROVE expert_to_slot[e] # None
    <3>1. Reads(j, e) BY <1>1, <2>2 DEF Reads
    <3> QED BY <1>1, <1>2, <3>1 DEF KernelInv, Kept, Gated
  <2> QED BY <1>1, <2>1, <2>2 DEF Kept
<1>8. Remapped' BY <1>1 DEF KernelInv, Remapped
<1> QED BY <1>4, <1>5, <1>6, <1>7, <1>8 DEF KernelInv

\* A hit changes nothing a kernel depends on; a miss evicts no expert of the route, and is
\* none a queued kernel reads.
LEMMA PlanKernels ==
  ASSUME PagingInv, KernelInv, PlanHit \/ PlanMiss
  PROVE  KernelInv'
<1>1. /\ UNCHANGED <<pager, pc, groups, inflight, unfilled, map_staging, infer, upload, device_map,
                     slot_data, slot_indices>>
      /\ pc = "plan" /\ todo # <<>>
  BY DEF PlanHit, PlanMiss, Placed, uploads, pinned, device
<1>2. ~inflight BY <1>1 DEF PagingInv, Misses
<1>3. Longer BY <1>1 DEF Longer
<1>4. KernelsLoaded' BY <1>1, <1>2, <1>3, KernelsStay DEF KernelInv
<1>5. NoStaleMap' BY <1>1 DEF KernelInv, NoStaleMap
<1>6. Drained' BY <1>1 DEF Drained
<1>7. Range(Route)' = Range(Route) BY <1>1 DEF Route, Range
<1>8. \A j, e : Reads(j, e)' <=> Reads(j, e) BY <1>1 DEF Reads
<1>9. Kept'
  <2>1. CASE PlanHit
    <3>1. UNCHANGED <<misses, expert_to_slot>> BY <2>1 DEF PlanHit
    <3>2. Planned' = Planned BY <3>1 DEF Planned, Missing
    <3> QED BY <1>1, <1>7, <1>8, <3>1, <3>2 DEF KernelInv, Kept
  <2>2. CASE PlanMiss
    <3> DEFINE h == Head(todo)
    <3>1. h \in Range(Route) /\ expert_to_slot[h] = None BY <1>1, <2>2, RestOfRoute DEF PlanMiss
    <3>2. PICK s : misses' = Append(misses, [expert |-> h, slot |-> s]) BY <2>2 DEF PlanMiss
    <3> DEFINE m == [expert |-> h, slot |-> s]
    <3>3. m.expert = h OBVIOUS
    <3> HIDE DEF m, h
    <3>4. misses \in Seq(Miss) BY DEF PagingInv, StreamTypes
    <3>5. misses' = Append(misses, m) BY <3>2 DEF m
    <3>6. /\ DOMAIN misses' = 1..(Len(misses) + 1) /\ DOMAIN misses = 1..Len(misses)
          /\ Len(misses) \in Nat /\ misses'[Len(misses) + 1] = m
          /\ \A i \in DOMAIN misses : misses'[i] = misses[i]
      BY <3>4, <3>5
    <3>7. \A i \in DOMAIN misses' : i \in DOMAIN misses \/ i = Len(misses) + 1 BY <3>6
    <3>8. Planned' \subseteq Planned \cup {h} BY <3>3, <3>6, <3>7 DEF Planned, Missing
    <3>9. misses' # <<>> BY <3>6
    <3>10. ASSUME NEW j \in DOMAIN infer, NEW e \in Experts, Reads(j, e)
           PROVE  e \notin Planned /\ (e \in Range(Route) => expert_to_slot[e] # None)
      BY <1>1, <3>10 DEF KernelInv, Kept
    <3>11. \A e \in Range(Route) : expert_to_slot[e] # None => expert_to_slot'[e] # None
      BY <2>2, MissKeepsRoute DEF PagingInv
    <3>12. ASSUME NEW j \in DOMAIN infer', NEW e \in Experts, Reads(j, e)'
           PROVE  /\ e \in Range(Route)' => expert_to_slot'[e] # None
                  /\ e \notin Planned'
      BY <1>1, <1>7, <1>8, <3>1, <3>8, <3>10, <3>11, <3>12
    <3> QED BY <1>1, <3>9, <3>12 DEF Kept
  <2> QED BY <2>1, <2>2
<1>10. Remapped' BY <1>1 DEF KernelInv, Remapped
<1> QED BY <1>4, <1>5, <1>6, <1>9, <1>10 DEF KernelInv

\* The kernels of a route without misses: all its experts are in place.
LEMMA AllHitsKernels ==
  ASSUME PagingInv, KernelInv, AllHits
  PROVE  KernelInv'
<1>1. /\ UNCHANGED <<pager, expert_to_slot, inflight, unfilled, map_staging, upload, device_map,
                     slot_data, slot_indices>>
      /\ pc = "plan" /\ todo = <<>> /\ misses = <<>> /\ infer' = infer \o Launch /\ NextGroup
  BY DEF AllHits, cache, uploads, pinned, device
<1>2. pc' \in {"idle", "resolve"} /\ Route \in AllRoutes BY <1>1, GroupDone
<1>3. infer \in Seq(InferOp) BY DEF PagingInv, StreamTypes
<1>4. /\ infer' \in Seq(InferOp) /\ Len(infer) \in Nat /\ DOMAIN infer' = 1..(Len(infer) + 2)
      /\ DOMAIN infer = 1..Len(infer)
      /\ \A k \in DOMAIN infer : infer'[k] = infer[k]
      /\ infer'[Len(infer) + 1] = Remap(Route) /\ infer'[Len(infer) + 2] = Run(Route)
  BY <1>1, <1>2, <1>3, LaunchBehind
<1>5. ~inflight BY <1>1 DEF PagingInv, Misses
<1>6. Longer BY <1>1, <1>4 DEF Longer
<1>7. ASSUME NEW j \in DOMAIN infer', NEW e \in Experts, Reads(j, e)'
      PROVE  \/ j \in DOMAIN infer /\ Reads(j, e)
             \/ e \in Range(Route)
  <2>1. CASE j \in DOMAIN infer BY <1>4, <1>7, <2>1 DEF Reads
  <2>2. CASE j \notin DOMAIN infer
    <3>1. j = Len(infer) + 1 \/ j = Len(infer) + 2 BY <1>4, <2>2
    <3>2. infer'[j].route = Route BY <1>4, <3>1 DEF Remap, Run
    <3> QED BY <1>7, <3>2 DEF Reads, Range
  <2> QED BY <2>1, <2>2
<1>8. ASSUME NEW e \in Experts, e \in Range(Route) PROVE expert_to_slot[e] # None
  BY <1>1, <1>8 DEF PagingInv, Misses, Range
<1>9. KernelsLoaded'
  <2>1. ASSUME NEW j \in DOMAIN infer, NEW e \in Experts, Reads(j, e)
        PROVE  e \in unfilled \/ Settled(e, j)'
    <3>1. e \in unfilled \/ Settled(e, j) BY <1>5, <2>1 DEF KernelInv, KernelsLoaded, Late
    <3>2. Settled(e, j) => Settled(e, j)' BY <1>1, <1>6, SettledStays
    <3> QED BY <3>1, <3>2
  <2>2. ASSUME NEW j, NEW e \in Experts, e \in Range(Route), e \notin unfilled
        PROVE  Settled(e, j)'
    <3>1. Planned = {} BY <1>1 DEF Planned
    <3>2. Loaded(e) BY <1>8, <2>2, <3>1 DEF PagingInv, Resident
    <3>3. /\ map_staging[e] \in Slots /\ device_map[e] = map_staging[e]
          /\ slot_data[map_staging[e]] = e /\ Untargeted(map_staging[e])
      BY <1>5, <3>2 DEF Loaded
    <3> QED BY <1>1, <3>3 DEF Settled, Disturbs, Untargeted
  <2> QED BY <1>1, <1>7, <2>1, <2>2 DEF KernelsLoaded
<1>10. NoStaleMap' BY <1>1 DEF KernelInv, NoStaleMap
<1>11. Drained' BY <1>2 DEF Drained
<1>12. Kept'
  <2>1. ASSUME NEW j \in DOMAIN infer', NEW e \in Experts, Reads(j, e)' PROVE expert_to_slot'[e] # None
    <3>1. CASE j \in DOMAIN infer /\ Reads(j, e) BY <1>1, <3>1 DEF KernelInv, Kept
    <3>2. CASE e \in Range(Route) BY <1>1, <1>8, <3>2
    <3> QED BY <1>7, <2>1, <3>1, <3>2
  <2> QED BY <1>2, <2>1 DEF Kept
<1>13. Remapped'
  <2>1. ASSUME NEW j \in DOMAIN infer', j \notin DOMAIN infer, infer'[j].op = "run"
        PROVE  j > 1 /\ infer'[j - 1] = Remap(infer'[j].route)
    <3>1. j = Len(infer) + 1 \/ j = Len(infer) + 2 BY <1>4, <2>1
    <3>2. j = Len(infer) + 2 BY <1>4, <2>1, <3>1 DEF Remap
    <3>3. j > 1 /\ j - 1 = Len(infer) + 1 BY <1>4, <3>2
    <3> QED BY <1>4, <3>2, <3>3 DEF Run
  <2> QED BY <1>1, <1>4, <1>6, <2>1, RemapsStay DEF KernelInv
<1> QED BY <1>9, <1>10, <1>11, <1>12, <1>13 DEF KernelInv

\* A record behind the kernels, a wait behind the uploads, or neither: no kernel is disturbed.
LEMMA SyncKernels ==
  ASSUME PagingInv, KernelInv, ~inflight,
         infer' = infer \/ infer' = Append(infer, Record(Token)),
         upload' = upload \/ upload' = Append(upload, Wait(Token)),
         UNCHANGED <<pager, inflight, map_staging, device_map, slot_data, slot_indices>>,
         unfilled \subseteq unfilled'
  PROVE  /\ KernelsLoaded' /\ NoStaleMap' /\ Remapped'
         /\ \A j \in DOMAIN infer' : \A e : Reads(j, e)' => j \in DOMAIN infer /\ Reads(j, e)
<1>1. infer \in Seq(InferOp) /\ upload \in Seq(UploadOp) BY DEF PagingInv, StreamTypes
<1>2. /\ upload' \in Seq(UploadOp) /\ Len(upload) \in Nat
      /\ \A q \in DOMAIN upload : q \in DOMAIN upload' /\ upload'[q] = upload[q]
      /\ \A q \in DOMAIN upload' : upload'[q].op \in {"copy", "map"} => q \in DOMAIN upload
  BY <1>1, WaitQueued
<1>3. /\ infer' \in Seq(InferOp)
      /\ \A k \in DOMAIN infer : k \in DOMAIN infer' /\ infer'[k] = infer[k]
      /\ \A j \in DOMAIN infer' : infer'[j].op # "record" => j \in DOMAIN infer
  <2>1. CASE infer' = infer BY <1>1, <2>1
  <2>2. CASE infer' = Append(infer, Record(Token))
    <3>1. /\ infer' \in Seq(InferOp) /\ Len(infer) \in Nat /\ DOMAIN infer = 1..Len(infer)
          /\ DOMAIN infer' = 1..(Len(infer) + 1)
          /\ \A k \in DOMAIN infer : infer'[k] = infer[k]
          /\ infer'[Len(infer) + 1].op = "record"
      BY <1>1, <2>2, RecordQueued
    <3>2. \A j \in DOMAIN infer' : j \in DOMAIN infer \/ j = Len(infer) + 1 BY <3>1
    <3> QED BY <3>1, <3>2
  <2> QED BY <2>1, <2>2
<1>4. Longer BY <1>2, <1>3 DEF Longer
<1>5. \A j \in DOMAIN infer' : Kernel(infer'[j]) => j \in DOMAIN infer BY <1>3 DEF Kernel
<1>6. KernelsLoaded' BY <1>2, <1>4, <1>5, KernelsStay DEF KernelInv
<1>7. NoStaleMap' BY <1>2 DEF KernelInv, NoStaleMap, MapCopy
<1>8. Remapped' BY <1>3, <1>4, RemapsStay DEF KernelInv
<1>9. \A j \in DOMAIN infer' : \A e : Reads(j, e)' => j \in DOMAIN infer /\ Reads(j, e)
  BY <1>3, <1>5 DEF Reads
<1> QED BY <1>6, <1>7, <1>8, <1>9

LEMMA ReleaseKernels ==
  ASSUME PagingInv, KernelInv, ReleaseSlots
  PROVE  KernelInv'
<1>1. /\ UNCHANGED <<pager, misses, inflight, unfilled, map_staging, device_map, slot_data,
                     slot_indices>>
      /\ pc = "plan" /\ pc' = "read"
      /\ infer' = Append(infer, Record(Token))
      /\ upload' = IF pager = "staged" THEN Append(upload, Wait(Token)) ELSE upload
  BY DEF ReleaseSlots, uploads, pinned, device
<1>2. ~inflight BY <1>1 DEF PagingInv, Misses
<1>3. /\ KernelsLoaded' /\ NoStaleMap' /\ Remapped'
      /\ \A j \in DOMAIN infer' : \A e : Reads(j, e)' => j \in DOMAIN infer /\ Reads(j, e)
  BY <1>1, <1>2, SyncKernels
<1>4. Drained'
  <2>1. infer \in Seq(InferOp) /\ upload \in Seq(UploadOp) BY DEF PagingInv, StreamTypes
  <2> DEFINE r == Record(Token)
             w == Wait(Token)
  <2>2. r.op = "record" /\ r.token = Token /\ w = Wait(r.token) BY DEF Record
  <2>3. infer' = Append(infer, r) /\ (pager = "staged" => upload' = Append(upload, w)) BY <1>1
  <2> HIDE DEF r, w
  <2>4. infer' # <<>> /\ infer'[Len(infer')] = r BY <2>1, <2>3
  <2>5. pager = "staged" => upload' # <<>> /\ upload'[Len(upload')] = w BY <2>1, <2>3
  <2>6. Released' BY <1>1, <2>2, <2>4, <2>5 DEF Released
  <2> QED BY <1>1, <2>6 DEF Drained
<1>5. Kept'
  <2>1. Planned' = Planned BY <1>1 DEF Planned, Missing
  <2> QED BY <1>1, <1>3, <2>1 DEF KernelInv, Kept
<1> QED BY <1>3, <1>4, <1>5 DEF KernelInv

LEMMA ReleaseFailsKernels ==
  ASSUME PagingInv, KernelInv, ReleaseFails
  PROVE  KernelInv'
<1>1. /\ UNCHANGED <<map_staging, device_map, slot_data, slot_indices>>
      /\ pc = "plan" /\ FailResolve(FALSE)
      /\ infer' = infer \/ infer' = Append(infer, Record(Token))
      /\ upload' = upload \/ upload' = Append(upload, Wait(Token))
  BY DEF ReleaseFails, pinned, device
<1>2. pc' = "idle" /\ UNCHANGED <<pager, inflight>> /\ unfilled \subseteq unfilled'
  BY <1>1, FailForgets
<1>3. ~inflight BY <1>1 DEF PagingInv, Misses
<1>4. KernelsLoaded' /\ NoStaleMap' /\ Remapped' BY <1>1, <1>2, <1>3, SyncKernels
<1>5. Drained' /\ Kept' BY <1>2 DEF Drained, Kept
<1> QED BY <1>4, <1>5 DEF KernelInv

\* When the host pager reads records no kernel is queued: the record behind the kernels has
\* left the inference stream, or there were none.
LEMMA HostIsDrained ==
  ASSUME PagingInv, KernelInv, pc = "read", SlotsReleased, pager = "host"
  PROVE  NoKernels
<1>1. infer \in Seq(InferOp) BY DEF PagingInv, StreamTypes
<1>2. infer # <<>> => Len(infer) \in DOMAIN infer BY <1>1, Popped
<1> QED BY <1>2 DEF KernelInv, Drained, Released, SlotsReleased, Recorded

\* The records are read into staging buffers, or into slots while no kernel is queued.
LEMMA WriteKernels ==
  ASSUME PagingInv, KernelInv, pc = "read", SlotsReleased, NEW good, WriteRecords(good),
         UNCHANGED <<pager, inflight, infer, upload>>, unfilled \subseteq unfilled'
  PROVE  KernelsLoaded' /\ NoStaleMap' /\ Remapped' /\ (NoKernels' <=> NoKernels)
<1>1. UNCHANGED <<map_staging, device_map, slot_indices>> BY WriteKeeps
<1>2. ~inflight BY DEF PagingInv, Misses
<1>3. Longer BY DEF Longer
<1>4. NoKernels' <=> NoKernels BY DEF NoKernels
<1>5. KernelsLoaded'
  <2>1. CASE pager = "host"
    <3>1. NoKernels' BY <1>4, <2>1, HostIsDrained
    <3> QED BY <3>1 DEF NoKernels, KernelsLoaded, Reads
  <2>2. CASE pager = "staged"
    <3>1. slot_data' = slot_data BY <2>2 DEF WriteRecords, device
    <3> QED BY <1>1, <1>2, <1>3, <3>1, KernelsStay DEF KernelInv
  <2> QED BY <2>1, <2>2 DEF PagingInv, StreamTypes, Pagers
<1>6. NoStaleMap' BY DEF KernelInv, NoStaleMap
<1>7. infer' \in Seq(InferOp) BY DEF PagingInv, StreamTypes
<1>8. Remapped' BY <1>1, <1>3, <1>7, RemapsStay DEF KernelInv
<1> QED BY <1>4, <1>5, <1>6, <1>8

LEMMA ReadKernels ==
  ASSUME PagingInv, KernelInv, ReadRecords
  PROVE  KernelInv'
<1>1. /\ UNCHANGED <<pager, misses, inflight, unfilled, infer, upload>>
      /\ pc = "read" /\ pc' = "publish" /\ SlotsReleased /\ WriteRecords(DOMAIN misses)
  BY DEF ReadRecords, uploads
<1>2. KernelsLoaded' /\ NoStaleMap' /\ Remapped' /\ (NoKernels' <=> NoKernels)
  BY <1>1, WriteKernels
<1>3. Drained'
  <2>1. Released' <=> Released BY <1>1 DEF Released
  <2>2. pager = "host" => NoKernels BY <1>1, HostIsDrained
  <2> QED BY <1>1, <1>2, <2>1, <2>2 DEF KernelInv, Drained
<1>4. Kept'
  <2>1. Planned' = Planned BY <1>1 DEF Planned, Missing
  <2>2. \A j, e : Reads(j, e)' <=> Reads(j, e) BY <1>1 DEF Reads
  <2> QED BY <1>1, <2>1, <2>2 DEF KernelInv, Kept
<1> QED BY <1>2, <1>3, <1>4 DEF KernelInv

LEMMA ReadFailsKernels ==
  ASSUME PagingInv, KernelInv, ReadFails
  PROVE  KernelInv'
<1>1. UNCHANGED <<infer, upload>> /\ pc = "read" /\ SlotsReleased /\ FailResolve(pager = "host")
  BY DEF ReadFails
<1>2. PICK good : WriteRecords(good) BY DEF ReadFails
<1> DEFINE d == pager = "host"
<1>3. d \in BOOLEAN /\ FailResolve(d) BY <1>1
<1> HIDE DEF d
<1>4. pc' = "idle" /\ UNCHANGED <<pager, inflight>> /\ unfilled \subseteq unfilled'
  BY <1>3, FailForgets
<1>5. KernelsLoaded' /\ NoStaleMap' /\ Remapped' BY <1>1, <1>2, <1>4, WriteKernels
<1>6. Drained' /\ Kept' BY <1>4 DEF Drained, Kept
<1> QED BY <1>5, <1>6 DEF KernelInv

\* The wait for slots_released gates what is uploaded behind it.
LEMMA ReleasedGates ==
  ASSUME PagingInv, Released, pager = "staged", NEW j \in DOMAIN infer, Kernel(infer[j])
  PROVE  Len(upload) \in DOMAIN upload /\ Len(upload) \in Nat /\ Gate(j, Len(upload))
<1>1. /\ infer \in Seq(InferOp) /\ infer # <<>> /\ upload \in Seq(UploadOp) /\ upload # <<>>
      /\ upload[Len(upload)] = Wait(infer[Len(infer)].token) /\ infer[Len(infer)].op = "record"
  BY DEF PagingInv, StreamTypes, Released
<1>2. /\ Len(infer) \in DOMAIN infer /\ DOMAIN infer = 1..Len(infer) /\ Len(infer) \in Nat
      /\ Len(upload) \in DOMAIN upload /\ Len(upload) \in Nat
  BY <1>1, Popped
<1>3. infer[Len(infer)] \in InferOp BY <1>1, <1>2
<1>4. infer[Len(infer)] = Record(infer[Len(infer)].token)
  BY <1>1, <1>3 DEF InferOp, Sync, Record
<1>5. j # Len(infer) BY <1>1 DEF Kernel
<1>6. Len(infer) > j BY <1>2, <1>5
<1>7. upload[Len(upload)].op = "wait" /\ upload[Len(upload)].token = infer[Len(infer)].token
  BY <1>1 DEF Wait
<1> QED BY <1>2, <1>4, <1>6, <1>7 DEF Gate

\* Uploads behind the upload stream, whole or in part, disturb no queued kernel.
LEMMA UploadsGated ==
  ASSUME PagingInv, KernelInv, pc = "publish", Longer, upload' \in Seq(UploadOp),
         NEW j \in DOMAIN infer, Kernel(infer[j])
  PROVE  /\ pager = "staged" /\ \A q \in DOMAIN upload : upload[q] # MapCopy
         /\ Gated(j)'
         /\ \A q \in DOMAIN upload' : q \notin DOMAIN upload => \E p \in 1..(q - 1) : Gate(j, p)'
<1>1. ~NoKernels BY DEF NoKernels
<1>2. pager = "staged" /\ Released
  BY <1>1 DEF PagingInv, StreamTypes, Pagers, KernelInv, Drained
<1>3. ~inflight BY DEF PagingInv, Misses
<1>4. \A q \in DOMAIN upload : upload[q] # MapCopy BY <1>2, <1>3 DEF KernelInv, NoStaleMap
<1>5. Len(upload) \in DOMAIN upload /\ Len(upload) \in Nat /\ Gate(j, Len(upload))
  BY <1>2, ReleasedGates
<1> PICK m : m = Len(upload) OBVIOUS
<1>6. Gate(j, m)' /\ m \in DOMAIN upload' BY <1>5, GatesStay DEF Longer
<1>7. ASSUME NEW q \in DOMAIN upload', q \notin DOMAIN upload PROVE m \in 1..(q - 1)
  <2>1. upload \in Seq(UploadOp) /\ DOMAIN upload = 1..Len(upload) BY DEF PagingInv, StreamTypes
  <2>2. q \in Nat /\ 1 <= q BY <1>7
  <2> QED BY <1>5, <1>7, <2>1, <2>2
<1> QED BY <1>2, <1>4, <1>6, <1>7 DEF Gated

LEMMA PublishFailsKernels ==
  ASSUME PagingInv, KernelInv, "staged" \notin FinishFaults, PublishFails
  PROVE  KernelInv'
<1>1. /\ UNCHANGED <<infer, device_map, slot_data, slot_indices>>
      /\ pc = "publish" /\ FailResolve(pager = "host")
  BY DEF PublishFails, device
<1>2. PICK k \in 0..Len(Uploads) :
        /\ pager \in (IF k <= Len(Copies) THEN CopyFaults ELSE FinishFaults)
        /\ upload' = upload \o SubSeq(Uploads, 1, k)
        /\ map_staging' = IF k < Len(Copies) THEN map_staging ELSE expert_to_slot
  BY DEF PublishFails
<1> DEFINE d == pager = "host"
<1>3. d \in BOOLEAN /\ FailResolve(d) BY <1>1
<1> HIDE DEF d
<1>4. pc' = "idle" /\ UNCHANGED <<pager, inflight>> /\ unfilled \subseteq unfilled'
  BY <1>3, FailForgets
<1>5. /\ upload' \in Seq(UploadOp) /\ Len(upload) \in Nat /\ DOMAIN upload = 1..Len(upload)
      /\ DOMAIN upload' = 1..(Len(upload) + k)
      /\ \A q \in DOMAIN upload : upload'[q] = upload[q]
      /\ \A i \in 1..k : upload'[Len(upload) + i] = Uploads[i]
  BY <1>1, <1>2, UploadsQueued
<1>6. Longer BY <1>1, <1>2, <1>5 DEF Longer
<1>7. ~inflight BY <1>1 DEF PagingInv, Misses
<1>8. KernelsLoaded'
  <2>1. CASE NoKernels BY <1>1, <2>1 DEF NoKernels, KernelsLoaded, Reads
  <2>2. CASE ~NoKernels
    <3>1. \A q \in DOMAIN upload : upload[q] # MapCopy
      BY <1>1, <1>5, <1>6, <2>2, UploadsGated DEF NoKernels
    <3>2. \A j \in DOMAIN infer, q \in DOMAIN upload' : Kernel(infer[j]) /\ q \notin DOMAIN upload =>
            \E p \in 1..(q - 1) : Gate(j, p)'
      BY <1>1, <1>5, <1>6, UploadsGated
    <3>3. \A j \in DOMAIN infer' : Kernel(infer'[j]) => j \in DOMAIN infer BY <1>1
    <3> QED BY <1>1, <1>4, <1>6, <1>7, <3>1, <3>2, <3>3, KernelsStay DEF KernelInv
  <2> QED BY <2>1, <2>2
<1>9. NoStaleMap'
  <2> SUFFICES ASSUME pager = "staged", NEW q \in DOMAIN upload' PROVE upload'[q] # MapCopy
    BY <1>4 DEF NoStaleMap
  <2>1. CASE q \in DOMAIN upload BY <1>5, <1>7, <2>1 DEF KernelInv, NoStaleMap
  <2>2. CASE q \notin DOMAIN upload
    <3> DEFINE i == q - Len(upload)
    <3>1. i \in 1..k /\ q = Len(upload) + i BY <1>2, <1>5, <2>2
    <3>2. upload'[q] = Uploads[i] BY <1>5, <3>1
    <3>3. k <= Len(Copies) BY <1>2
    <3>4. /\ Len(Copies) \in Nat
          /\ \A p \in 1..Len(Copies) : Uploads[p] = Copy(p, misses[p].slot)
      BY <1>1, UploadsShape
    <3>5. i \in 1..Len(Copies) BY <1>2, <3>1, <3>3, <3>4
    <3> HIDE DEF i
    <3>6. Uploads[i] = Copy(i, misses[i].slot) BY <3>4, <3>5
    <3>7. Copy(i, misses[i].slot) # MapCopy
      <4>1. Copy(i, misses[i].slot).op = "copy" /\ MapCopy.op = "map" BY DEF Copy, MapCopy
      <4> QED BY <4>1
    <3> QED BY <3>2, <3>6, <3>7
  <2> QED BY <2>1, <2>2
<1>10. Drained' /\ Kept' BY <1>4 DEF Drained, Kept
<1>11. infer' \in Seq(InferOp) BY <1>1 DEF PagingInv, StreamTypes
<1>12. Remapped' BY <1>1, <1>4, <1>6, <1>11, RemapsStay DEF KernelInv
<1> QED BY <1>8, <1>9, <1>10, <1>12 DEF KernelInv

\* The queued kernels are behind no upload, the new ones wait for them all.
LEMMA PublishKernels ==
  ASSUME PagingInv, KernelInv, Publish
  PROVE  KernelInv'
<1>1. /\ UNCHANGED <<pager, expert_to_slot, device_map, slot_data, slot_indices>>
      /\ pc = "publish" /\ inflight' = TRUE /\ map_staging' = expert_to_slot /\ NextGroup
      /\ unfilled' = unfilled \ Planned
  BY DEF Publish, cache, device
<1>2. pc' \in {"idle", "resolve"} /\ Route \in AllRoutes BY <1>1, GroupDone
<1> DEFINE n == Len(infer)
<1>3. /\ upload' \in Seq(UploadOp) /\ upload' # <<>> /\ upload'[Len(upload')] = Record(Token)
      /\ \A q \in DOMAIN upload : q \in DOMAIN upload' /\ upload'[q] = upload[q]
      /\ infer' \in Seq(InferOp) /\ n \in Nat /\ DOMAIN infer = 1..n /\ DOMAIN infer' = 1..(n + 3)
      /\ \A k \in DOMAIN infer : infer'[k] = infer[k]
      /\ infer'[n + 1] = Wait(Token)
      /\ infer'[n + 2] = Remap(Route) /\ infer'[n + 3] = Run(Route)
  BY PublishQueued
<1> HIDE DEF n
<1>4. Longer BY <1>3 DEF Longer
<1>5. ~inflight BY <1>1 DEF PagingInv, Misses
<1>6. ASSUME NEW j \in DOMAIN infer', NEW e \in Experts, Reads(j, e)'
      PROVE  \/ j \in DOMAIN infer /\ Reads(j, e) /\ Kernel(infer[j])
             \/ j > n + 1 /\ e \in Range(Route)
  <2>1. CASE j \in DOMAIN infer BY <1>3, <1>6, <2>1 DEF Reads
  <2>2. CASE j \notin DOMAIN infer
    <3>1. j = n + 1 \/ j = n + 2 \/ j = n + 3 BY <1>3, <2>2
    <3>2. j # n + 1 BY <1>3, <1>6 DEF Reads, Kernel, Wait
    <3>3. infer'[j].route = Route /\ j > n + 1 BY <1>3, <3>1, <3>2 DEF Remap, Run
    <3> QED BY <1>6, <3>3 DEF Reads, Range
  <2> QED BY <2>1, <2>2
<1>7. ASSUME NEW j \in DOMAIN infer, NEW e \in Experts, Reads(j, e), e \in unfilled
      PROVE  e \in unfilled'
  BY <1>1, <1>7 DEF KernelInv, Kept
<1>8. ASSUME NEW e \in Experts, e \in Range(Route) PROVE expert_to_slot[e] # None
  BY <1>1, <1>8 DEF PagingInv, Misses
<1>9. KernelsLoaded'
  <2>1. ASSUME NEW j \in DOMAIN infer, NEW e \in Experts, Reads(j, e), Kernel(infer[j])
        PROVE  e \in unfilled' \/ Settled(e, j)'
    <3>1. e \in unfilled \/ Settled(e, j) BY <1>5, <2>1 DEF KernelInv, KernelsLoaded, Late
    <3>2. /\ \A q \in DOMAIN upload : upload[q] # MapCopy
          /\ \A q \in DOMAIN upload' : q \notin DOMAIN upload => \E p \in 1..(q - 1) : Gate(j, p)'
      BY <1>1, <1>3, <1>4, <2>1, UploadsGated
    <3>3. Settled(e, j) => Settled(e, j)' BY <1>1, <1>4, <3>2, SettledStays
    <3> QED BY <1>7, <2>1, <3>1, <3>3
  <2>2. ASSUME NEW j \in DOMAIN infer', j > n + 1, NEW e \in Experts, e \in Range(Route)
        PROVE  e \in unfilled' \/ (Late(j)' /\ Loaded(e)')
    <3>0. PICK k : k = n + 1 OBVIOUS
    <3>1. AwaitedAt(k)' BY <1>3, <3>0 DEF AwaitedAt, Wait
    <3>2. k \in 1..(j - 1) BY <1>3, <2>2, <3>0
    <3>3. Late(j)' BY <1>1, <1>3, <3>1, <3>2 DEF Late
    <3> QED BY <1>8, <2>2, <3>3, PublishFills
  <2> QED BY <1>6, <2>1, <2>2 DEF KernelsLoaded
<1>10. NoStaleMap' BY <1>1 DEF NoStaleMap
<1>11. Drained' BY <1>2 DEF Drained
<1>12. Kept'
  <2>1. ASSUME NEW j \in DOMAIN infer', NEW e \in Experts, Reads(j, e)'
        PROVE  expert_to_slot'[e] # None \/ (inflight' /\ Gated(j)')
    <3>1. CASE j \in DOMAIN infer /\ Kernel(infer[j])
      BY <1>1, <1>3, <1>4, <3>1, UploadsGated
    <3>2. CASE e \in Range(Route) BY <1>1, <1>8, <3>2
    <3> QED BY <1>6, <2>1, <3>1, <3>2
  <2> QED BY <1>2, <2>1 DEF Kept
<1>13. Remapped'
  <2>1. ASSUME NEW j \in DOMAIN infer', j \notin DOMAIN infer, infer'[j].op = "run"
        PROVE  j > 1 /\ infer'[j - 1] = Remap(infer'[j].route)
    <3>1. j = n + 1 \/ j = n + 2 \/ j = n + 3 BY <1>3, <2>1
    <3>2. j = n + 3 BY <1>3, <2>1, <3>1 DEF Remap, Wait
    <3>3. j > 1 /\ j - 1 = n + 2 BY <1>3, <3>2
    <3> QED BY <1>3, <3>2, <3>3 DEF Run
  <2>2. ASSUME NEW e \in Experts, Reads(1, e), e \in unfilled PROVE infer = <<>> \/ e \in unfilled'
    <3>1. infer # <<>> => 1 \in DOMAIN infer
      <4>1. infer \in Seq(InferOp) BY DEF PagingInv, StreamTypes
      <4> QED BY <4>1, Popped
    <3> QED BY <1>7, <2>2, <3>1
  <2>3. CASE infer = <<>>
    <3>1. n = 0 BY <2>3 DEF n
    <3>2. infer'[1].op # "run" BY <1>3, <3>1 DEF Wait
    <3>3. \A j \in DOMAIN infer' : j \notin DOMAIN infer BY <1>3, <3>1
    <3> QED BY <2>1, <3>2, <3>3 DEF Remapped
  <2>4. CASE infer # <<>> BY <1>1, <1>3, <1>4, <2>1, <2>2, <2>4, RemapsStay DEF KernelInv
  <2> QED BY <2>3, <2>4
<1> QED BY <1>9, <1>10, <1>11, <1>12, <1>13 DEF KernelInv

-----------------------------------------------------------------------------
(***************************************************************************)
(* Every step, and the theorem.                                            *)
(***************************************************************************)
LEMMA KernelStep ==
  ASSUME PagingInv, KernelInv, "staged" \notin FinishFaults, [PagingNext]_pagingVars
  PROVE  KernelInv'
<1>1. CASE StartPass BY <1>1, StartKernels
<1>2. CASE BeginResolve BY <1>2, BeginKernels
<1>3. CASE PlanHit \/ PlanMiss BY <1>3, PlanKernels
<1>4. CASE AllHits BY <1>4, AllHitsKernels
<1>5. CASE ReleaseSlots BY <1>5, ReleaseKernels
<1>6. CASE ReleaseFails BY <1>6, ReleaseFailsKernels
<1>7. CASE ReadRecords BY <1>7, ReadKernels
<1>8. CASE ReadFails BY <1>8, ReadFailsKernels
<1>9. CASE Publish BY <1>9, PublishKernels
<1>10. CASE PublishFails BY <1>10, PublishFailsKernels
<1>11. CASE Inferred BY <1>11, InferKernels
<1>12. CASE Uploaded BY <1>12, UploadKernels
<1>13. CASE UNCHANGED pagingVars
  <2>1. UNCHANGED <<pager, pc, groups, misses, expert_to_slot, inflight, unfilled, map_staging, staging,
                    infer, upload, device_map, slot_data, slot_indices>>
    BY <1>13 DEF pagingVars, host, cache, uploads, pinned, device
  <2>2. /\ \A j : Gated(j)' <=> Gated(j)
        /\ \A j, e : Reads(j, e)' <=> Reads(j, e)
        /\ \A e : Loaded(e)' <=> Loaded(e)
        /\ Range(Route)' = Range(Route) /\ Planned' = Planned
    BY <2>1 DEF Gated, Gate, Reads, Loaded, Untargeted, Route, Range, Planned, Missing
  <2>3. \A j, e : Settled(e, j)' <=> Settled(e, j) BY <2>1 DEF Settled, Disturbs, Gate
  <2>4. \A j : Late(j)' <=> Late(j) BY <2>1 DEF Late, AwaitedAt
  <2>5. KernelsLoaded' BY <2>1, <2>2, <2>3, <2>4 DEF KernelInv, KernelsLoaded
  <2>6. NoStaleMap' BY <2>1 DEF KernelInv, NoStaleMap
  <2>7. Drained' BY <2>1 DEF KernelInv, Drained, NoKernels, Released
  <2>8. Kept' BY <2>1, <2>2 DEF KernelInv, Kept
  <2>9. Remapped' BY <2>1 DEF KernelInv, Remapped
  <2> QED BY <2>5, <2>6, <2>7, <2>8, <2>9 DEF KernelInv
<1> QED
  BY <1>1, <1>2, <1>3, <1>4, <1>5, <1>6, <1>7, <1>8, <1>9, <1>10, <1>11, <1>12, <1>13
  DEF PagingNext, Host, Device, Inferred, Uploaded

\* The invariant says what the routed kernels read.
LEMMA InvReads == PagingInv /\ KernelInv => KernelReadsLoadedExperts
<1> SUFFICES ASSUME PagingInv, KernelInv, infer # <<>>, Head(infer).op = "run",
                    NEW i \in DOMAIN Head(infer).route, Head(infer).route[i] \notin unfilled
             PROVE  slot_indices[i] # None /\ slot_data[slot_indices[i]] = Head(infer).route[i]
  BY DEF KernelReadsLoadedExperts, KernelRuns, KernelRoute, ReadsItsExpert
<1> DEFINE e == Head(infer).route[i]
<1>1. infer \in Seq(InferOp) BY DEF PagingInv, StreamTypes
<1>2. Head(infer) = infer[1] /\ 1 \in DOMAIN infer BY <1>1, Popped
<1>3. Kernel(infer[1]) BY <1>2 DEF Kernel
<1>4. e \in Experts /\ Reads(1, e) BY <1>2, <1>3, KernelRoutes DEF Reads
<1>5. ~Late(1) BY DEF Late
<1>6. Settled(e, 1) BY <1>2, <1>4, <1>5 DEF KernelInv, KernelsLoaded
<1>7. slot_indices[i] = device_map[e] BY <1>2 DEF KernelInv, Remapped
<1> QED BY <1>6, <1>7, NoneApart DEF Settled

\* Whatever the device's pace, however many rows a pass resolves, and whichever reads and
\* enqueues fail, the routed kernels read from every slot they index the record of the expert
\* they were launched for, but for the experts a failed resolve left in the host map (resolve
\* and run_rows of the pagers).  The staged pager's finish is the one call assumed not to fail.
THEOREM KernelsReadTheirExperts ==
  ASSUME "staged" \notin FinishFaults
  PROVE  PagingSpec => []KernelReadsLoadedExperts
<1>1. PagingInv /\ KernelInv /\ [PagingNext]_pagingVars => PagingInv' /\ KernelInv'
  BY PagingStep, KernelStep
<1>2. PagingInv /\ KernelInv => KernelReadsLoadedExperts BY InvReads
<1> QED BY PagingStarts, <1>1, <1>2, PTL DEF PagingSpec

\* The rest of the types.
RestTyped ==
  protected \subseteq Slots /\ last_used \in [Slots -> 0..Capacity] /\ unfilled \subseteq Experts

\* A use moves the later slots down, never below zero.
LEMMA TouchTyped ==
  ASSUME last_used \in [Slots -> 0..Capacity], NEW s \in Slots
  PROVE  Touch(s) \in [Slots -> 0..Capacity]
<1>1. Capacity \in Nat BY PagingAssumption
<1>2. \A t \in Slots : last_used[t] \in 0..Capacity OBVIOUS
<1>3. ASSUME NEW t \in Slots PROVE Touch(s)[t] \in 0..Capacity
  <2>1. CASE t = s BY <1>1, <2>1 DEF Touch
  <2>2. CASE t # s /\ last_used[t] > last_used[s]
    <3>1. last_used[t] - 1 \in 0..Capacity BY <1>1, <1>2, <2>2
    <3> QED BY <2>2, <3>1 DEF Touch
  <2>3. CASE t # s /\ ~(last_used[t] > last_used[s])
    <3>1. Touch(s)[t] = last_used[t] BY <2>3 DEF Touch
    <3> QED BY <1>2, <3>1
  <2> QED BY <2>1, <2>2, <2>3
<1> QED BY <1>3 DEF Touch

LEMMA RestStep ==
  ASSUME PagingInv, RestTyped, [PagingNext]_pagingVars
  PROVE  RestTyped'
<1>1. /\ Planned \subseteq Experts
      /\ expert_to_slot \in [Experts -> MaybeSlot] /\ slot_to_expert \in [Slots -> MaybeExpert]
  <2>1. \A i \in DOMAIN misses : misses[i] \in Miss BY DEF PagingInv, StreamTypes
  <2>2. Planned \subseteq Experts BY <2>1 DEF Planned, Missing, Miss
  <2> QED BY <2>2 DEF PagingInv, PlanInv
<1>2. ASSUME NEW d \in BOOLEAN, FailResolve(d) PROVE RestTyped'
  BY <1>1, <1>2 DEF FailResolve, Forget, RestTyped
<1>3. ASSUME NEW s \in Slots, Placed(s), unfilled' = unfilled PROVE RestTyped'
  <2>1. last_used' \in [Slots -> 0..Capacity] BY <1>3, TouchTyped DEF Placed, RestTyped
  <2> QED BY <1>3, <2>1 DEF Placed, RestTyped
<1>4. CASE BeginResolve
  <2>1. Route \in AllRoutes BY <1>4 DEF BeginResolve, PagingInv, PlanInv, Route
  <2>2. Range(Route) \subseteq Experts BY <2>1, RouteTyped
  <2>3. RouteSlots \subseteq Slots BY <1>1, <2>2 DEF RouteSlots, MaybeSlot
  <2> QED BY <1>4, <2>3 DEF BeginResolve, cache, RestTyped
<1>5. CASE PlanHit
  <2>1. Head(todo) \in Experts BY <1>5, RestOfRoute DEF PlanHit
  <2>2. expert_to_slot[Head(todo)] \in Slots BY <1>1, <1>5, <2>1 DEF PlanHit, MaybeSlot
  <2> QED BY <1>3, <1>5, <2>2 DEF PlanHit, uploads
<1>6. CASE PlanMiss
  <2>1. PICK s \in Victims : Placed(s) BY <1>6 DEF PlanMiss
  <2>2. s \in Slots BY <2>1 DEF Victims, FreeSlots, Evictable
  <2> QED BY <1>3, <1>6, <2>1, <2>2 DEF PlanMiss, uploads
<1>7. CASE Publish BY <1>7 DEF Publish, NextGroup, Forget, cache, RestTyped
<1>8. CASE AllHits BY <1>8 DEF AllHits, NextGroup, Forget, cache, uploads, RestTyped
<1>9. CASE ReleaseFails BY <1>2, <1>9 DEF ReleaseFails
<1>10. CASE ReadFails \/ PublishFails
  <2> DEFINE d == pager = "host"
  <2>1. d \in BOOLEAN /\ FailResolve(d) BY <1>10 DEF ReadFails, PublishFails
  <2> HIDE DEF d
  <2> QED BY <1>2, <2>1
<1>11. CASE UNCHANGED <<protected, last_used, unfilled>> BY <1>11 DEF RestTyped
<1>12. CASE StartPass \/ ReleaseSlots \/ ReadRecords
  BY <1>11, <1>12 DEF StartPass, ReleaseSlots, ReadRecords, cache, uploads
<1>13. CASE Device
  BY <1>11, <1>13 DEF Device, InferRecord, InferWait, InferRemap, InferRun, UploadSync, UploadRecord,
    UploadMap, host, cache, uploads
<1>14. CASE UNCHANGED pagingVars BY <1>11, <1>14 DEF pagingVars, host, cache, uploads
<1> QED
  BY <1>4, <1>5, <1>6, <1>7, <1>8, <1>9, <1>10, <1>12, <1>13, <1>14 DEF PagingNext, Host

\* Every variable of the pagers has its type (the fields of expert_cache.rs).
THEOREM PagingTyped == PagingSpec => []PagingTypeOK
<1>1. PagingInit => RestTyped
  <2>1. ASSUME PagingInit PROVE last_used \in [Slots -> 0..Capacity]
    BY <2>1, PagingAssumption DEF PagingInit
  <2> QED BY <2>1 DEF PagingInit, RestTyped
<1>2. PagingInv /\ RestTyped /\ [PagingNext]_pagingVars => PagingInv' /\ RestTyped' BY PagingStep, RestStep
<1>3. PagingInv /\ RestTyped => PagingTypeOK
  <2> SUFFICES ASSUME PagingInv, RestTyped PROVE PagingTypeOK OBVIOUS
  <2>1. \A i \in DOMAIN misses : misses[i] \in Miss BY DEF PagingInv, StreamTypes
  <2> QED BY <2>1 DEF PagingInv, PlanInv, StreamTypes, Miss, RestTyped, PagingTypeOK
<1> QED BY PagingStarts, <1>1, <1>2, <1>3, PTL DEF PagingSpec
=============================================================================
