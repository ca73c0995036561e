---------------------------- MODULE ExpertPaging ----------------------------
(***************************************************************************)
(* Expert paging of a mixture-of-experts layer: the LRU slot cache and the *)
(* upload coordinator of crates/infer/src/execution/expert_cache.rs, with  *)
(* the two kinds of pager built on them.                                   *)
(*                                                                         *)
(*   "host"    Deepseek4PagedExperts: reader threads write the records     *)
(*             straight into the slots; a failed resolve forgets its       *)
(*             misses;                                                     *)
(*   "staged"  Step37PagedExperts and Qwen36ExpertPager: the records go to *)
(*             pinned staging buffers and the upload stream copies them;   *)
(*             a failed resolve returns at once.                           *)
(*                                                                         *)
(* The host enqueues work on two CUDA streams and the device executes each *)
(* of them in order, at its own pace.  A recorded event is a token: a wait *)
(* for it passes once the record has left the other stream.                *)
(***************************************************************************)
EXTENDS Naturals, Sequences, FiniteSets, Functions

CONSTANTS
  N,            \* routed experts of the layer
  Capacity,     \* resident slots
  TopK,         \* experts per token, the cache's route_len
  ReadFaults,   \* kinds of pager whose record reads may fail
  CopyFaults,   \* kinds of pager whose CUDA enqueues may fail, up to the map upload
  FinishFaults, \* kinds of pager whose finish may fail, behind the enqueued map upload
  MaxRows,      \* bound: rows of one pass of the staged pager
  MaxBacklog,   \* bound: uploads still queued when another enqueue may fail
  MaxUnfilled,  \* bound: experts left unfilled when another resolve may fail
  None          \* no slot, no expert, or no valid record

ASSUME PagingAssumption ==
  /\ N \in Nat /\ Capacity \in Nat /\ TopK \in Nat /\ MaxRows \in Nat
  /\ MaxBacklog \in Nat /\ MaxUnfilled \in Nat
  /\ 0 < TopK /\ TopK <= Capacity /\ Capacity <= N
  /\ None \notin Nat

Experts == 1..N
Slots == 1..Capacity
Pagers == {"host", "staged"}

VARIABLES
  pager,          \* which pager this layer uses
  pc,             \* where the host thread is in run_rows / resolve
  groups,         \* the working sets of the forward pass still to resolve
  todo,           \* plan_experts: the experts of the route not placed yet
  protected,      \* plan_experts: slots the current route uses
  misses,         \* planned misses, [expert, slot]
  expert_to_slot, \* host map
  slot_to_expert,
  last_used,      \* the order of the slots' last uses
  inflight,       \* ExpertUploadCoordinator::inflight
  unfilled,       \* history: experts a failed resolve left in the host map
  map_staging,    \* pinned copy of the host map
  staging,        \* pinned records, one per miss
  infer,          \* queued operations of the inference stream
  upload,         \* queued operations of the upload stream
  device_map,     \* device copy of expert_to_slot
  slot_data,      \* the expert whose record a slot holds, None if torn
  slot_indices    \* device result of the last remap

host == <<pc, groups, todo, protected, misses>>
cache == <<expert_to_slot, slot_to_expert, last_used>>
uploads == <<inflight, unfilled>>
pinned == <<map_staging, staging>>
device == <<device_map, slot_data, slot_indices>>
pagingVars == <<pager, host, cache, uploads, pinned, infer, upload, device>>

Route == Head(groups)

(***************************************************************************)
(* CUDA streams and events (external).  Only the latest record of an event *)
(* is ever waited for by the host, and a stream is first in, first out, so *)
(* a host wait passes when no record of the event is left in the stream.   *)
(***************************************************************************)
Record(t) == [op |-> "record", token |-> t]
Wait(t) == [op |-> "wait", token |-> t]
Remap(r) == [op |-> "remap", route |-> r]
Run(r) == [op |-> "run", route |-> r]
Copy(i, s) == [op |-> "copy", buffer |-> i, slot |-> s]
MapCopy == [op |-> "map"]

Pending(queue, t) == \E i \in DOMAIN queue : queue[i] = Record(t)
Recorded(queue) == \E i \in DOMAIN queue : queue[i].op = "record"
Token ==
  CHOOSE t \in 0..(Len(infer) + Len(upload)) : \A q \in {infer, upload} : \A i \in DOMAIN q :
                       q[i] # Record(t) /\ q[i] # Wait(t)

-----------------------------------------------------------------------------
PagingInit ==
  /\ pager \in Pagers
  /\ pc = "idle" /\ groups = <<>> /\ todo = <<>> /\ protected = {} /\ misses = <<>>
  /\ expert_to_slot = [e \in Experts |-> None]
  /\ slot_to_expert = [s \in Slots |-> None]
  /\ last_used = [s \in Slots |-> 0]
  /\ inflight = FALSE /\ unfilled = {}
  /\ map_staging = [e \in Experts |-> None]
  /\ staging = [i \in 1..TopK |-> None]
  /\ infer = <<>> /\ upload = <<>>
  /\ device_map = [e \in Experts |-> None]
  /\ slot_data = [s \in Slots |-> None]
  /\ slot_indices = <<>>

(***************************************************************************)
(* A forward pass.  The routed experts are copied to the host, which       *)
(* synchronizes the inference stream, once for all rows; what follows is   *)
(* enqueued with no synchronization between.  One row resolves its own     *)
(* route.  Of several rows the host pager resolves the active experts in   *)
(* groups of experts_per_token, in expert order; the staged pager (Step    *)
(* 3.7's batched prefill) resolves the route of one row after the other.   *)
(* A pass that fails between two resolves is one with fewer rows.          *)
(***************************************************************************)
Routes(n) == {r \in [1..n -> Experts] : IsInjective(r)}
SingleRow == {<<r>> : r \in Routes(TopK)}
RowByRow == UNION {[1..n -> Routes(TopK)] : n \in 2..MaxRows}

Ascending(r) == \A i \in 1..(Len(r) - 1) : r[i] < r[i + 1]
Groups == {r \in UNION {Routes(n) : n \in 1..TopK} : Ascending(r)}
ManyRows ==
  {gs \in UNION {[1..n -> Groups] : n \in 2..N} :
     \A g \in 1..(Len(gs) - 1) : Len(gs[g]) = TopK /\ gs[g][TopK] < gs[g + 1][1]}

StartPass ==
  /\ pc = "idle"
  /\ infer = <<>>
  /\ groups' \in SingleRow \cup (IF pager = "host" THEN ManyRows ELSE RowByRow)
  /\ pc' = "resolve"
  /\ UNCHANGED <<pager, todo, protected, misses, cache, uploads, pinned, infer, upload, device>>

(***************************************************************************)
(* wait_for_staging_reuse, then the prologue of plan_experts.              *)
(***************************************************************************)
\* Mutant: every resident slot is protected.
ProtectResident == {s \in Slots : slot_to_expert[s] # None}

\* Mutant: nothing is protected before it is planned.
ProtectNothing == {}

\* Mutant: the staging buffers are reused while they may still be uploaded.
StagingNotAwaited == TRUE

StagingReusable == inflight => ~Recorded(upload)

RouteSlots == {expert_to_slot[e] : e \in Range(Route)} \ {None}

BeginResolve ==
  /\ pc = "resolve"
  /\ StagingReusable
  /\ inflight' = FALSE
  /\ todo' = Route
  /\ protected' = RouteSlots
  /\ misses' = <<>>
  /\ pc' = "plan"
  /\ UNCHANGED <<pager, groups, cache, unfilled, pinned, infer, upload, device>>

(***************************************************************************)
(* plan_experts, one expert of the route at a time: the first free slot,   *)
(* or else the least recently used one the route does not protect.         *)
(* last_used keeps the order of the clock's values (a use gets the largest *)
(* and the later ones move down); a slot never used is still free.         *)
(***************************************************************************)
FreeSlots == {s \in Slots : slot_to_expert[s] = None}
Evictable == {s \in Slots : s \notin protected}

Victims ==
  IF FreeSlots # {} THEN {s \in FreeSlots : \A t \in FreeSlots : s <= t}
                    ELSE {s \in Evictable : \A t \in Evictable : last_used[s] <= last_used[t]}

Touch(s) ==
  [t \in Slots |-> CASE t = s -> Capacity
                     [] t # s /\ last_used[t] > last_used[s] -> last_used[t] - 1
                     [] OTHER -> last_used[t]]

Placed(s) ==
  /\ last_used' = Touch(s)
  /\ protected' = protected \cup {s}
  /\ todo' = Tail(todo)

PlanHit ==
  /\ pc = "plan" /\ todo # <<>>
  /\ expert_to_slot[Head(todo)] # None
  /\ Placed(expert_to_slot[Head(todo)])
  /\ UNCHANGED <<pager, pc, groups, misses, expert_to_slot, slot_to_expert, uploads, pinned,
                 infer, upload, device>>

PlanMiss ==
  /\ pc = "plan" /\ todo # <<>>
  /\ LET e == Head(todo) IN
     /\ expert_to_slot[e] = None
     /\ \E s \in Victims :
        /\ expert_to_slot' = [f \in Experts |->
             IF f = e THEN s ELSE IF f = slot_to_expert[s] THEN None ELSE expert_to_slot[f]]
        /\ slot_to_expert' = [slot_to_expert EXCEPT ![s] = e]
        /\ misses' = Append(misses, [expert |-> e, slot |-> s])
        /\ Placed(s)
  /\ UNCHANGED <<pager, pc, groups, uploads, pinned, infer, upload, device>>

(***************************************************************************)
(* The remap and the routed kernels of the resolved working set.           *)
(***************************************************************************)
Launch == <<Remap(Route), Run(Route)>>

Forget == todo' = <<>> /\ protected' = {} /\ misses' = <<>>

NextGroup ==
  /\ groups' = Tail(groups)
  /\ Forget
  /\ pc' = IF Len(groups) = 1 THEN "idle" ELSE "resolve"

AllHits ==
  /\ pc = "plan" /\ todo = <<>> /\ misses = <<>>
  /\ infer' = infer \o Launch
  /\ NextGroup
  /\ UNCHANGED <<pager, cache, uploads, pinned, upload, device>>

(***************************************************************************)
(* With misses: slots_released is recorded behind the work that may read   *)
(* the slots.  The staged pager makes the upload stream wait for it        *)
(* (begin), the host pager waits itself before it writes the slots         *)
(* (wait_for_host_slot_write).                                             *)
(***************************************************************************)
ReleaseSlots ==
  /\ pc = "plan" /\ todo = <<>> /\ misses # <<>>
  /\ infer' = Append(infer, Record(Token))
  /\ upload' = IF pager = "staged" THEN Append(upload, Wait(Token)) ELSE upload
  /\ pc' = "read"
  /\ UNCHANGED <<pager, groups, todo, protected, misses, cache, uploads, pinned, device>>

SlotsReleased == pager = "host" => ~Recorded(infer)

Missing(i) == misses[i].expert

(***************************************************************************)
(* The records are read by one thread per miss, into the slots or into the *)
(* staging buffers.                                                        *)
(***************************************************************************)
WriteSlots(good) ==
  slot_data' = [s \in Slots |->
    LET m == {i \in DOMAIN misses : misses[i].slot = s}
    IN  IF m = {} THEN slot_data[s]
        ELSE IF m \subseteq good THEN Missing(CHOOSE i \in m : TRUE) ELSE None]

WriteStaging(good) ==
  staging' = [i \in 1..TopK |->
    IF i \notin DOMAIN misses THEN staging[i] ELSE IF i \in good THEN Missing(i) ELSE None]

WriteRecords(good) ==
  \/ /\ pager = "host"
     /\ WriteSlots(good)
     /\ UNCHANGED <<map_staging, staging, device_map, slot_indices>>
  \/ /\ pager = "staged"
     /\ WriteStaging(good)
     /\ UNCHANGED <<map_staging, device>>

ReadRecords ==
  /\ pc = "read"
  /\ SlotsReleased
  /\ WriteRecords(DOMAIN misses)
  /\ pc' = "publish"
  /\ UNCHANGED <<pager, groups, todo, protected, misses, cache, uploads, infer, upload>>

(***************************************************************************)
(* A resolve that fails, and with it the pass.  From its reads on the host *)
(* pager calls discard_misses; every other error leaves by `?' and the     *)
(* planned misses stay in the host map as if they were resident.           *)
(***************************************************************************)
DiscardMisses ==
  /\ expert_to_slot' = [e \in Experts |->
       IF \E i \in DOMAIN misses : misses[i] = [expert |-> e, slot |-> expert_to_slot[e]]
       THEN None ELSE expert_to_slot[e]]
  /\ slot_to_expert' = [s \in Slots |->
       IF \E i \in DOMAIN misses : misses[i] = [expert |-> slot_to_expert[s], slot |-> s]
       THEN None ELSE slot_to_expert[s]]

MayFail == Len(upload) < MaxBacklog /\ Cardinality(unfilled) <= MaxUnfilled

Planned == {Missing(i) : i \in DOMAIN misses}

\* Mutant: a failed resolve is tried again, for ever.
FailResolveRetries(discards) ==
  /\ IF discards THEN DiscardMisses /\ UNCHANGED unfilled
     ELSE unfilled' = unfilled \cup Planned /\ UNCHANGED <<expert_to_slot, slot_to_expert>>
  /\ pc' = "resolve" /\ Forget
  /\ UNCHANGED <<pager, groups, last_used, inflight>>

FailResolve(discards) ==
  /\ IF discards THEN DiscardMisses /\ UNCHANGED unfilled
     ELSE unfilled' = unfilled \cup Planned /\ UNCHANGED <<expert_to_slot, slot_to_expert>>
  /\ pc' = "idle" /\ groups' = <<>> /\ Forget
  /\ UNCHANGED <<pager, last_used, inflight>>

\* A CUDA call of begin or wait_for_host_slot_write fails; neither pager forgets
\* the misses then.
ReleaseFails ==
  /\ pc = "plan" /\ todo = <<>> /\ misses # <<>> /\ pager \in CopyFaults /\ MayFail
  /\ infer' \in {infer, Append(infer, Record(Token))}
  /\ upload' \in IF pager = "staged" /\ infer' # infer THEN {upload, Append(upload, Wait(Token))}
                  ELSE {upload}
  /\ FailResolve(FALSE)
  /\ UNCHANGED <<pinned, device>>

ReadFails ==
  /\ pc = "read" /\ pager \in ReadFaults /\ MayFail
  /\ SlotsReleased
  /\ \E good \in SUBSET DOMAIN misses : good # DOMAIN misses /\ WriteRecords(good)
  /\ FailResolve(pager = "host")
  /\ UNCHANGED <<infer, upload>>

(***************************************************************************)
(* The uploads: the record copies of the staged pager, the device map from *)
(* its pinned copy (enqueue_mapping_upload), then finish: uploads_ready is *)
(* recorded and the inference stream waits for it.                         *)
(***************************************************************************)
Copies == IF pager = "staged" THEN [i \in DOMAIN misses |-> Copy(i, misses[i].slot)] ELSE <<>>
Uploads == Copies \o <<MapCopy, Record(Token)>>

Publish ==
  /\ pc = "publish"
  /\ map_staging' = expert_to_slot
  /\ upload' = upload \o Uploads
  /\ infer' = infer \o <<Wait(Token)>> \o Launch
  /\ inflight' = TRUE
  /\ unfilled' = unfilled \ Planned
  /\ NextGroup
  /\ UNCHANGED <<pager, cache, staging, device>>

\* A CUDA call fails after the first k of the uploads were enqueued.
PublishFails ==
  /\ pc = "publish" /\ MayFail
  /\ \E k \in 0..Len(Uploads) :
       /\ pager \in (IF k <= Len(Copies) THEN CopyFaults ELSE FinishFaults)
       /\ upload' = upload \o SubSeq(Uploads, 1, k)
       /\ map_staging' = IF k < Len(Copies) THEN map_staging ELSE expert_to_slot
  /\ FailResolve(pager = "host")
  /\ UNCHANGED <<staging, infer, device>>

(***************************************************************************)
(* The device (external): each stream executes its oldest operation.       *)
(***************************************************************************)
InferRecord ==
  /\ infer # <<>> /\ Head(infer).op = "record"
  /\ infer' = Tail(infer)
  /\ UNCHANGED <<pager, host, cache, uploads, pinned, upload, device>>

InferWait ==
  /\ infer # <<>> /\ Head(infer).op = "wait"
  /\ ~Pending(upload, Head(infer).token)
  /\ infer' = Tail(infer)
  /\ UNCHANGED <<pager, host, cache, uploads, pinned, upload, device>>

InferRemap ==
  /\ infer # <<>> /\ Head(infer).op = "remap"
  /\ slot_indices' = [i \in DOMAIN Head(infer).route |-> device_map[Head(infer).route[i]]]
  /\ infer' = Tail(infer)
  /\ UNCHANGED <<pager, host, cache, uploads, pinned, upload, device_map, slot_data>>

\* The indices are read by these kernels only, so the model forgets them.
InferRun ==
  /\ infer # <<>> /\ Head(infer).op = "run"
  /\ slot_indices' = <<>>
  /\ infer' = Tail(infer)
  /\ UNCHANGED <<pager, host, cache, uploads, pinned, upload, device_map, slot_data>>

UploadSync ==
  /\ upload # <<>>
  /\ \/ Head(upload).op = "record"
     \/ Head(upload).op = "wait" /\ ~Pending(infer, Head(upload).token)
  /\ upload' = Tail(upload)
  /\ UNCHANGED <<pager, host, cache, uploads, pinned, infer, device>>

UploadRecord ==
  /\ upload # <<>> /\ Head(upload).op = "copy"
  /\ slot_data' = [slot_data EXCEPT ![Head(upload).slot] = staging[Head(upload).buffer]]
  /\ upload' = Tail(upload)
  /\ UNCHANGED <<pager, host, cache, uploads, pinned, infer, device_map, slot_indices>>

UploadMap ==
  /\ upload # <<>> /\ Head(upload).op = "map"
  /\ device_map' = map_staging
  /\ upload' = Tail(upload)
  /\ UNCHANGED <<pager, host, cache, uploads, pinned, infer, slot_data, slot_indices>>

-----------------------------------------------------------------------------
Host ==
  \/ BeginResolve \/ PlanHit \/ PlanMiss \/ AllHits \/ ReleaseSlots \/ ReleaseFails
  \/ ReadRecords \/ ReadFails \/ Publish \/ PublishFails

Device ==
  \/ InferRecord \/ InferWait \/ InferRemap \/ InferRun
  \/ UploadSync \/ UploadRecord \/ UploadMap

PagingNext == StartPass \/ Host \/ Device

(***************************************************************************)
(* The host thread runs until the pass is enqueued, and the device keeps   *)
(* executing both streams.  Nothing makes another pass start.              *)
(***************************************************************************)
Fairness ==
  /\ WF_pagingVars(Host)
  /\ WF_pagingVars(InferRecord \/ InferWait \/ InferRemap \/ InferRun)
  /\ WF_pagingVars(UploadSync \/ UploadRecord \/ UploadMap)

PagingSpec == PagingInit /\ [][PagingNext]_pagingVars /\ Fairness

-----------------------------------------------------------------------------
MaybeSlot == Slots \cup {None}
MaybeExpert == Experts \cup {None}

\* Every variable has its type (the fields of expert_cache.rs and the pagers).
PagingTypeOK ==
  /\ pager \in Pagers
  /\ pc \in {"idle", "resolve", "plan", "read", "publish"}
  /\ protected \subseteq Slots
  /\ \A i \in DOMAIN misses : misses[i] \in [expert : Experts, slot : Slots]
  /\ expert_to_slot \in [Experts -> MaybeSlot]
  /\ slot_to_expert \in [Slots -> MaybeExpert]
  /\ last_used \in [Slots -> 0..Capacity]
  /\ inflight \in BOOLEAN
  /\ unfilled \subseteq Experts
  /\ map_staging \in [Experts -> MaybeSlot]
  /\ staging \in [1..TopK -> MaybeExpert]
  /\ device_map \in [Experts -> MaybeSlot]
  /\ slot_data \in [Slots -> MaybeExpert]

KernelRuns == infer # <<>> /\ Head(infer).op = "run"
KernelRoute == Head(infer).route
ReadsItsExpert(i) == slot_indices[i] # None /\ slot_data[slot_indices[i]] = KernelRoute[i]

\* From the moment the routed kernels of a working set reach the head of the
\* inference stream until they are done, each of their slot indices is a slot
\* that holds the record of the expert they were launched for: no expert planned
\* by a failed resolve is taken for resident.
KernelReadsRoutedExperts == KernelRuns => \A i \in DOMAIN KernelRoute : ReadsItsExpert(i)

\* The same for every expert but those a failed resolve left in the host map and
\* no later one has loaded: neither the asynchronous uploads, nor what a failed
\* resolve has enqueued, nor the host's writes for the next working set disturb
\* the slot, the device map or the indices of any other.
KernelReadsLoadedExperts ==
  KernelRuns => \A i \in DOMAIN KernelRoute : ReadsItsExpert(i) \/ KernelRoute[i] \in unfilled

\* plan_experts never answers "no evictable slot for the current route": while
\* an expert of the route has no slot, some slot is free or not protected.
RouteAlwaysFits ==
  pc = "plan" /\ (\E i \in DOMAIN todo : expert_to_slot[todo[i]] = None)
    => FreeSlots \cup Evictable # {}

\* Planning a route never evicts an expert of that route that was resident when
\* the plan began, so it is never read again from storage.
RouteNotReloaded ==
  [][pc = "plan" /\ pc' = "plan" =>
       \A e \in Range(Route) : expert_to_slot[e] # None => expert_to_slot'[e] # None]_pagingVars

\* Every pass that starts is enqueued or fails: the host's waits for the two
\* streams, and the waits of the streams for each other, always end, and the
\* device then executes everything that was enqueued.
PassCompletes == pc # "idle" ~> pc = "idle" /\ infer = <<>>
=============================================================================
