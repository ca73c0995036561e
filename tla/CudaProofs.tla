----------------------------- MODULE CudaProofs -----------------------------
(***************************************************************************)
(* Proofs about the CUDA layer.  ExecutionSlots, for any number of slots   *)
(* and loose resources, any queue length and either kind of backend: the   *)
(* host never has a resource that queued work touches, and the detailed    *)
(* ownership state machine implements ResourceOwnership.  PagedRows, for   *)
(* every number of workers, batch capacity and set of row lists: a gather  *)
(* sees the rows of the pass that launched it, both batches are accounted  *)
(* for, and a dropped reader is quiet.                                     *)
(***************************************************************************)
EXTENDS ExecutionSlots, PagedRows, QueueTheorems, TLAPS

(***************************************************************************)
(* ExecutionSlots.                                                         *)
(***************************************************************************)
\* Every queued command on r is ahead of the fence r's owner holds.
Covered(r) ==
  \A i \in DOMAIN queue : queue[i] = r => fence[r] \in Nat /\ i <= fence[r]

\* HostHasNoQueuedWork is not inductive: that a fence which is done means no work is
\* left rests on the fence covering all of the resource's work while it is lent.
ResourceInv(r) ==
  /\ eager => encoder[r] = 0
  /\ status[r] \in {"ready", "completed"} => ~Queued(r) /\ fence[r] = NoFence /\ encoder[r] = 0
  /\ status[r] = "recording" => eager \/ Covered(r)
  /\ status[r] = "inflight" =>
       /\ fence[r] \in Nat /\ encoder[r] = 0
       /\ eager \/ Covered(r)
       /\ complete[r] => ~Queued(r)

SlotsInv == TypeOK /\ \A r \in Resource : ResourceInv(r)

-----------------------------------------------------------------------------
\* A resource whose own state and whose place in the queue do not change.
LEMMA Untouched ==
  ASSUME NEW r \in Resource, ResourceInv(r), eager' = eager, status'[r] = status[r],
         encoder'[r] = encoder[r], fence'[r] = fence[r], complete'[r] = complete[r],
         \A i \in DOMAIN queue' : queue'[i] = r => i \in DOMAIN queue /\ queue[i] = r
  PROVE  ResourceInv(r)'
<1>1. ~Queued(r) => ~Queued(r)' BY DEF Queued
<1>2. Covered(r) => Covered(r)' BY DEF Covered
<1> QED BY <1>1, <1>2 DEF ResourceInv

\* A done fence, or a remembered completion, means no work of r is queued.
LEMMA DoneMeansIdle ==
  ASSUME SlotsInv, NEW r \in Resource, eager \/ Covered(r), FenceDone(r)
  PROVE  ~Queued(r)
<1>1. CASE eager
  BY <1>1 DEF FenceDone, Queued
<1>2. CASE ~eager
  <2>1. \A i \in DOMAIN queue : i > 0 BY DEF SlotsInv, TypeOK
  <2>2. fence[r] = 0 BY <1>2 DEF FenceDone
  <2>3. Covered(r) BY <1>2
  <2>4. \A i \in DOMAIN queue : i \in Nat BY DEF SlotsInv, TypeOK
  <2> QED BY <2>1, <2>2, <2>3, <2>4 DEF Covered, Queued
<1> QED BY <1>1, <1>2

\* What a submitted encoder puts into the queue, and where.
LEMMA SubmitQueue ==
  ASSUME SlotsInv, NEW r \in Resource
  PROVE  /\ Enqueued(r) \in Seq(Resource)
         /\ DOMAIN Enqueued(r) = 1..(Len(queue) + encoder[r])
         /\ \A i \in DOMAIN Enqueued(r) : Enqueued(r)[i] # r => i \in DOMAIN queue /\ queue[i] = Enqueued(r)[i]
<1> DEFINE batch == [i \in 1..encoder[r] |-> r]
<1>1. encoder[r] \in Nat /\ queue \in Seq(Resource) BY DEF SlotsInv, TypeOK
<1>2. batch \in Seq(Resource) /\ Len(batch) = encoder[r] BY <1>1
<1>3. \A i \in 1..Len(batch) : batch[i] = r BY <1>1, <1>2
<1> HIDE DEF batch
<1>4. Enqueued(r) = queue \o batch BY DEF Enqueued, batch
<1> QED BY <1>1, <1>2, <1>3, <1>4

-----------------------------------------------------------------------------
\* The inductive invariant holds initially.
LEMMA InitInv == Init => SlotsInv
<1> SUFFICES ASSUME Init PROVE SlotsInv OBVIOUS
<1>1. TypeOK BY DEF Init, TypeOK
<1>2. \A r \in Resource : ~Queued(r) BY DEF Init, Queued
<1> QED BY <1>1, <1>2 DEF SlotsInv, ResourceInv, Init

\* A step that leaves the queue alone and changes the state of r only.
LEMMA OneResource ==
  ASSUME SlotsInv, NEW r \in Resource, queue' = queue, eager' = eager, TypeOK',
         \A s \in Resource \ {r} : /\ status'[s] = status[s] /\ encoder'[s] = encoder[s]
                                   /\ fence'[s] = fence[s] /\ complete'[s] = complete[s],
         ResourceInv(r)'
  PROVE  SlotsInv'
<1>1. ASSUME NEW s \in Resource, s # r PROVE ResourceInv(s)'
  <2>1. ResourceInv(s) BY DEF SlotsInv
  <2>2. s \in Resource \ {r} BY <1>1
  <2> QED BY <2>1, <2>2, Untouched
<1> QED BY <1>1 DEF SlotsInv

\* Enqueueing what an encoder retains, with a fence behind it, keeps the invariant of
\* every resource.
LEMMA SubmitEncoderInv ==
  ASSUME SlotsInv, NEW r \in Resource, status[r] = "recording", SubmitEncoder(r),
         eager' = eager, complete' = [complete EXCEPT ![r] = FALSE] \/ complete' = complete,
         \/ status' = status
         \/ status' = [status EXCEPT ![r] = "inflight"] /\ complete'[r] = FALSE
  PROVE  SlotsInv'
<1>1. TypeOK'
  <2>1. queue' \in Seq(Resource) BY SubmitQueue DEF SubmitEncoder
  <2>2. queue \in Seq(Resource) /\ encoder \in [Resource -> Nat] BY DEF SlotsInv, TypeOK
  <2>3. Len(queue) + encoder[r] \in Nat BY <2>2
  <2> QED BY <2>1, <2>3 DEF SlotsInv, TypeOK, SubmitEncoder
<1>2. ASSUME NEW s \in Resource, s # r PROVE ResourceInv(s)'
  <2>1. ResourceInv(s) BY DEF SlotsInv
  <2>2. /\ status'[s] = status[s] /\ encoder'[s] = encoder[s]
        /\ fence'[s] = fence[s] /\ complete'[s] = complete[s]
    BY <1>2 DEF SlotsInv, TypeOK, SubmitEncoder
  <2>3. \A i \in DOMAIN queue' : queue'[i] = s => i \in DOMAIN queue /\ queue[i] = s
    BY <1>2, SubmitQueue DEF SubmitEncoder
  <2> QED BY <2>1, <2>2, <2>3, Untouched
<1>3. ResourceInv(r)'
  <2>1. encoder'[r] = 0 /\ fence'[r] = Len(queue) + encoder[r]
    BY DEF SlotsInv, TypeOK, SubmitEncoder
  <2>2. Len(queue) + encoder[r] \in Nat BY DEF SlotsInv, TypeOK
  <2>3. \A i \in DOMAIN queue' : i <= Len(queue) + encoder[r]
    BY SubmitQueue, <2>2 DEF SubmitEncoder
  <2>4. Covered(r)' BY <2>1, <2>2, <2>3 DEF Covered
  <2>5. status'[r] = "recording" \/ (status'[r] = "inflight" /\ complete'[r] = FALSE)
    BY DEF SlotsInv, TypeOK
  <2> QED BY <2>1, <2>2, <2>4, <2>5 DEF ResourceInv
<1> QED BY <1>1, <1>2, <1>3 DEF SlotsInv

\* Recording a command keeps the invariant.
LEMMA RecordInv ==
  ASSUME SlotsInv, NEW r \in Resource, RecordCommand(r)
  PROVE  SlotsInv'
<1>1. TypeOK'
  <2>1. queue' \in Seq(Resource)
    <3>1. queue \in Seq(Resource) BY DEF SlotsInv, TypeOK
    <3>2. queue' = queue \/ queue' = Append(queue, r) BY DEF RecordCommand
    <3> QED BY <3>1, <3>2
  <2>2. encoder' \in [Resource -> Nat]
    <3>1. encoder \in [Resource -> Nat] BY DEF SlotsInv, TypeOK
    <3>2. encoder' = encoder \/ encoder' = [encoder EXCEPT ![r] = @ + 1] BY DEF RecordCommand
    <3> QED BY <3>1, <3>2
  <2> QED BY <2>1, <2>2 DEF SlotsInv, TypeOK, RecordCommand
<1>2. CASE eager
  <2>1. queue' = Append(queue, r) /\ encoder' = encoder BY <1>2 DEF RecordCommand
  <2>2. queue \in Seq(Resource) BY DEF SlotsInv, TypeOK
  <2>3. ASSUME NEW s \in Resource, s # r PROVE ResourceInv(s)'
    <3>1. ResourceInv(s) BY DEF SlotsInv
    <3>2. \A i \in DOMAIN queue' : queue'[i] = s => i \in DOMAIN queue /\ queue[i] = s
      BY <2>1, <2>2, <2>3
    <3> QED BY <2>1, <3>1, <3>2, Untouched DEF RecordCommand
  <2>4. ResourceInv(r)'
    BY <1>2, <2>1 DEF SlotsInv, ResourceInv, RecordCommand
  <2> QED BY <1>1, <2>3, <2>4 DEF SlotsInv
<1>3. CASE ~eager
  <2>1. /\ queue' = queue /\ eager' = eager
        /\ \A s \in Resource \ {r} : /\ status'[s] = status[s] /\ encoder'[s] = encoder[s]
                                     /\ fence'[s] = fence[s] /\ complete'[s] = complete[s]
    BY <1>3 DEF RecordCommand, SlotsInv, TypeOK
  <2>2. ResourceInv(r)'
    <3>1. Covered(r) BY <1>3 DEF SlotsInv, ResourceInv, RecordCommand
    <3>2. Covered(r)' BY <3>1, <1>3 DEF Covered, RecordCommand
    <3> QED BY <3>2, <1>3 DEF ResourceInv, RecordCommand
  <2> QED BY <1>1, <2>1, <2>2, OneResource
<1> QED BY <1>2, <1>3

\* The device executing its oldest command keeps the invariant: every fence moves with
\* the queue.
LEMMA ExecuteInv ==
  ASSUME SlotsInv, Execute
  PROVE  SlotsInv'
<1>1. queue \in Seq(Resource) /\ queue # <<>> /\ queue' = Tail(queue)
  BY DEF SlotsInv, TypeOK, Execute
<1>2. /\ queue' \in Seq(Resource)
      /\ \A i \in DOMAIN queue' : i \in Nat /\ i + 1 \in DOMAIN queue /\ queue'[i] = queue[i + 1]
  BY <1>1
<1>3. TypeOK'
  <2>1. fence' \in [Resource -> Nat \cup {NoFence}]
    BY SlotsAssumption DEF SlotsInv, TypeOK, Execute
  <2> QED BY <1>2, <2>1 DEF SlotsInv, TypeOK, Execute
<1>4. ASSUME NEW r \in Resource PROVE ResourceInv(r)'
  <2>1. ~Queued(r) => ~Queued(r)' BY <1>2 DEF Queued
  <2>2. /\ fence[r] = NoFence => fence'[r] = NoFence
        /\ fence[r] \in Nat => fence'[r] \in Nat /\ (fence[r] > 0 => fence'[r] = fence[r] - 1)
    BY SlotsAssumption DEF Execute
  <2>3. Covered(r) => Covered(r)'
    <3> SUFFICES ASSUME Covered(r), NEW i \in DOMAIN queue', queue'[i] = r
                 PROVE  fence'[r] \in Nat /\ i <= fence'[r]
      BY DEF Covered
    <3>1. i \in Nat /\ i + 1 \in DOMAIN queue /\ queue[i + 1] = r BY <1>2
    <3>2. fence[r] \in Nat /\ i + 1 <= fence[r] BY <3>1 DEF Covered
    <3> QED BY <3>1, <3>2, <2>2
  <2> QED BY <2>1, <2>2, <2>3 DEF SlotsInv, ResourceInv, Execute
<1> QED BY <1>3, <1>4 DEF SlotsInv

\* Every other action of r: the queue stays as it is.
LEMMA QuietInv ==
  ASSUME SlotsInv, NEW r \in Resource,
         \/ Begin(r) \/ Discard(r) \/ DropRecording(r) \/ ObserveSlot(r)
         \/ Recycle(r) \/ ObserveLoose(r) \/ Reclaim(r)
  PROVE  SlotsInv' /\ queue' = queue
<1>1. ResourceInv(r) BY DEF SlotsInv
<1>2. TypeOK BY DEF SlotsInv
<1>q. queue' = queue /\ eager' = eager
  BY DEF Begin, Discard, DropRecording, ObserveSlot, Recycle, ObserveLoose, Reclaim
<1>3. \A s \in Resource \ {r} : /\ status'[s] = status[s] /\ encoder'[s] = encoder[s]
                                /\ fence'[s] = fence[s] /\ complete'[s] = complete[s]
  BY <1>2 DEF TypeOK, Begin, Discard, DropRecording, ObserveSlot, Recycle, ObserveLoose,
              Reclaim, Release
<1>4. Len(queue) \in Nat BY <1>2 DEF TypeOK
<1>5. TypeOK'
  <2>1. CASE Begin(r) BY <1>2, <2>1 DEF TypeOK, Begin
  <2>2. CASE Discard(r)
    <3>1. DiscardFence(r) \in Nat \cup {NoFence} BY <1>2, <1>4 DEF TypeOK, DiscardFence
    <3> QED BY <1>2, <2>2, <3>1 DEF TypeOK, Discard
  <2>3. CASE DropRecording(r) BY <1>2, <2>3 DEF TypeOK, DropRecording, Release
  <2>4. CASE ObserveSlot(r) BY <1>2, <2>4 DEF TypeOK, ObserveSlot
  <2>5. CASE Recycle(r) BY <1>2, <2>5 DEF TypeOK, Recycle
  <2>6. CASE ObserveLoose(r) BY <1>2, <2>6 DEF TypeOK, ObserveLoose
  <2>7. CASE Reclaim(r) BY <1>2, <2>7 DEF TypeOK, Reclaim, Release
  <2> QED BY <2>1, <2>2, <2>3, <2>4, <2>5, <2>6, <2>7
<1>6. Queued(r)' <=> Queued(r) BY <1>q DEF Queued
<1>7. fence'[r] = fence[r] => (Covered(r)' <=> Covered(r)) BY <1>q DEF Covered
<1>8. ResourceInv(r)'
  <2>1. CASE Begin(r)
    <3>1. Covered(r) BY <1>1, <2>1 DEF ResourceInv, Begin, Covered, Queued
    <3>2. status'[r] = "recording" /\ encoder' = encoder /\ fence' = fence
      BY <1>2, <2>1 DEF Begin, TypeOK
    <3> QED BY <1>1, <1>7, <1>q, <3>1, <3>2 DEF ResourceInv
  <2>2. CASE Discard(r)
    <3>1. /\ encoder'[r] = 0 /\ fence'[r] = DiscardFence(r) /\ complete'[r] = FALSE
          /\ status[r] = "recording"
          /\ status'[r] = IF DiscardFence(r) = NoFence THEN "ready" ELSE "inflight"
      BY <1>2, <2>2 DEF Discard, TypeOK
    <3>2. CASE eager
      <4>1. fence'[r] \in Nat /\ status'[r] = "inflight"
        BY <1>4, <3>1, <3>2, SlotsAssumption DEF DiscardFence
      <4> QED BY <1>q, <3>1, <3>2, <4>1 DEF ResourceInv
    <3>3. CASE ~eager
      <4>1. Covered(r) /\ fence'[r] = fence[r] BY <1>1, <3>1, <3>3 DEF ResourceInv, DiscardFence
      <4>2. Covered(r)' BY <4>1, <1>7
      <4>3. CASE fence[r] = NoFence
        <5>1. ~Queued(r) BY <4>1, <4>3, SlotsAssumption DEF Covered, Queued
        <5>2. status'[r] = "ready" BY <3>1, <3>3, <4>3 DEF DiscardFence
        <5> QED BY <1>6, <3>1, <3>3, <1>q, <4>1, <4>3, <5>1, <5>2 DEF ResourceInv
      <4>4. CASE fence[r] \in Nat
        <5>1. status'[r] = "inflight" BY <3>1, <3>3, <4>4, SlotsAssumption DEF DiscardFence
        <5> QED BY <3>1, <3>3, <1>q, <4>1, <4>2, <4>4, <5>1 DEF ResourceInv
      <4> QED BY <4>3, <4>4, <1>2 DEF TypeOK
    <3> QED BY <3>2, <3>3
  <2>3. CASE DropRecording(r)
    <3>1. encoder'[r] = 0 /\ fence'[r] = NoFence /\ status'[r] = "ready"
      BY <1>2, <2>3 DEF DropRecording, Release, TypeOK
    <3>2. eager \/ Covered(r) BY <1>1, <2>3 DEF ResourceInv, DropRecording
    <3>3. ~Queued(r)
      <4>1. CASE DiscardFence(r) # NoFence
        BY <4>1, <3>2, <2>3, DoneMeansIdle DEF DropRecording
      <4>2. CASE DiscardFence(r) = NoFence
        BY <4>2, <1>4, <3>2, SlotsAssumption DEF DiscardFence, Covered, Queued
      <4> QED BY <4>1, <4>2
    <3> QED BY <1>6, <3>1, <3>3 DEF ResourceInv
  <2>4. CASE ObserveSlot(r)
    <3>1. /\ encoder'[r] = encoder[r] /\ fence'[r] = NoFence /\ status'[r] = "completed"
          /\ status[r] = "inflight"
      BY <1>2, <2>4 DEF ObserveSlot, TypeOK
    <3>2. ~Queued(r) BY <1>1, <2>4, <3>1, DoneMeansIdle DEF ResourceInv, ObserveSlot
    <3> QED BY <1>1, <1>6, <1>q, <3>1, <3>2 DEF ResourceInv
  <2>5. CASE Recycle(r)
    <3>1. encoder' = encoder /\ fence' = fence /\ status'[r] = "ready" /\ status[r] = "completed"
      BY <1>2, <2>5 DEF Recycle, TypeOK
    <3> QED BY <1>1, <1>6, <1>q, <3>1 DEF ResourceInv
  <2>6. CASE ObserveLoose(r)
    <3>1. encoder' = encoder /\ fence' = fence /\ status' = status /\ status[r] = "inflight"
      BY <2>6 DEF ObserveLoose
    <3>2. ~Queued(r) BY <1>1, <2>6, <3>1, DoneMeansIdle DEF ResourceInv, ObserveLoose
    <3> QED BY <1>1, <1>6, <1>7, <1>q, <3>1, <3>2 DEF ResourceInv
  <2>7. CASE Reclaim(r)
    <3>1. /\ encoder'[r] = encoder[r] /\ fence'[r] = NoFence /\ status'[r] = "ready"
          /\ status[r] = "inflight"
      BY <1>2, <2>7 DEF Reclaim, Release, TypeOK
    <3>2. ~Queued(r)
      <4>1. CASE complete[r] BY <1>1, <3>1, <4>1 DEF ResourceInv
      <4>2. CASE FenceDone(r) BY <1>1, <3>1, <4>2, DoneMeansIdle DEF ResourceInv
      <4> QED BY <2>7, <4>1, <4>2 DEF Reclaim
    <3> QED BY <1>1, <1>6, <1>q, <3>1, <3>2 DEF ResourceInv
  <2> QED BY <2>1, <2>2, <2>3, <2>4, <2>5, <2>6, <2>7
<1> QED BY <1>3, <1>5, <1>8, <1>q, OneResource

\* Every step keeps the inductive invariant.
LEMMA StepInv == SlotsInv /\ [Next]_vars => SlotsInv'
<1> SUFFICES ASSUME SlotsInv, [Next]_vars PROVE SlotsInv' OBVIOUS
<1>1. CASE UNCHANGED vars
  <2>1. TypeOK' BY <1>1 DEF vars, SlotsInv, TypeOK
  <2>2. ASSUME NEW r \in Resource PROVE ResourceInv(r)'
    BY <1>1, Untouched DEF vars, SlotsInv
  <2> QED BY <2>1, <2>2 DEF SlotsInv
<1>2. CASE Execute BY <1>2, ExecuteInv
<1>3. ASSUME NEW r \in Resource, RecordCommand(r) PROVE SlotsInv' BY <1>3, RecordInv
<1>4. ASSUME NEW r \in Resource, SubmitSegment(r) \/ Submit(r) PROVE SlotsInv'
  <2>1. CASE SubmitSegment(r) BY <2>1, SubmitEncoderInv DEF SubmitSegment
  <2>2. CASE Submit(r)
    <3>1. complete'[r] = FALSE BY <2>2 DEF Submit, SlotsInv, TypeOK
    <3> QED BY <2>2, <3>1, SubmitEncoderInv DEF Submit
  <2> QED BY <1>4, <2>1, <2>2
<1> QED BY <1>1, <1>2, <1>3, <1>4, QuietInv DEF Next

\* Every variable of the slot set keeps its type.
THEOREM SlotsTyped == Spec => []TypeOK
<1>1. SlotsInv => TypeOK BY DEF SlotsInv
<1> QED BY InitInv, StepInv, <1>1, PTL DEF Spec

\* Resources the host can reach are never touched by queued device work, for every
\* number of resources and every order of submissions, failures and completions.
THEOREM NoSharedAccess == Spec => []HostHasNoQueuedWork
<1>1. SlotsInv => HostHasNoQueuedWork BY DEF SlotsInv, ResourceInv, HostHasNoQueuedWork
<1> QED BY InitInv, StepInv, <1>1, PTL DEF Spec

-----------------------------------------------------------------------------
\* The refinement mapping, named.
HostOwned(r) == status[r] \in {"ready", "completed"}
Owner == [r \in Resource |-> IF HostOwned(r) THEN "host" ELSE "device"]
Running == {r \in Resource : Queued(r)}

\* The initial states map to initial states of ResourceOwnership.
LEMMA MappedInit == SlotsInv /\ Init => Ownership!Init
<1> SUFFICES ASSUME Init PROVE Ownership!Init OBVIOUS
<1>1. \A r \in Resource : ~Queued(r) BY DEF Init, Queued
<1> QED BY <1>1 DEF Init, Ownership!Init

\* A step that changes neither who has a resource nor what is queued is a stutter.
LEMMA MappedStutter ==
  ASSUME \A r \in Resource : HostOwned(r)' <=> HostOwned(r),
         \A r \in Resource : Queued(r)' <=> Queued(r)
  PROVE  Owner' = Owner /\ Running' = Running
BY DEF Owner, Running

\* A step that changes the owner of one resource and no queued work.
LEMMA MappedMove ==
  ASSUME SlotsInv, NEW r \in Resource, queue' = queue, TypeOK',
         \A s \in Resource \ {r} : status'[s] = status[s],
         HostOwned(r)' => ~Queued(r)
  PROVE  [Ownership!Next]_<<Owner, Running>>
<1>1. \A s \in Resource : Queued(s)' <=> Queued(s) BY DEF Queued
<1>2. Running' = Running BY <1>1 DEF Running
<1>3. \A s \in Resource \ {r} : HostOwned(s)' <=> HostOwned(s) BY DEF HostOwned
<1>4. CASE HostOwned(r)' <=> HostOwned(r)
  BY <1>1, <1>3, <1>4, MappedStutter
<1>5. CASE HostOwned(r) /\ ~HostOwned(r)'
  <2>1. Owner[r] = "host" /\ Owner' = [Owner EXCEPT ![r] = "device"]
    BY <1>3, <1>5 DEF Owner
  <2>2. Ownership!Lend(r) BY <1>2, <2>1 DEF Ownership!Lend, Owner, Running, HostOwned
  <2> QED BY <2>2 DEF Ownership!Next
<1>6. CASE ~HostOwned(r) /\ HostOwned(r)'
  <2>1. Owner[r] = "device" /\ Owner' = [Owner EXCEPT ![r] = "host"]
    BY <1>3, <1>6 DEF Owner
  <2>2. r \notin Running BY <1>6 DEF Running
  <2>3. Ownership!Return(r) BY <1>2, <2>1, <2>2 DEF Ownership!Return, Owner, Running, HostOwned
  <2> QED BY <2>3 DEF Ownership!Next
<1> QED BY <1>4, <1>5, <1>6

\* A step that queues or ends work of one lent resource.
LEMMA MappedWork ==
  ASSUME SlotsInv, NEW r \in Resource, ~HostOwned(r),
         \A s \in Resource : HostOwned(s)' <=> HostOwned(s),
         \A s \in Resource \ {r} : Queued(s)' <=> Queued(s)
  PROVE  [Ownership!Next]_<<Owner, Running>>
<1>1. Owner' = Owner BY DEF Owner
<1>2. Owner[r] = "device" BY DEF Owner
<1>3. Running' \in {Running \cup {r}, Running \ {r}} BY DEF Running
<1>4. Ownership!Work(r) BY <1>1, <1>2, <1>3 DEF Ownership!Work, Owner, Running, HostOwned
<1> QED BY <1>4 DEF Ownership!Next

\* Every step maps to a step of ResourceOwnership or to a stutter.
LEMMA MappedStep ==
  SlotsInv /\ SlotsInv' /\ [Next]_vars => [Ownership!Next]_<<Owner, Running>>
<1> SUFFICES ASSUME SlotsInv, SlotsInv', [Next]_vars
             PROVE  [Ownership!Next]_<<Owner, Running>>
  OBVIOUS
<1>t. TypeOK /\ TypeOK' BY DEF SlotsInv
<1>0. \A r \in Resource : HostOwned(r)' => ~Queued(r)'
  BY DEF SlotsInv, ResourceInv, HostOwned
<1>1. CASE UNCHANGED vars
  <2>1. \A r \in Resource : (HostOwned(r)' <=> HostOwned(r)) /\ (Queued(r)' <=> Queued(r))
    BY <1>1 DEF vars, HostOwned, Queued
  <2> QED BY <2>1, MappedStutter
<1>2. CASE Execute
  <2>1. queue \in Seq(Resource) /\ queue # <<>> /\ queue' = Tail(queue)
    BY <1>2, <1>t DEF TypeOK, Execute
  <2>2. Head(queue) \in Resource /\ queue[1] = Head(queue) /\ 1 \in DOMAIN queue BY <2>1
  <2>3. ~HostOwned(Head(queue)) BY <2>2 DEF SlotsInv, ResourceInv, HostOwned, Queued
  <2>4. \A s \in Resource : HostOwned(s)' <=> HostOwned(s) BY <1>2 DEF Execute, HostOwned
  <2>5. ASSUME NEW s \in Resource \ {Head(queue)} PROVE Queued(s)' <=> Queued(s)
    <3>1. \A i \in DOMAIN queue' : i + 1 \in DOMAIN queue /\ queue'[i] = queue[i + 1]
      BY <2>1
    <3>2. \A i \in DOMAIN queue : i # 1 => i - 1 \in DOMAIN queue' /\ queue'[i - 1] = queue[i]
      BY <2>1
    <3> QED BY <2>2, <3>1, <3>2 DEF Queued
  <2> QED BY <2>2, <2>3, <2>4, <2>5, MappedWork
<1>3. ASSUME NEW r \in Resource, RecordCommand(r)
      PROVE  [Ownership!Next]_<<Owner, Running>>
  <2>1. ~HostOwned(r) /\ \A s \in Resource : HostOwned(s)' <=> HostOwned(s)
    BY <1>3 DEF RecordCommand, HostOwned
  <2>2. queue \in Seq(Resource) /\ (queue' = queue \/ queue' = Append(queue, r))
    BY <1>3, <1>t DEF RecordCommand, TypeOK
  <2>3. ASSUME NEW s \in Resource \ {r} PROVE Queued(s)' <=> Queued(s)
    <3>1. CASE queue' = queue BY <3>1 DEF Queued
    <3>2. CASE queue' = Append(queue, r)
      <4>1. \A i \in DOMAIN queue : i \in DOMAIN queue' /\ queue'[i] = queue[i] BY <2>2, <3>2
      <4>2. \A i \in DOMAIN queue' : queue'[i] = s => i \in DOMAIN queue /\ queue[i] = s
        BY <2>2, <2>3, <3>2
      <4> QED BY <4>1, <4>2 DEF Queued
    <3> QED BY <2>2, <3>1, <3>2
  <2> QED BY <2>1, <2>3, MappedWork
<1>4. ASSUME NEW r \in Resource, SubmitSegment(r) \/ Submit(r)
      PROVE  [Ownership!Next]_<<Owner, Running>>
  <2>1. ~HostOwned(r) /\ \A s \in Resource : HostOwned(s)' <=> HostOwned(s)
    BY <1>4, <1>t DEF SubmitSegment, Submit, HostOwned, TypeOK
  <2>2. queue' = Enqueued(r) BY <1>4 DEF SubmitSegment, Submit, SubmitEncoder
  <2>3. ASSUME NEW s \in Resource \ {r} PROVE Queued(s)' <=> Queued(s)
    <3>1. \A i \in DOMAIN queue' : queue'[i] = s => i \in DOMAIN queue /\ queue[i] = s
      BY <2>2, <2>3, SubmitQueue
    <3>2. \A i \in DOMAIN queue : i \in DOMAIN queue' /\ queue'[i] = queue[i]
      <4>1. encoder[r] \in Nat /\ queue \in Seq(Resource) BY <1>t DEF TypeOK
      <4>2. [i \in 1..encoder[r] |-> r] \in Seq(Resource) BY <4>1
      <4> QED BY <2>2, <4>1, <4>2 DEF Enqueued
    <3> QED BY <3>1, <3>2 DEF Queued
  <2> QED BY <2>1, <2>3, MappedWork
<1>5. ASSUME NEW r \in Resource,
             \/ Begin(r) \/ Discard(r) \/ DropRecording(r) \/ ObserveSlot(r)
             \/ Recycle(r) \/ ObserveLoose(r) \/ Reclaim(r)
      PROVE  [Ownership!Next]_<<Owner, Running>>
  <2>1. queue' = queue BY <1>5, QuietInv
  <2>2. \A s \in Resource \ {r} : status'[s] = status[s]
    BY <1>5, <1>t DEF TypeOK, Begin, Discard, DropRecording, ObserveSlot, Recycle, ObserveLoose,
                      Reclaim, Release
  <2>3. HostOwned(r)' => ~Queued(r) BY <1>0, <2>1 DEF Queued
  <2> QED BY <1>t, <2>1, <2>2, <2>3, MappedMove
<1> QED BY <1>1, <1>2, <1>3, <1>4, <1>5 DEF Next

\* Recordings, submissions and bounded slots implement the ownership discipline:
\* every step maps to a lend, some work, a return or a stutter of ResourceOwnership.
THEOREM ImplementsOwnership == Spec => KeepsOwnership
<1>1. SlotsInv /\ SlotsInv' /\ [Next]_vars
        => [Ownership!Next]_<<[r \in Resource |-> IF status[r] \in {"ready", "completed"}
                                                  THEN "host" ELSE "device"],
                             {r \in Resource : Queued(r)}>>
  BY MappedStep DEF Owner, Running, HostOwned
<1> QED BY InitInv, StepInv, MappedInit, <1>1, PTL DEF Spec, KeepsOwnership, Ownership!Spec

-----------------------------------------------------------------------------
(***************************************************************************)
(* PagedRows.                                                              *)
(***************************************************************************)
Ask == [rows : Seq(Nat), slot : Batches]
Answer == [slot : Batches, ok : BOOLEAN]
Job == [slot : Batches, page : Nat, row : Nat]
Operation == [op : {"gather"}, slot : Batches, rows : Nat, want : Seq(Nat)]
             \cup [op : {"record"}, slot : Batches]
Coordinator == [phase : {"recv", "dispatch", "exit"}, rows : Seq(Nat),
                slot : Batches \cup {NoSlot}, dispatched : Nat, collected : Nat,
                failed : BOOLEAN]

\* Types of the pass and of the reader's books.
ReaderTypes ==
  /\ pc \in {"idle", "layers", "ready", "drain", "join", "dropped"}
  /\ want \in Seq(Nat)
  /\ free \in Seq(Batches) /\ busy \in Seq(Batches)
  /\ ready \in Batches \cup {NoSlot} /\ lost \subseteq Batches
  /\ pending \in BOOLEAN /\ open \in BOOLEAN

\* Types of the channels and of the memory they share.
ChannelTypes ==
  /\ request \in Seq(Ask) /\ response \in Seq(Answer)
  /\ coordinator \in Coordinator
  /\ jobs \in [Worker -> Seq(Job)] /\ completions \in Seq(BOOLEAN)
  /\ pages \in [Batches -> [1..MaxRows -> Nat \cup {Torn}]]
  /\ offsets \in [Batches -> [1..MaxRows -> Nat]]
  /\ row_count \in [Batches -> Nat]
  /\ stream \in Seq(Operation)

\* A batch travels from begin_rows to wait_ready: in the request channel, with the
\* coordinator or in the response channel.
Travelling == Requested \cup Working \cup Answered
Quiet == completions = <<>> /\ \A w \in Worker : jobs[w] = <<>>

\* The batches are in places that share none and leave none out.
Accounts ==
  /\ IsInjective(free) /\ IsInjective(busy)
  /\ ToSet(free) \cap ToSet(busy) = {}
  /\ Held \cap (ToSet(free) \cup ToSet(busy)) = {}
  /\ Travelling \cap (ToSet(free) \cup ToSet(busy) \cup Held) = {}
  /\ lost \cap (ToSet(free) \cup ToSet(busy) \cup Held \cup Travelling) = {}
  /\ Batches = ToSet(free) \cup ToSet(busy) \cup Held \cup Travelling \cup lost

\* The pass and the reader agree on whether a batch travels or is ready.
Control ==
  /\ open <=> pc \notin {"join", "dropped"}
  /\ pc = "layers" => pending
  /\ pc \in {"ready", "drain"} <=> ready # NoSlot
  /\ pending => ready = NoSlot
  /\ coordinator.phase = "exit" => ~open
  /\ pc = "dropped" => coordinator.phase = "exit" /\ stream = <<>>

\* One batch travels at most, and only while a request is pending.
Channels ==
  /\ request # <<>> => /\ pending /\ Len(request) = 1 /\ response = <<>>
                       /\ coordinator.phase = "recv" /\ Head(request).rows \in Requests
  /\ response # <<>> => /\ pending /\ Len(response) = 1 /\ coordinator.phase # "dispatch"
  /\ coordinator.phase = "dispatch" => /\ pending /\ response = <<>>
                                       /\ coordinator.slot \in Batches
                                       /\ coordinator.rows \in Requests
  /\ coordinator.phase # "dispatch" => Quiet /\ coordinator.slot = NoSlot
  /\ pending => request # <<>> \/ response # <<>> \/ coordinator.phase = "dispatch"

\* The pages that a worker has still to read.
AtWorker(k) == \E w \in Worker : \E i \in DOMAIN jobs[w] : jobs[w][i].page = k
InFlight == {k \in 1..coordinator.dispatched : AtWorker(k)}

JobsFit ==
  \A w \in Worker : \A i \in DOMAIN jobs[w] :
    /\ jobs[w][i].slot = coordinator.slot
    /\ jobs[w][i].page \in 1..coordinator.dispatched
    /\ jobs[w][i].row = Reads[jobs[w][i].page]
JobsDistinct ==
  \A w, v \in Worker : \A i \in DOMAIN jobs[w], j \in DOMAIN jobs[v] :
    jobs[w][i].page = jobs[v][j].page => w = v /\ i = j

ReadFailed == coordinator.failed \/ FALSE \in ToSet(completions)

\* While the coordinator works: every dispatched read is with a worker, in the
\* completions or collected, and a page whose read is over holds its row unless the
\* request fails.
Reading ==
  coordinator.phase = "dispatch" =>
    /\ coordinator.dispatched <= Len(Reads)
    /\ \A i \in 1..Len(coordinator.rows) :
         offsets[coordinator.slot][i] = SlotOf(coordinator.rows, i)
    /\ JobsFit /\ JobsDistinct
    /\ Cardinality(InFlight) + Len(completions) + coordinator.collected = coordinator.dispatched
    /\ \A k \in 1..coordinator.dispatched :
         k \in InFlight \/ pages[coordinator.slot][k] = Reads[k] \/ ReadFailed

\* A batch holds the rows of a list.
Shows(b, rows) == \A i \in 1..Len(rows) : pages[b][offsets[b][i]] = rows[i]
Loaded(b, rows) == row_count[b] = Len(rows) /\ Shows(b, rows)

\* What travels for a pass that has not been abandoned is what it asked for.
Contents ==
  /\ pc = "layers" =>
       /\ request # <<>> => Head(request).rows = want
       /\ coordinator.phase = "dispatch" => coordinator.rows = want
       /\ response # <<>> /\ Head(response).ok => Loaded(Head(response).slot, want)
  /\ pc \in {"ready", "drain"} => Loaded(ready, want)

\* A queued gather is followed by the record of its batch, or the pass waits for it;
\* the batch is busy until the record is done.
Launched ==
  \A i \in DOMAIN stream :
    /\ stream[i].op = "record" => stream[i].slot \in ToSet(busy)
    /\ stream[i].op = "gather" =>
         /\ stream[i].rows = Len(stream[i].want) /\ Shows(stream[i].slot, stream[i].want)
         /\ \/ \E j \in DOMAIN stream : j > i /\ stream[j] = Reusable(stream[i].slot)
            \/ pc = "drain" /\ stream[i].slot = ready

ReaderInv ==
  ReaderTypes /\ ChannelTypes /\ Accounts /\ Control /\ Channels /\ Reading /\ Contents /\ Launched

-----------------------------------------------------------------------------
(***************************************************************************)
(* The page slots of a row list.                                           *)
(***************************************************************************)

\* The recursion that defines Unique holds.
LEMMA UniqueRec ==
  ASSUME NEW rows \in Seq(Nat)
  PROVE  \E f \in [0..Len(rows) -> Seq(Nat)] :
            /\ f[0] = <<>>
            /\ \A i \in 1..Len(rows) :
                 f[i] = IF rows[i] \in ToSet(f[i - 1]) THEN f[i - 1] ELSE Append(f[i - 1], rows[i])
            /\ Unique(rows) = f[Len(rows)]
  <1> DEFINE n == Len(rows)
             D == [i \in 1..n |-> [x \in Seq(Nat) |->
                     IF rows[i] \in ToSet(x) THEN x ELSE Append(x, rows[i])]]
             Def(f) == [i \in 0..n |-> IF i = 0 THEN <<>>
               ELSE IF rows[i] \in ToSet(f[i - 1]) THEN f[i - 1] ELSE Append(f[i - 1], rows[i])]
             K == CHOOSE f : f = Def(f)
  <1>0. n \in Nat /\ \A i \in 1..n : rows[i] \in Nat
    OBVIOUS
  <1>1. D \in [1..n -> [Seq(Nat) -> Seq(Nat)]]
    BY <1>0
  <1>2. <<>> \in Seq(Nat)
    OBVIOUS
  <1> HIDE DEF n
  <1>3. PICK g \in [0..n -> Seq(Nat)] : g[0] = <<>> /\ \A i \in 1..n : g[i] = D[i][g[i - 1]]
    <2> HIDE DEF D
    <2> DEFINE X == Seq(Nat)
               b == <<>>
    <2> HIDE DEF X, b
    <2>1. b \in X /\ D \in [1..n -> [X -> X]]
      BY <1>1, <1>2 DEF X, b
    <2>2. \E g : Iterates(g, n, X, b, D)
      BY <1>0, <2>1, RecursionExists
    <2> QED BY <2>2 DEF X, b, Iterates
  <1>4. \A i \in 1..n :
          g[i] = IF rows[i] \in ToSet(g[i - 1]) THEN g[i - 1] ELSE Append(g[i - 1], rows[i])
    <2> TAKE i \in 1..n
    <2>0. i - 1 \in 0..n
      BY <1>0
    <2>1. g[i - 1] \in Seq(Nat) BY <2>0
    <2>2. D[i][g[i - 1]] =
            IF rows[i] \in ToSet(g[i - 1]) THEN g[i - 1] ELSE Append(g[i - 1], rows[i])
      BY <2>1
    <2> QED BY <2>2, <1>3
  <1>5. g = Def(g)
    <2>1. ASSUME NEW i \in 0..n PROVE g[i] = Def(g)[i]
      <3>1. CASE i = 0
        BY <1>3, <3>1
      <3>2. CASE i # 0
        <4>1. i \in 1..n
          BY <1>0, <3>2
        <4> QED
          BY <1>4, <4>1, <3>2
      <3> QED BY <3>1, <3>2
    <2>2. Def(g) = [i \in 0..n |-> Def(g)[i]] /\ g = [i \in 0..n |-> g[i]]
      OBVIOUS
    <2> HIDE DEF Def
    <2> QED BY <2>1, <2>2, Zenon
  <1>6. K = Def(K)
    <2> HIDE DEF Def
    <2> QED BY <1>5, Zenon
  <1>7. Unique(rows) = K[n]
    BY Zenon DEF Unique, n
  <1> HIDE DEF K
  <1>8. K[0] = <<>>
    BY <1>0, <1>6
  <1>9. \A i \in 1..n :
          K[i] = IF rows[i] \in ToSet(K[i - 1]) THEN K[i - 1] ELSE Append(K[i - 1], rows[i])
    <2> TAKE i \in 1..n
    <2>1. i \in 0..n /\ i # 0
      BY <1>0
    <2>2. K[i] = Def(K)[i]
      BY <1>6
    <2> QED BY <2>1, <2>2
  <1>10. \A i \in 0..n : K[i] \in Seq(Nat)
    <2> DEFINE T == {i \in 0..n : K[i] \in Seq(Nat)}
    <2>1. 0 \in T
      <3> DEFINE e == <<>>
      <3>1. e \in Seq(Nat) /\ K[0] = e
        BY <1>8
      <3> HIDE DEF e
      <3> QED
        BY <1>0, <3>1
    <2>2. ASSUME NEW i \in 1..n, i - 1 \in T PROVE i \in T
      <3>1. i \in 0..n /\ K[i - 1] \in Seq(Nat) /\ rows[i] \in Nat
        BY <1>0, <2>2
      <3>2. K[i] = K[i - 1] \/ K[i] = Append(K[i - 1], rows[i])
        BY <1>9
      <3>3. Append(K[i - 1], rows[i]) \in Seq(Nat)
        BY <3>1
      <3>4. K[i] \in Seq(Nat)
        BY <3>1, <3>2, <3>3
      <3> QED
        BY <3>1, <3>4
    <2> HIDE DEF T
    <2>3. \A i \in 0..n : i \in T
      BY <1>0, <2>1, <2>2, IntervalInduction
    <2> QED
      BY <2>3 DEF T
  <1>11. K \in [0..n -> Seq(Nat)]
    <2>1. K = [i \in 0..n |-> K[i]]
      <3>1. Def(K) = [i \in 0..n |-> Def(K)[i]]
        OBVIOUS
      <3> HIDE DEF Def
      <3> QED
        BY <1>6, <3>1, Zenon
    <2> QED
      BY <1>10, <2>1
  <1> QED
    BY <1>7, <1>8, <1>9, <1>11, Zenon DEF n

\* Every row of the list is read once, and the reads fit the batch.
LEMMA UniqueFacts ==
  ASSUME NEW rows \in Seq(Nat)
  PROVE  /\ Unique(rows) \in Seq(Nat)
         /\ Len(Unique(rows)) <= Len(rows)
         /\ ToSet(rows) \subseteq ToSet(Unique(rows))
  <1> DEFINE n == Len(rows)
  <1>1. PICK f \in [0..n -> Seq(Nat)] :
          /\ f[0] = <<>>
          /\ \A i \in 1..n :
               f[i] = IF rows[i] \in ToSet(f[i - 1]) THEN f[i - 1] ELSE Append(f[i - 1], rows[i])
          /\ Unique(rows) = f[n]
    BY UniqueRec
  <1>2. n \in Nat /\ \A i \in 1..n : rows[i] \in Nat
    OBVIOUS
  <1> HIDE DEF n
  <1> DEFINE Good(i) == Len(f[i]) <= i /\ \A j \in 1..i : rows[j] \in ToSet(f[i])
             T == {i \in 0..n : Good(i)}
  <1>3. 0 \in T
    BY <1>1, <1>2
  <1>4. ASSUME NEW i \in 1..n, i - 1 \in T PROVE i \in T
    <2>1. i \in 0..n /\ i - 1 \in 0..n /\ f[i - 1] \in Seq(Nat) /\ rows[i] \in Nat
      BY <1>2, <1>4
    <2>2. Len(f[i - 1]) <= i - 1 /\ \A j \in 1..(i - 1) : rows[j] \in ToSet(f[i - 1])
      BY <1>4
    <2>3. CASE rows[i] \in ToSet(f[i - 1])
      <3>1. f[i] = f[i - 1]
        BY <1>1, <2>3
      <3>2. \A j \in 1..i : j \in 1..(i - 1) \/ j = i
        OBVIOUS
      <3> QED
        BY <2>1, <2>2, <2>3, <3>1, <3>2
    <2>4. CASE rows[i] \notin ToSet(f[i - 1])
      <3>1. f[i] = Append(f[i - 1], rows[i])
        BY <1>1, <2>4
      <3>2. ToSet(f[i]) = ToSet(f[i - 1]) \cup {rows[i]} /\ Len(f[i]) = Len(f[i - 1]) + 1
        BY <2>1, <3>1, ToSetAppend
      <3>3. \A j \in 1..i : j \in 1..(i - 1) \/ j = i
        OBVIOUS
      <3>4. Len(f[i]) <= i
        BY <2>1, <2>2, <3>2
      <3> QED
        BY <2>1, <2>2, <3>2, <3>3, <3>4
    <2> QED
      BY <2>3, <2>4
  <1> HIDE DEF T
  <1>5. \A i \in 0..n : i \in T
    BY <1>2, <1>3, <1>4, IntervalInduction
  <1>6. n \in 0..n
    BY <1>2
  <1>7. Good(n) /\ f[n] \in Seq(Nat)
    BY <1>5, <1>6 DEF T
  <1>8. \A x \in ToSet(rows) : \E j \in 1..n : rows[j] = x
    BY MemberAt DEF n
  <1> QED
    BY <1>1, <1>7, <1>8 DEF n

\* The page slot of a row is one of the batch, and holds that row's read.
LEMMA SlotOfFacts ==
  ASSUME NEW rows \in Seq(Nat), NEW i \in 1..Len(rows)
  PROVE  /\ SlotOf(rows, i) \in 1..Len(Unique(rows))
         /\ Unique(rows)[SlotOf(rows, i)] = rows[i]
  <1> DEFINE u == Unique(rows)
  <1>1. u \in Seq(Nat) /\ rows[i] \in ToSet(u)
    BY UniqueFacts, MemberAt
  <1>2. \E k \in DOMAIN u : u[k] = rows[i]
    BY <1>1, MemberAt
  <1>3. SlotOf(rows, i) = CHOOSE k \in DOMAIN u : u[k] = rows[i]
    BY DEF SlotOf
  <1>4. DOMAIN u = 1..Len(u)
    BY <1>1
  <1> HIDE DEF u
  <1>5. SlotOf(rows, i) \in DOMAIN u /\ u[SlotOf(rows, i)] = rows[i]
    BY <1>2, <1>3, Zenon
  <1> QED
    BY <1>4, <1>5 DEF u

-----------------------------------------------------------------------------
(***************************************************************************)
(* What a step leaves alone.                                               *)
(***************************************************************************)

\* A queue of one element.
LEMMA SingleFacts ==
  ASSUME NEW U, NEW x \in U
  PROVE  /\ <<x>> \in Seq(U) /\ Len(<<x>>) = 1 /\ Head(<<x>>) = x /\ <<x>> # <<>>
         /\ Tail(<<x>>) = <<>> /\ DOMAIN <<x>> = {1} /\ <<x>>[1] = x
  OBVIOUS

\* The batches named by the elements of a short queue.
LEMMA SlotsOfQueue ==
  ASSUME NEW U, NEW s \in Seq(U)
  PROVE  /\ s = <<>> => {s[i].slot : i \in DOMAIN s} = {}
         /\ Len(s) = 1 => /\ {s[i].slot : i \in DOMAIN s} = {Head(s).slot}
                          /\ Tail(s) = <<>> /\ Head(s) \in U
  <1>1. CASE Len(s) = 1
    <2>1. DOMAIN s = {1} /\ Head(s) = s[1] /\ s # <<>>
      <3>1. DOMAIN s = 1..Len(s) /\ 1..1 = {1}
        OBVIOUS
      <3>2. s # <<>>
        <4> DEFINE e == <<>>
        <4>1. Len(e) = 0
          OBVIOUS
        <4> HIDE DEF e
        <4>2. s # e
          BY <1>1, <4>1
        <4> QED
          BY <4>2 DEF e
      <3> QED
        BY <1>1, <3>1, <3>2
    <2>2. Tail(s) = <<>> /\ Head(s) \in U
      <3>1. Tail(s) \in Seq(U) /\ Len(Tail(s)) = 0 /\ Head(s) \in U
        BY <1>1, <2>1
      <3> DEFINE t == Tail(s)
      <3>2. t \in Seq(U) /\ Len(t) = 0
        BY <3>1
      <3> HIDE DEF t
      <3>3. t = <<>>
        BY <3>2
      <3> QED
        BY <3>1, <3>3 DEF t
    <2>3. {s[i].slot : i \in DOMAIN s} = {Head(s).slot}
      BY <2>1
    <2> QED
      BY <1>1, <2>1, <2>2, <2>3
  <1> QED
    BY <1>1

\* A queue without its head.
LEMMA TailLength ==
  ASSUME NEW U, NEW s \in Seq(U), s # <<>>
  PROVE  Len(s) \in Nat /\ Len(Tail(s)) = Len(s) - 1
  OBVIOUS

\* The coordinator's work does not depend on the pass.
LEMMA ReadingStays ==
  ASSUME Reading, UNCHANGED <<pool, memory>>
  PROVE  Reading'
  <1>1. UNCHANGED <<coordinator, jobs, completions, pages, offsets>>
    BY DEF pool, memory
  <1>2. InFlight' = InFlight /\ Reads' = Reads
    BY <1>1 DEF InFlight, AtWorker, Reads
  <1>3. JobsFit => JobsFit'
    BY <1>1, <1>2 DEF JobsFit
  <1>4. JobsDistinct => JobsDistinct'
    BY <1>1 DEF JobsDistinct
  <1>5. ReadFailed => ReadFailed'
    BY <1>1 DEF ReadFailed
  <1> QED
    BY <1>1, <1>2, <1>3, <1>4, <1>5 DEF Reading

\* Queued gathers stay good as long as the batches they read are not written, and a
\* batch leaves the busy ones only when its event is done.
LEMMA LaunchedStays ==
  ASSUME ReaderTypes, ChannelTypes, Control, Launched,
         stream' = stream,
         \A b \in ToSet(busy) : b \in ToSet(busy') \/ EventDone(b),
         pc = "drain" => pc' = "drain" /\ ready' = ready,
         \A b \in ToSet(busy) \cup Held : pages'[b] = pages[b] /\ offsets'[b] = offsets[b]
  PROVE  Launched'
  <1>1. ASSUME NEW i \in DOMAIN stream, stream[i].op = "record"
        PROVE  stream[i].slot \in ToSet(busy') /\ stream[i].slot \in ToSet(busy)
    <2>1. stream[i] \in Operation
      BY DEF ChannelTypes
    <2>2. stream[i] = [op |-> "record", slot |-> stream[i].slot]
      BY <1>1, <2>1 DEF Operation
    <2>3. stream[i].slot \in ToSet(busy)
      BY <1>1 DEF Launched
    <2>4. ~EventDone(stream[i].slot)
      BY <2>2 DEF EventDone, Reusable
    <2> QED
      BY <2>3, <2>4
  <1>2. ASSUME NEW i \in DOMAIN stream, stream[i].op = "gather"
        PROVE  /\ stream[i].rows = Len(stream[i].want) /\ Shows(stream[i].slot, stream[i].want)'
               /\ \/ \E j \in DOMAIN stream : j > i /\ stream[j] = Reusable(stream[i].slot)
                  \/ pc' = "drain" /\ stream[i].slot = ready'
    <2> DEFINE g == stream[i]
               b == g.slot
    <2>1. /\ g.rows = Len(g.want) /\ Shows(b, g.want)
          /\ \/ \E j \in DOMAIN stream : j > i /\ stream[j] = Reusable(b)
             \/ pc = "drain" /\ b = ready
      BY <1>2 DEF Launched
    <2>2. b \in ToSet(busy) \cup Held
      <3>1. CASE \E j \in DOMAIN stream : j > i /\ stream[j] = Reusable(b)
        <4>1. PICK j \in DOMAIN stream : stream[j] = Reusable(b)
          BY <3>1
        <4>2. stream[j].op = "record" /\ stream[j].slot = b
          BY <4>1 DEF Reusable
        <4> QED
          BY <1>1, <4>2
      <3>2. CASE pc = "drain" /\ b = ready
        BY <3>2 DEF Control, Held
      <3> QED
        BY <2>1, <3>1, <3>2
    <2>3. pages'[b] = pages[b] /\ offsets'[b] = offsets[b]
      BY <2>2
    <2>4. Shows(b, g.want)'
      BY <2>1, <2>3 DEF Shows
    <2> QED
      BY <2>1, <2>4
  <1> QED
    BY <1>1, <1>2 DEF Launched, Reusable

\* A step of the coordinator or of a worker: it moves no batch, writes none but the one
\* that travels, and leaves the pass and the reader alone.
LEMMA OthersStay ==
  ASSUME ReaderInv, UNCHANGED <<pass, reader, open, stream>>,
         Travelling' = Travelling,
         \A b \in Batches \ Travelling :
           pages'[b] = pages[b] /\ offsets'[b] = offsets[b] /\ row_count'[b] = row_count[b]
  PROVE  /\ ReaderTypes' /\ Accounts' /\ Launched'
         /\ pc' \in {"ready", "drain"} => Loaded(ready, want)'
  <1>1. UNCHANGED <<pc, want, free, busy, ready, pending, lost, open, stream>>
    BY DEF pass, reader
  <1>2. ReaderTypes'
    BY <1>1 DEF ReaderInv, ReaderTypes
  <1>3. Held' = Held
    BY <1>1 DEF Held
  <1>4. Accounts'
    BY <1>1, <1>3 DEF ReaderInv, Accounts
  <1>5. (ToSet(busy) \cup Held) \subseteq Batches \ Travelling
    BY DEF ReaderInv, Accounts
  <1>6. Launched'
    <2>1. \A b \in ToSet(busy) \cup Held : pages'[b] = pages[b] /\ offsets'[b] = offsets[b]
      BY <1>5
    <2> QED
      BY <1>1, <2>1, LaunchedStays DEF ReaderInv
  <1>7. ASSUME pc \in {"ready", "drain"} PROVE Loaded(ready, want)'
    <2>1. Loaded(ready, want) /\ ready \in Held
      BY <1>7 DEF ReaderInv, Contents, Control, Held
    <2>2. pages'[ready] = pages[ready] /\ offsets'[ready] = offsets[ready]
          /\ row_count'[ready] = row_count[ready]
      BY <1>5, <2>1
    <2> QED
      BY <1>1, <2>1, <2>2 DEF Loaded, Shows
  <1> QED
    BY <1>1, <1>2, <1>4, <1>6, <1>7

-----------------------------------------------------------------------------
(***************************************************************************)
(* The forward pass.                                                       *)
(***************************************************************************)

\* Both batches are free, and nothing is queued for the first pass.
LEMMA FreshReader ==
  /\ <<0, 1>> \in Seq(Batches) /\ IsInjective(<<0, 1>>) /\ ToSet(<<0, 1>>) = Batches
  /\ <<>> \in Seq(Batches) /\ IsInjective(<<>>) /\ ToSet(<<>>) = {}
  <1>1. <<0, 1>> \in Seq(Batches) /\ DOMAIN <<0, 1>> = {1, 2}
    BY DEF Batches
  <1>2. ToSet(<<0, 1>>) = Batches
    BY <1>1 DEF ToSet, Batches
  <1>3. IsInjective(<<0, 1>>)
    BY <1>1 DEF IsInjective
  <1>4. IsInjective(<<>>) /\ ToSet(<<>>) = {} /\ <<>> \in Seq(Batches)
    BY DEF IsInjective, ToSet
  <1> QED
    BY <1>1, <1>2, <1>3, <1>4

\* The coordinator between requests.
LEMMA RestingFacts ==
  /\ Resting \in Coordinator /\ Resting.phase = "recv" /\ Resting.slot = NoSlot
  /\ Resting.dispatched = 0 /\ Resting.collected = 0 /\ Resting.rows = <<>>
  <1> DEFINE e == <<>>
             no == FALSE
  <1>1. e \in Seq(Nat) /\ no \in BOOLEAN
        /\ Resting = [phase |-> "recv", rows |-> e, slot |-> NoSlot, dispatched |-> 0,
                      collected |-> 0, failed |-> no]
    BY DEF Resting
  <1> HIDE DEF e, no
  <1>2. /\ Resting \in Coordinator /\ Resting.phase = "recv" /\ Resting.slot = NoSlot
        /\ Resting.dispatched = 0 /\ Resting.collected = 0 /\ Resting.rows = e
    BY <1>1 DEF Coordinator
  <1> QED
    BY <1>2 DEF e

\* A new reader satisfies the invariant.
LEMMA NewReader ==
  ASSUME ReaderAssumption
  PROVE  ReaderInit => ReaderInv
  <1> SUFFICES ASSUME ReaderInit PROVE ReaderInv
    OBVIOUS
  <1>0. /\ pc = "idle" /\ want = <<>> /\ free = <<0, 1>> /\ busy = <<>> /\ ready = NoSlot
        /\ pending = FALSE /\ lost = {} /\ request = <<>> /\ response = <<>> /\ open = TRUE
        /\ coordinator = Resting /\ jobs = [w \in Worker |-> <<>>] /\ completions = <<>>
        /\ pages = [b \in Batches |-> [p \in 1..MaxRows |-> Torn]]
        /\ offsets = [b \in Batches |-> [i \in 1..MaxRows |-> 1]]
        /\ row_count = [b \in Batches |-> 0]
        /\ stream = <<>>
    BY DEF ReaderInit
  <1> USE <1>0
  <1>1. ReaderTypes
    <2>1. want \in Seq(Nat)
      OBVIOUS
    <2>2. free \in Seq(Batches) /\ busy \in Seq(Batches)
      BY FreshReader
    <2> QED
      BY <2>1, <2>2 DEF ReaderTypes
  <1>2. ChannelTypes
    <2>1. request \in Seq(Ask) /\ response \in Seq(Answer) /\ completions \in Seq(BOOLEAN)
          /\ stream \in Seq(Operation)
      OBVIOUS
    <2>2. jobs \in [Worker -> Seq(Job)]
      <3> DEFINE e == <<>>
      <3>1. e \in Seq(Job) /\ jobs = [w \in Worker |-> e]
        OBVIOUS
      <3> HIDE DEF e
      <3> QED
        BY <3>1
    <2>3. coordinator \in Coordinator
      BY RestingFacts
    <2>4. pages \in [Batches -> [1..MaxRows -> Nat \cup {Torn}]]
          /\ offsets \in [Batches -> [1..MaxRows -> Nat]] /\ row_count \in [Batches -> Nat]
      OBVIOUS
    <2> QED
      BY <2>1, <2>2, <2>3, <2>4 DEF ChannelTypes
  <1>3. coordinator.phase = "recv" /\ coordinator.slot = NoSlot
    BY DEF Resting
  <1>4. Held = {} /\ Requested = {} /\ Working = {} /\ Answered = {}
    BY <1>3 DEF Held, Requested, Working, Answered
  <1>5. Accounts
    BY <1>4, FreshReader DEF Accounts, Travelling
  <1>6. Control /\ Channels /\ Reading /\ Contents
    BY <1>3 DEF Control, Channels, Reading, Contents, Quiet
  <1>7. Launched
    BY DEF Launched
  <1> QED
    BY <1>1, <1>2, <1>5, <1>6, <1>7 DEF ReaderInv

\* begin_rows: the batch that leaves the stack travels, and no queued operation is left
\* that reads it.
LEMMA BeginRowsHolds ==
  ASSUME ReaderAssumption, ReaderInv, BeginRows
  PROVE  ReaderInv'
  <1> DEFINE slot == IF free # <<>> THEN Last(free) ELSE Last(busy)
  <1>1. PICK rows \in Requests :
          /\ IF free # <<>> THEN free' = Front(free) /\ busy' = busy
             ELSE EventDone(slot) /\ busy' = Front(busy) /\ free' = free
          /\ request' = <<[rows |-> rows, slot |-> slot]>>
          /\ want' = rows
    BY DEF BeginRows
  <1>2. /\ pc = "idle" /\ open /\ ~pending /\ ready = NoSlot
        /\ free # <<>> \/ busy # <<>>
        /\ pending' = TRUE /\ pc' = "layers"
        /\ UNCHANGED <<ready, lost, response, open, pool, memory, stream>>
    BY DEF BeginRows, Gathered, Available
  <1>3. UNCHANGED <<coordinator, jobs, completions, pages, offsets, row_count>>
    BY <1>2 DEF pool, memory
  <1>4. /\ free \in Seq(Batches) /\ busy \in Seq(Batches) /\ IsInjective(free) /\ IsInjective(busy)
        /\ ToSet(free) \cap ToSet(busy) = {}
    BY DEF ReaderInv, ReaderTypes, Accounts
  <1>5. /\ free' \in Seq(Batches) /\ busy' \in Seq(Batches) /\ slot \in Batches
        /\ IsInjective(free') /\ IsInjective(busy')
        /\ ToSet(free) \cup ToSet(busy) = ToSet(free') \cup ToSet(busy') \cup {slot}
        /\ slot \notin ToSet(free') \cup ToSet(busy')
        /\ ToSet(free') \cap ToSet(busy') = {}
        /\ \A b \in ToSet(busy) : b \in ToSet(busy') \/ EventDone(b)
    <2>1. CASE free # <<>>
      <3>1. /\ free' = Front(free) /\ busy' = busy /\ slot = Last(free)
        BY <1>1, <2>1
      <3>2. /\ Last(free) \in Batches /\ Front(free) \in Seq(Batches)
            /\ ToSet(free) = ToSet(Front(free)) \cup {Last(free)}
            /\ Last(free) \notin ToSet(Front(free)) /\ IsInjective(Front(free))
        BY <1>4, <2>1, ToSetFront
      <3> HIDE DEF slot
      <3> QED
        BY <1>4, <3>1, <3>2
    <2>2. CASE free = <<>>
      <3>1. /\ busy' = Front(busy) /\ free' = free /\ slot = Last(busy) /\ EventDone(slot)
            /\ busy # <<>>
        BY <1>1, <1>2, <2>2
      <3>2. /\ Last(busy) \in Batches /\ Front(busy) \in Seq(Batches)
            /\ ToSet(busy) = ToSet(Front(busy)) \cup {Last(busy)}
            /\ Last(busy) \notin ToSet(Front(busy)) /\ IsInjective(Front(busy))
        BY <1>4, <3>1, ToSetFront
      <3> HIDE DEF slot
      <3> QED
        BY <1>4, <3>1, <3>2
    <2> QED
      BY <2>1, <2>2
  <1> HIDE DEF slot
  <1>6. request = <<>> /\ response = <<>> /\ coordinator.phase = "recv" /\ coordinator.slot = NoSlot
        /\ Quiet
    BY <1>2 DEF ReaderInv, Channels, Control, ChannelTypes, Coordinator
  <1>7. rows \in Seq(Nat)
    BY DEF ReaderAssumption
  <1> DEFINE ask == [rows |-> rows, slot |-> slot]
  <1>8. ask \in Ask /\ ask.rows = rows /\ ask.slot = slot /\ request' = <<ask>>
    BY <1>1, <1>5, <1>7 DEF Ask
  <1> HIDE DEF ask
  <1>9. /\ request' \in Seq(Ask) /\ Len(request') = 1 /\ Head(request') = ask /\ request' # <<>>
        /\ {request'[i].slot : i \in DOMAIN request'} = {slot}
    <2>1. /\ request' \in Seq(Ask) /\ Len(request') = 1 /\ Head(request') = ask /\ request' # <<>>
          /\ DOMAIN request' = {1} /\ request'[1] = ask
      BY <1>8, SingleFacts
    <2> QED
      BY <1>8, <2>1
  <1>10. ReaderTypes'
    BY <1>1, <1>2, <1>5, <1>7 DEF ReaderInv, ReaderTypes
  <1>11. ChannelTypes'
    BY <1>2, <1>3, <1>9 DEF ReaderInv, ChannelTypes
  <1>12. /\ Held' = Held /\ Held = {} /\ Travelling = {} /\ Travelling' = {slot}
    <2>1. Held' = Held /\ Held = {} /\ Working' = Working /\ Answered' = Answered
      BY <1>2, <1>3 DEF Held, Working, Answered
    <2>2. Requested = {} /\ Answered = {} /\ Working = {} /\ Requested' = {slot}
      BY <1>6, <1>9 DEF Requested, Answered, Working
    <2> QED
      BY <2>1, <2>2 DEF Travelling
  <1>13. Accounts'
    BY <1>2, <1>5, <1>12 DEF ReaderInv, Accounts
  <1>14. Control'
    BY <1>2, <1>3 DEF ReaderInv, Control
  <1>15. Channels'
    <2>1. Quiet'
      BY <1>3, <1>6 DEF Quiet
    <2> QED
      BY <1>2, <1>3, <1>6, <1>8, <1>9, <2>1 DEF Channels
  <1>16. Reading'
    BY <1>2, ReadingStays DEF ReaderInv
  <1>17. Contents'
    BY <1>1, <1>2, <1>3, <1>6, <1>8, <1>9 DEF Contents
  <1>18. Launched'
    BY <1>2, <1>3, <1>5, LaunchedStays DEF ReaderInv
  <1> QED
    BY <1>10, <1>11, <1>13, <1>14, <1>15, <1>16, <1>17, <1>18 DEF ReaderInv

\* A step that changes neither the channels nor what they carry.
LEMMA ChannelsStay ==
  ASSUME ReaderInv, UNCHANGED <<request, response, pool, memory, pending>>
  PROVE  /\ Channels' /\ Reading' /\ Travelling' = Travelling
         /\ stream' \in Seq(Operation) => ChannelTypes'
         /\ coordinator' = coordinator
         /\ pages' = pages /\ offsets' = offsets /\ row_count' = row_count
  <1>1. UNCHANGED <<request, response, pending, coordinator, jobs, completions, pages, offsets, row_count>>
    BY DEF pool, memory
  <1>2. Travelling' = Travelling
    BY <1>1 DEF Travelling, Requested, Working, Answered
  <1>3. Channels'
    BY <1>1 DEF ReaderInv, Channels, Quiet
  <1>4. Reading'
    BY ReadingStays DEF ReaderInv
  <1>5. stream' \in Seq(Operation) => ChannelTypes'
    BY <1>1 DEF ReaderInv, ChannelTypes
  <1> QED
    BY <1>1, <1>2, <1>3, <1>4, <1>5

\* The batch of an event that cannot be waited for is lost, and the stream with it.
LEMMA ReuseFailsHolds ==
  ASSUME ReaderAssumption, ReaderInv, ReuseFails
  PROVE  ReaderInv'
  <1>1. /\ pc = "idle" /\ ready = NoSlot /\ busy # <<>>
        /\ lost' = lost \cup {Last(busy)} /\ busy' = Front(busy) /\ stream' = <<>>
        /\ UNCHANGED <<pass, free, ready, pending, channels, pool, memory>>
    BY DEF ReuseFails, Gathered, Available
  <1>2. UNCHANGED <<pc, want, free, ready, pending, request, response, open, pool, memory>>
    BY <1>1 DEF pass, channels
  <1>3. busy \in Seq(Batches) /\ IsInjective(busy)
    BY DEF ReaderInv, ReaderTypes, Accounts
  <1>4. /\ Last(busy) \in Batches /\ busy' \in Seq(Batches)
        /\ ToSet(busy) = ToSet(busy') \cup {Last(busy)}
        /\ Last(busy) \notin ToSet(busy') /\ IsInjective(busy')
    BY <1>1, <1>3, ToSetFront
  <1>5. stream' \in Seq(Operation)
    BY <1>1
  <1>6. /\ Channels' /\ Reading' /\ Travelling' = Travelling /\ ChannelTypes'
        /\ coordinator' = coordinator
    BY <1>2, <1>5, ChannelsStay
  <1>7. ReaderTypes'
    BY <1>1, <1>2, <1>4 DEF ReaderInv, ReaderTypes
  <1>8. Accounts'
    <2>1. Held' = Held
      BY <1>2 DEF Held
    <2> QED
      BY <1>1, <1>2, <1>4, <1>6, <2>1 DEF ReaderInv, Accounts
  <1>9. Control'
    BY <1>1, <1>2, <1>6 DEF ReaderInv, Control
  <1>10. Contents'
    BY <1>1, <1>2 DEF Contents
  <1>11. Launched'
    BY <1>1 DEF Launched
  <1> QED
    BY <1>6, <1>7, <1>8, <1>9, <1>10, <1>11 DEF ReaderInv

\* The batch of an abandoned pass travels on.
LEMMA PassFailsHolds ==
  ASSUME ReaderAssumption, ReaderInv, PassFails
  PROVE  ReaderInv'
  <1>1. /\ pc = "layers" /\ pc' = "idle" /\ want' = <<>>
        /\ UNCHANGED <<free, busy, ready, pending, lost, request, response, open, pool, memory, stream>>
    BY DEF PassFails, reader, channels
  <1>2. stream' \in Seq(Operation)
    BY <1>1 DEF ReaderInv, ChannelTypes
  <1>3. /\ Channels' /\ Reading' /\ Travelling' = Travelling /\ ChannelTypes'
        /\ coordinator' = coordinator /\ pages' = pages /\ offsets' = offsets
    BY <1>1, <1>2, ChannelsStay
  <1>4. ReaderTypes'
    <2>1. want' \in Seq(Nat)
      BY <1>1
    <2> QED
      BY <1>1, <2>1 DEF ReaderInv, ReaderTypes
  <1>5. Accounts'
    <2>1. Held' = Held
      BY <1>1 DEF Held
    <2> QED
      BY <1>1, <1>3, <2>1 DEF ReaderInv, Accounts
  <1>6. Control' /\ Contents'
    BY <1>1, <1>3 DEF ReaderInv, Control, Contents
  <1>7. Launched'
    BY <1>1, <1>3, LaunchedStays DEF ReaderInv
  <1> QED
    BY <1>3, <1>4, <1>5, <1>6, <1>7 DEF ReaderInv

\* wait_ready: the answer's batch is ready with the rows of the pass, or free again.
LEMMA WaitReadyHolds ==
  ASSUME ReaderAssumption, ReaderInv, WaitReady
  PROVE  ReaderInv'
  <1> DEFINE answer == Head(response)
             b == answer.slot
  <1>1. /\ pc = "layers" /\ response # <<>>
        /\ response' = Tail(response) /\ pending' = FALSE
        /\ UNCHANGED <<busy, lost, request, open, pool, memory, stream>>
    BY DEF WaitReady
  <1>2. \/ answer.ok /\ ready' = b /\ pc' = "ready" /\ free' = free /\ want' = want
        \/ ~answer.ok /\ free' = Append(free, b) /\ pc' = "idle" /\ want' = <<>> /\ ready' = ready
    BY DEF WaitReady
  <1>3. /\ response \in Seq(Answer) /\ Len(response) = 1 /\ request = <<>>
        /\ coordinator.phase # "dispatch" /\ coordinator.slot = NoSlot /\ Quiet
        /\ ready = NoSlot /\ open
    BY <1>1 DEF ReaderInv, ChannelTypes, Channels, Control
  <1>4. /\ Answered = {b} /\ response' = <<>> /\ answer \in Answer
    BY <1>1, <1>3, SlotsOfQueue DEF Answered
  <1>5. b \in Batches /\ b # NoSlot
    BY <1>4 DEF Answer, ReaderAssumption
  <1>6. UNCHANGED <<coordinator, jobs, completions, pages, offsets, row_count>>
    BY <1>1 DEF pool, memory
  <1>7. answer.ok => Loaded(b, want)
    BY <1>1 DEF ReaderInv, Contents
  <1> HIDE DEF answer, b
  <1>8. Travelling = {b} /\ Travelling' = {} /\ Held = {}
    <2>1. Requested = {} /\ Requested' = {} /\ Working = {} /\ Working' = {} /\ Answered' = {} /\ Held = {}
      BY <1>1, <1>3, <1>4, <1>6 DEF Requested, Working, Answered, Held
    <2> QED
      BY <1>4, <2>1 DEF Travelling
  <1>9. /\ free' \in Seq(Batches) /\ IsInjective(free')
        /\ Held' = (IF answer.ok THEN {b} ELSE {})
        /\ ToSet(free') = (IF answer.ok THEN ToSet(free) ELSE ToSet(free) \cup {b})
    <2>1. free \in Seq(Batches) /\ IsInjective(free) /\ b \notin ToSet(free)
      BY <1>8 DEF ReaderInv, ReaderTypes, Accounts
    <2>2. CASE answer.ok
      BY <1>2, <1>5, <2>1, <2>2 DEF Held
    <2>3. CASE ~answer.ok
      <3>1. free' = Append(free, b) /\ Held' = {}
        BY <1>2, <1>3, <2>3 DEF Held
      <3> QED
        BY <1>5, <2>1, <2>3, <3>1, ToSetAppend
    <2> QED
      BY <2>2, <2>3
  <1>10. want' \in Seq(Nat)
    <2>1. <<>> \in Seq(Nat) /\ want \in Seq(Nat)
      BY DEF ReaderInv, ReaderTypes
    <2> QED
      BY <1>2, <2>1
  <1>11. ReaderTypes'
    BY <1>1, <1>2, <1>3, <1>5, <1>9, <1>10 DEF ReaderInv, ReaderTypes
  <1>12. ChannelTypes'
    <2>1. response' \in Seq(Answer)
      BY <1>4
    <2> QED
      BY <1>1, <1>6, <2>1 DEF ReaderInv, ChannelTypes
  <1>13. Accounts'
    BY <1>1, <1>8, <1>9 DEF ReaderInv, Accounts
  <1>14. Control'
    BY <1>1, <1>2, <1>3, <1>5, <1>6 DEF ReaderInv, Control
  <1>15. Channels'
    BY <1>1, <1>3, <1>4, <1>6 DEF Channels, Quiet
  <1>16. Reading'
    BY <1>1, ReadingStays DEF ReaderInv
  <1>17. Contents'
    BY <1>2, <1>6, <1>7 DEF Contents, Loaded, Shows
  <1>18. Launched'
    BY <1>1, <1>6, LaunchedStays DEF ReaderInv
  <1> QED
    BY <1>11, <1>12, <1>13, <1>14, <1>15, <1>16, <1>17, <1>18 DEF ReaderInv

\* The ready batch becomes busy, free or lost when the pass is done with it.
LEMMA EndGatherHolds ==
  ASSUME ReaderAssumption, ReaderInv, pc \in {"ready", "drain"}, EndGather, pc' = "idle",
         \/ busy' = Append(busy, ready) /\ UNCHANGED <<free, lost>>
         \/ free' = Append(free, ready) /\ UNCHANGED <<busy, lost>>
         \/ lost' = lost \cup {ready} /\ UNCHANGED <<free, busy>>,
         stream' \in Seq(Operation), Launched'
  PROVE  ReaderInv'
  <1>1. /\ ready' = NoSlot /\ want' = <<>>
        /\ UNCHANGED <<pending, request, response, open, pool, memory>>
    BY DEF EndGather, channels
  <1>2. /\ Channels' /\ Reading' /\ Travelling' = Travelling /\ ChannelTypes'
        /\ coordinator' = coordinator
    BY <1>1, ChannelsStay
  <1>3. ready \in Batches /\ ready # NoSlot /\ Held = {ready} /\ Held' = {}
    BY <1>1 DEF ReaderInv, ReaderTypes, Control, Held
  <1>4. /\ free \in Seq(Batches) /\ busy \in Seq(Batches) /\ IsInjective(free) /\ IsInjective(busy)
        /\ ready \notin ToSet(free) /\ ready \notin ToSet(busy)
    BY <1>3 DEF ReaderInv, ReaderTypes, Accounts
  <1>5. /\ free' \in Seq(Batches) /\ busy' \in Seq(Batches) /\ IsInjective(free') /\ IsInjective(busy')
        /\ \/ ToSet(busy') = ToSet(busy) \cup {ready} /\ ToSet(free') = ToSet(free) /\ lost' = lost
           \/ ToSet(free') = ToSet(free) \cup {ready} /\ ToSet(busy') = ToSet(busy) /\ lost' = lost
           \/ lost' = lost \cup {ready} /\ ToSet(busy') = ToSet(busy) /\ ToSet(free') = ToSet(free)
    <2>1. /\ Append(free, ready) \in Seq(Batches) /\ IsInjective(Append(free, ready))
          /\ ToSet(Append(free, ready)) = ToSet(free) \cup {ready}
      BY <1>3, <1>4, ToSetAppend
    <2>2. /\ Append(busy, ready) \in Seq(Batches) /\ IsInjective(Append(busy, ready))
          /\ ToSet(Append(busy, ready)) = ToSet(busy) \cup {ready}
      BY <1>3, <1>4, ToSetAppend
    <2> QED
      BY <1>4, <2>1, <2>2
  <1>6. ReaderTypes'
    <2>1. want' \in Seq(Nat)
      BY <1>1
    <2> QED
      BY <1>1, <1>3, <1>5, <2>1 DEF ReaderInv, ReaderTypes
  <1>7. Accounts'
    BY <1>2, <1>3, <1>5 DEF ReaderInv, Accounts
  <1>8. Control' /\ Contents'
    BY <1>1, <1>2 DEF ReaderInv, Control, Contents
  <1> QED
    BY <1>2, <1>6, <1>7, <1>8 DEF ReaderInv

\* The operations of a gather.
LEMMA GatherTyped ==
  ASSUME ReaderAssumption, ReaderInv, pc = "ready"
  PROVE  LET g == Gather(ready) IN
         /\ g \in Operation /\ g.op = "gather" /\ g.slot = ready /\ g.want = want
         /\ g.rows = Len(g.want) /\ Shows(g.slot, g.want)
         /\ Reusable(ready) \in Operation /\ Reusable(ready).op = "record"
         /\ Reusable(ready).slot = ready
  <1>1. ready \in Batches /\ want \in Seq(Nat) /\ row_count[ready] \in Nat
        /\ Loaded(ready, want)
    BY DEF ReaderInv, ReaderTypes, ChannelTypes, Control, Contents
  <1>2. Gather(ready) = [op |-> "gather", slot |-> ready, rows |-> row_count[ready], want |-> want]
        /\ Reusable(ready) = [op |-> "record", slot |-> ready]
    BY DEF Gather, Reusable
  <1>3. Gather(ready) \in Operation /\ Reusable(ready) \in Operation
    BY <1>1, <1>2 DEF Operation
  <1> QED
    BY <1>1, <1>2, <1>3 DEF Loaded

\* The gather and the record of its event are queued.
LEMMA GatherRowsHolds ==
  ASSUME ReaderAssumption, ReaderInv, GatherRows
  PROVE  ReaderInv'
  <1> DEFINE g == Gather(ready)
             r == Reusable(ready)
             t == <<g, r>>
             n == Len(stream)
  <1>1. /\ pc = "ready" /\ pc' = "idle" /\ EndGather /\ stream' = stream \o t
        /\ busy' = Append(busy, ready) /\ UNCHANGED <<free, lost>>
    BY DEF GatherRows
  <1>2. /\ g \in Operation /\ g.op = "gather" /\ g.slot = ready
        /\ g.rows = Len(g.want) /\ Shows(g.slot, g.want)
        /\ r \in Operation /\ r.op = "record" /\ r.slot = ready
    BY <1>1, GatherTyped
  <1>3. stream \in Seq(Operation) /\ n \in Nat /\ DOMAIN stream = 1..n
    BY DEF ReaderInv, ChannelTypes
  <1> HIDE DEF g, r
  <1>4. t \in Seq(Operation) /\ Len(t) = 2 /\ t[1] = g /\ t[2] = r
    BY <1>2
  <1> HIDE DEF t
  <1>5. /\ stream' \in Seq(Operation) /\ Len(stream') = n + 2
        /\ \A i \in 1..n : stream'[i] = stream[i]
        /\ stream'[n + 1] = g /\ stream'[n + 2] = r
    <2>1. /\ stream \o t \in Seq(Operation) /\ Len(stream \o t) = n + 2
          /\ \A i \in 1..n : (stream \o t)[i] = stream[i]
          /\ \A i \in (n + 1)..(n + 2) : (stream \o t)[i] = t[i - n]
      <3>1. \A s \in Seq(Operation), u \in Seq(Operation) :
              /\ s \o u \in Seq(Operation) /\ Len(s \o u) = Len(s) + Len(u)
              /\ \A i \in 1..Len(s) : (s \o u)[i] = s[i]
              /\ \A i \in (Len(s) + 1)..(Len(s) + Len(u)) : (s \o u)[i] = u[i - Len(s)]
        OBVIOUS
      <3>2. /\ stream \o t \in Seq(Operation) /\ Len(stream \o t) = Len(stream) + Len(t)
            /\ \A i \in 1..Len(stream) : (stream \o t)[i] = stream[i]
            /\ \A i \in (Len(stream) + 1)..(Len(stream) + Len(t)) :
                 (stream \o t)[i] = t[i - Len(stream)]
        BY <1>3, <1>4, <3>1
      <3> QED
        BY <1>4, <3>2
    <2>2. /\ n + 1 \in (n + 1)..(n + 2) /\ (n + 1) - n = 1
          /\ n + 2 \in (n + 1)..(n + 2) /\ (n + 2) - n = 2
      BY <1>3
    <2>3. (stream \o t)[n + 1] = t[1] /\ (stream \o t)[n + 2] = t[2]
      BY <2>1, <2>2
    <2> QED
      BY <1>1, <1>4, <2>1, <2>3
  <1>6. DOMAIN stream' = 1..(n + 2)
    BY <1>5
  <1>7. UNCHANGED <<pages, offsets>> /\ ready' = NoSlot
    BY <1>1 DEF EndGather, memory
  <1>8. busy \in Seq(Batches) /\ ToSet(busy') = ToSet(busy) \cup {ready}
    <2>1. busy \in Seq(Batches) /\ ready \in Batches
      BY <1>1 DEF ReaderInv, ReaderTypes, Control
    <2> QED
      BY <1>1, <2>1, ToSetAppend
  <1> HIDE DEF n
  <1>9. ASSUME NEW i \in 1..(n + 2)
        PROVE  /\ stream'[i].op = "record" => stream'[i].slot \in ToSet(busy')
               /\ stream'[i].op = "gather" =>
                    /\ stream'[i].rows = Len(stream'[i].want)
                    /\ Shows(stream'[i].slot, stream'[i].want)
                    /\ \E j \in 1..(n + 2) : j > i /\ stream'[j] = Reusable(stream'[i].slot)
    <2>1. i \in 1..n \/ i = n + 1 \/ i = n + 2
      BY <1>3
    <2>2. CASE i \in 1..n
      <3>1. stream'[i] = stream[i]
        BY <1>5, <2>2
      <3>2. /\ stream[i].op = "record" => stream[i].slot \in ToSet(busy)
            /\ stream[i].op = "gather" =>
                 /\ stream[i].rows = Len(stream[i].want) /\ Shows(stream[i].slot, stream[i].want)
                 /\ \E j \in 1..n : j > i /\ stream[j] = Reusable(stream[i].slot)
        BY <1>1, <1>3, <2>2 DEF ReaderInv, Launched
      <3>3. ASSUME stream[i].op = "gather"
            PROVE  \E j \in 1..(n + 2) : j > i /\ stream'[j] = Reusable(stream[i].slot)
        <4>1. PICK j \in 1..n : j > i /\ stream[j] = Reusable(stream[i].slot)
          BY <3>2, <3>3
        <4>2. j \in 1..(n + 2) /\ stream'[j] = stream[j]
          BY <1>3, <1>5
        <4> QED
          BY <4>1, <4>2
      <3> QED
        BY <1>8, <3>1, <3>2, <3>3
    <2>3. CASE i = n + 1
      <3>1. n + 2 \in 1..(n + 2) /\ n + 2 > i /\ stream'[n + 2] = Reusable(ready) /\ stream'[i] = g
        BY <1>3, <1>5, <2>3 DEF r
      <3> QED
        BY <1>2, <3>1
    <2>4. CASE i = n + 2
      BY <1>2, <1>5, <1>8, <2>4
    <2> QED
      BY <2>1, <2>2, <2>3, <2>4
  <1>10. Launched'
    <2>1. ASSUME NEW i \in DOMAIN stream'
          PROVE  /\ stream'[i].op = "record" => stream'[i].slot \in ToSet(busy')
                 /\ stream'[i].op = "gather" =>
                    /\ stream'[i].rows = Len(stream'[i].want)
                    /\ \A k \in 1..Len(stream'[i].want) :
                         pages'[stream'[i].slot][offsets'[stream'[i].slot][k]] = stream'[i].want[k]
                    /\ \E j \in DOMAIN stream' : j > i /\ stream'[j] = Reusable(stream'[i].slot)
      BY <1>6, <1>7, <1>9 DEF Shows
    <2> QED
      BY <2>1 DEF Launched, Shows, Reusable
  <1> QED
    BY <1>1, <1>5, <1>10, EndGatherHolds

\* The gather that was not launched leaves the stream as it was.
LEMMA LaunchFailsHolds ==
  ASSUME ReaderAssumption, ReaderInv, LaunchFails
  PROVE  ReaderInv'
  <1>1. /\ pc = "ready" /\ pc' = "idle" /\ EndGather /\ stream' = stream
        /\ free' = Append(free, ready) /\ UNCHANGED <<busy, lost>>
    BY DEF LaunchFails
  <1>2. UNCHANGED <<pages, offsets>>
    BY <1>1 DEF EndGather, memory
  <1>3. Launched'
    BY <1>1, <1>2, LaunchedStays DEF ReaderInv
  <1>4. stream' \in Seq(Operation)
    BY <1>1 DEF ReaderInv, ChannelTypes
  <1> QED
    BY <1>1, <1>3, <1>4, EndGatherHolds

\* The pass waits with the gather as the last of the stream.
LEMMA RecordFailsHolds ==
  ASSUME ReaderAssumption, ReaderInv, RecordFails
  PROVE  ReaderInv'
  <1> DEFINE g == Gather(ready)
             n == Len(stream)
  <1>1. /\ pc = "ready" /\ pc' = "drain" /\ stream' = Append(stream, g)
        /\ UNCHANGED <<want, free, busy, ready, pending, lost, request, response, open, pool, memory>>
    BY DEF RecordFails, reader, channels
  <1>2. /\ g \in Operation /\ g.op = "gather" /\ g.slot = ready
        /\ g.rows = Len(g.want) /\ Shows(g.slot, g.want)
    BY <1>1, GatherTyped
  <1>3. stream \in Seq(Operation) /\ n \in Nat /\ DOMAIN stream = 1..n
    BY DEF ReaderInv, ChannelTypes
  <1> HIDE DEF g
  <1>4. /\ stream' \in Seq(Operation) /\ DOMAIN stream' = 1..(n + 1)
        /\ \A i \in 1..n : stream'[i] = stream[i]
        /\ stream'[n + 1] = g
    BY <1>1, <1>2, <1>3
  <1> HIDE DEF n
  <1>5. /\ Channels' /\ Reading' /\ Travelling' = Travelling /\ ChannelTypes'
        /\ coordinator' = coordinator /\ pages' = pages /\ offsets' = offsets
        /\ row_count' = row_count
    BY <1>1, <1>4, ChannelsStay
  <1>6. ReaderTypes'
    BY <1>1 DEF ReaderInv, ReaderTypes
  <1>7. Accounts'
    <2>1. Held' = Held
      BY <1>1 DEF Held
    <2> QED
      BY <1>1, <1>5, <2>1 DEF ReaderInv, Accounts
  <1>8. Control'
    BY <1>1, <1>5 DEF ReaderInv, Control
  <1>9. Contents'
    BY <1>1, <1>5 DEF ReaderInv, Contents, Loaded, Shows
  <1>10. ASSUME NEW i \in 1..(n + 1)
         PROVE  /\ stream'[i].op = "record" => stream'[i].slot \in ToSet(busy')
                /\ stream'[i].op = "gather" =>
                     /\ stream'[i].rows = Len(stream'[i].want)
                     /\ Shows(stream'[i].slot, stream'[i].want)
                     /\ \/ \E j \in 1..(n + 1) : j > i /\ stream'[j] = Reusable(stream'[i].slot)
                        \/ stream'[i].slot = ready
    <2>1. i \in 1..n \/ i = n + 1
      BY <1>3
    <2>2. CASE i \in 1..n
      <3>1. stream'[i] = stream[i]
        BY <1>4, <2>2
      <3>2. /\ stream[i].op = "record" => stream[i].slot \in ToSet(busy)
            /\ stream[i].op = "gather" =>
                 /\ stream[i].rows = Len(stream[i].want) /\ Shows(stream[i].slot, stream[i].want)
                 /\ \E j \in 1..n : j > i /\ stream[j] = Reusable(stream[i].slot)
        BY <1>1, <1>3, <2>2 DEF ReaderInv, Launched
      <3>3. ASSUME stream[i].op = "gather"
            PROVE  \E j \in 1..(n + 1) : j > i /\ stream'[j] = Reusable(stream[i].slot)
        <4>1. PICK j \in 1..n : j > i /\ stream[j] = Reusable(stream[i].slot)
          BY <3>2, <3>3
        <4>2. j \in 1..(n + 1) /\ stream'[j] = stream[j]
          BY <1>3, <1>4
        <4> QED
          BY <4>1, <4>2
      <3> QED
        BY <1>1, <3>1, <3>2, <3>3
    <2>3. CASE i = n + 1
      BY <1>2, <1>4, <2>3
    <2> QED
      BY <2>1, <2>2, <2>3
  <1>11. Launched'
    <2>1. ASSUME NEW i \in DOMAIN stream'
          PROVE  /\ stream'[i].op = "record" => stream'[i].slot \in ToSet(busy')
                 /\ stream'[i].op = "gather" =>
                    /\ stream'[i].rows = Len(stream'[i].want)
                    /\ \A k \in 1..Len(stream'[i].want) :
                         pages'[stream'[i].slot][offsets'[stream'[i].slot][k]] = stream'[i].want[k]
                    /\ \/ \E j \in DOMAIN stream' : j > i /\ stream'[j] = Reusable(stream'[i].slot)
                       \/ pc' = "drain" /\ stream'[i].slot = ready'
      BY <1>1, <1>4, <1>5, <1>10 DEF Shows
    <2> QED
      BY <2>1 DEF Launched, Shows, Reusable
  <1> QED
    BY <1>5, <1>6, <1>7, <1>8, <1>9, <1>11 DEF ReaderInv

\* After the drain nothing is queued, whether it succeeded or the device failed.
LEMMA DrainHolds ==
  ASSUME ReaderAssumption, ReaderInv, Drained \/ DrainFails
  PROVE  ReaderInv'
  <1>1. /\ pc = "drain" /\ pc' = "idle" /\ EndGather /\ stream' = <<>>
        /\ \/ free' = Append(free, ready) /\ UNCHANGED <<busy, lost>>
           \/ lost' = lost \cup {ready} /\ UNCHANGED <<free, busy>>
    BY DEF Drained, DrainFails
  <1>2. stream' \in Seq(Operation) /\ Launched'
    BY <1>1 DEF Launched
  <1> QED
    BY <1>1, <1>2, EndGatherHolds

-----------------------------------------------------------------------------
(***************************************************************************)
(* The drop of the reader, and the stream.                                 *)
(***************************************************************************)

\* The request channel is closed; a batch that travels goes on.
LEMMA DropReaderHolds ==
  ASSUME ReaderAssumption, ReaderInv, DropReader
  PROVE  ReaderInv'
  <1>1. /\ pc = "idle" /\ open /\ open' = FALSE /\ pc' = "join"
        /\ UNCHANGED <<want, free, busy, ready, pending, lost, request, response, pool, memory, stream>>
    BY DEF DropReader, reader
  <1>2. stream' \in Seq(Operation)
    BY <1>1 DEF ReaderInv, ChannelTypes
  <1>3. /\ Channels' /\ Reading' /\ Travelling' = Travelling /\ ChannelTypes'
        /\ coordinator' = coordinator /\ pages' = pages /\ offsets' = offsets
    BY <1>1, <1>2, ChannelsStay
  <1>4. ReaderTypes'
    BY <1>1 DEF ReaderInv, ReaderTypes
  <1>5. Accounts'
    <2>1. Held' = Held
      BY <1>1 DEF Held
    <2> QED
      BY <1>1, <1>3, <2>1 DEF ReaderInv, Accounts
  <1>6. Control' /\ Contents'
    BY <1>1, <1>3 DEF ReaderInv, Control, Contents
  <1>7. Launched'
    BY <1>1, <1>3, LaunchedStays DEF ReaderInv
  <1> QED
    BY <1>3, <1>4, <1>5, <1>6, <1>7 DEF ReaderInv

\* When the events of the busy batches are done the stream holds nothing of the reader.
LEMMA JoinedHolds ==
  ASSUME ReaderAssumption, ReaderInv, Joined
  PROVE  ReaderInv'
  <1>1. /\ pc = "join" /\ coordinator.phase = "exit" /\ pc' = "dropped"
        /\ \A i \in DOMAIN busy : EventDone(busy[i])
        /\ UNCHANGED <<want, free, busy, ready, pending, lost, request, response, open, pool, memory, stream>>
    BY DEF Joined, reader, channels
  <1>2. stream \in Seq(Operation) /\ stream' \in Seq(Operation)
    BY <1>1 DEF ReaderInv, ChannelTypes
  <1>3. \A b \in ToSet(busy) : EventDone(b)
    <2>1. busy \in Seq(Batches) /\ DOMAIN busy = 1..Len(busy)
      BY DEF ReaderInv, ReaderTypes
    <2> QED
      BY <1>1, <2>1, MemberAt
  <1>4. ASSUME NEW i \in DOMAIN stream PROVE stream[i].op # "record"
    <2> SUFFICES ASSUME stream[i].op = "record" PROVE FALSE
      OBVIOUS
    <2>1. stream[i] \in Operation /\ stream[i].slot \in ToSet(busy)
      BY <1>2 DEF ReaderInv, Launched
    <2>2. stream[i] = Reusable(stream[i].slot)
      BY <2>1 DEF Operation, Reusable
    <2> QED
      BY <1>3, <2>1, <2>2 DEF EventDone
  <1>5. ASSUME NEW i \in DOMAIN stream PROVE stream[i].op # "gather"
    <2> SUFFICES ASSUME stream[i].op = "gather" PROVE FALSE
      OBVIOUS
    <2>1. PICK j \in DOMAIN stream : stream[j] = Reusable(stream[i].slot)
      BY <1>1 DEF ReaderInv, Launched
    <2> QED
      BY <1>4, <2>1 DEF Reusable
  <1>6. stream = <<>>
    <2>1. \A i \in DOMAIN stream : stream[i] \in Operation
      BY <1>2
    <2>2. DOMAIN stream = {}
      BY <1>4, <1>5, <2>1 DEF Operation
    <2>3. Len(stream) = 0
      BY <1>2, <2>2
    <2> QED
      BY <1>2, <2>3
  <1>7. /\ Channels' /\ Reading' /\ Travelling' = Travelling /\ ChannelTypes'
        /\ coordinator' = coordinator
    BY <1>1, <1>2, ChannelsStay
  <1>8. ReaderTypes'
    BY <1>1 DEF ReaderInv, ReaderTypes
  <1>9. Accounts'
    <2>1. Held' = Held
      BY <1>1 DEF Held
    <2> QED
      BY <1>1, <1>7, <2>1 DEF ReaderInv, Accounts
  <1>10. Control' /\ Contents'
    BY <1>1, <1>6, <1>7 DEF ReaderInv, Control, Contents
  <1>11. Launched'
    BY <1>1, <1>6 DEF Launched
  <1> QED
    BY <1>7, <1>8, <1>9, <1>10, <1>11 DEF ReaderInv

\* The next operation of the stream is done.
LEMMA StreamStepHolds ==
  ASSUME ReaderAssumption, ReaderInv, StreamStep
  PROVE  ReaderInv'
  <1> DEFINE n == Len(stream)
  <1>1. /\ stream # <<>> /\ stream' = Tail(stream)
        /\ UNCHANGED <<pc, want, free, busy, ready, pending, lost, request, response, open, pool, memory>>
    BY DEF StreamStep, pass, reader, channels
  <1>2. /\ stream \in Seq(Operation) /\ n \in Nat /\ n > 0 /\ DOMAIN stream = 1..n
    BY <1>1 DEF ReaderInv, ChannelTypes
  <1>3. /\ stream' \in Seq(Operation) /\ DOMAIN stream' = 1..(n - 1)
        /\ \A i \in 1..(n - 1) : stream'[i] = stream[i + 1]
    BY <1>1, <1>2
  <1> HIDE DEF n
  <1>4. /\ Channels' /\ Reading' /\ Travelling' = Travelling /\ ChannelTypes'
        /\ coordinator' = coordinator /\ pages' = pages /\ offsets' = offsets
        /\ row_count' = row_count
    BY <1>1, <1>3, ChannelsStay
  <1>5. ReaderTypes'
    BY <1>1 DEF ReaderInv, ReaderTypes
  <1>6. Accounts'
    <2>1. Held' = Held
      BY <1>1 DEF Held
    <2> QED
      BY <1>1, <1>4, <2>1 DEF ReaderInv, Accounts
  <1>7. Control'
    BY <1>1, <1>4 DEF ReaderInv, Control
  <1>8. Contents'
    BY <1>1, <1>4 DEF ReaderInv, Contents, Loaded, Shows
  <1>9. ASSUME NEW i \in 1..(n - 1)
        PROVE  /\ stream'[i].op = "record" => stream'[i].slot \in ToSet(busy)
               /\ stream'[i].op = "gather" =>
                    /\ stream'[i].rows = Len(stream'[i].want)
                    /\ Shows(stream'[i].slot, stream'[i].want)
                    /\ \/ \E j \in 1..(n - 1) : j > i /\ stream'[j] = Reusable(stream'[i].slot)
                       \/ pc = "drain" /\ stream'[i].slot = ready
    <2>1. i + 1 \in 1..n /\ stream'[i] = stream[i + 1]
      BY <1>2, <1>3
    <2> DEFINE g == stream[i + 1]
    <2>2. /\ g.op = "record" => g.slot \in ToSet(busy)
          /\ g.op = "gather" =>
               /\ g.rows = Len(g.want) /\ Shows(g.slot, g.want)
               /\ \/ \E j \in 1..n : j > i + 1 /\ stream[j] = Reusable(g.slot)
                  \/ pc = "drain" /\ g.slot = ready
      BY <1>2, <2>1 DEF ReaderInv, Launched
    <2>3. ASSUME NEW j \in 1..n, j > i + 1
          PROVE  j - 1 \in 1..(n - 1) /\ j - 1 > i /\ stream'[j - 1] = stream[j]
      <3>1. j - 1 \in 1..(n - 1) /\ j - 1 > i /\ (j - 1) + 1 = j
        BY <1>2, <2>3
      <3> QED
        BY <1>3, <3>1
    <2> HIDE DEF g
    <2>4. (\E j \in 1..n : j > i + 1 /\ stream[j] = Reusable(g.slot)) =>
             \E j \in 1..(n - 1) : j > i /\ stream'[j] = Reusable(g.slot)
      BY <2>3
    <2>5. stream'[i] = g
      BY <2>1 DEF g
    <2> QED
      BY <2>2, <2>4, <2>5
  <1>10. Launched'
    <2>1. ASSUME NEW i \in DOMAIN stream'
          PROVE  /\ stream'[i].op = "record" => stream'[i].slot \in ToSet(busy')
                 /\ stream'[i].op = "gather" =>
                    /\ stream'[i].rows = Len(stream'[i].want)
                    /\ \A k \in 1..Len(stream'[i].want) :
                         pages'[stream'[i].slot][offsets'[stream'[i].slot][k]] = stream'[i].want[k]
                    /\ \/ \E j \in DOMAIN stream' : j > i /\ stream'[j] = Reusable(stream'[i].slot)
                       \/ pc' = "drain" /\ stream'[i].slot = ready'
      BY <1>1, <1>3, <1>4, <1>9 DEF Shows
    <2> QED
      BY <2>1 DEF Launched, Shows, Reusable
  <1> QED
    BY <1>4, <1>5, <1>6, <1>7, <1>8, <1>10 DEF ReaderInv

\* A new reader, on a stream with nothing of the dropped one.
LEMMA ReopenHolds ==
  ASSUME ReaderAssumption, ReaderInv, Reopen
  PROVE  ReaderInv'
  <1>1. stream' = <<>>
    BY DEF Reopen, ReaderInv, Control
  <1>2. ReaderInit'
    BY <1>1 DEF Reopen, ReaderInit, Resting
  <1>3. ReaderInit' => ReaderInv'
    BY NewReader, PTL
  <1> QED
    BY <1>2, <1>3

-----------------------------------------------------------------------------
(***************************************************************************)
(* The coordinator and its workers.                                        *)
(***************************************************************************)

\* What is known while the coordinator reads.
LEMMA ReadingFacts ==
  ASSUME ReaderAssumption, ReaderInv, coordinator.phase = "dispatch"
  PROVE  /\ coordinator \in Coordinator /\ coordinator.slot \in Batches /\ coordinator.slot # NoSlot
         /\ coordinator.rows \in Requests /\ coordinator.rows \in Seq(Nat)
         /\ coordinator.dispatched \in Nat /\ coordinator.collected \in Nat
         /\ coordinator.failed \in BOOLEAN
         /\ Reads \in Seq(Nat) /\ Len(Reads) <= MaxRows
         /\ request = <<>> /\ response = <<>> /\ Travelling = {coordinator.slot}
         /\ IsFiniteSet(InFlight) /\ Cardinality(InFlight) \in Nat
         /\ open \/ pc = "join"
  <1>1. /\ coordinator \in Coordinator /\ coordinator.slot \in Batches /\ coordinator.slot # NoSlot
        /\ coordinator.rows \in Requests /\ coordinator.rows \in Seq(Nat)
        /\ coordinator.dispatched \in Nat /\ coordinator.collected \in Nat
        /\ coordinator.failed \in BOOLEAN
    BY DEF ReaderInv, ChannelTypes, Channels, Coordinator, ReaderAssumption
  <1>2. Reads \in Seq(Nat) /\ Len(Reads) <= MaxRows
    <2>1. Reads \in Seq(Nat) /\ Len(Reads) <= Len(coordinator.rows)
      BY <1>1, UniqueFacts DEF Reads
    <2>2. Len(coordinator.rows) \in 1..MaxRows /\ MaxRows \in Nat
      BY <1>1 DEF ReaderAssumption
    <2>3. Len(Reads) \in Nat
      BY <2>1
    <2> QED
      BY <2>1, <2>2, <2>3
  <1>3. request = <<>> /\ response = <<>>
    BY DEF ReaderInv, Channels
  <1>4. Travelling = {coordinator.slot}
    BY <1>1, <1>3 DEF Travelling, Requested, Working, Answered
  <1>5. IsFiniteSet(InFlight) /\ Cardinality(InFlight) \in Nat
    <2> DEFINE d == coordinator.dispatched
    <2>1. 1 \in Int /\ d \in Int
      BY <1>1
    <2>2. IsFiniteSet(1..d)
      BY <2>1, FS_Interval
    <2>3. InFlight \subseteq 1..d
      BY DEF InFlight
    <2> HIDE DEF d
    <2> QED
      BY <2>2, <2>3, FS_Subset, FS_CardinalityType
  <1>6. open \/ pc = "join"
    BY DEF ReaderInv, Control
  <1> QED
    BY <1>1, <1>2, <1>3, <1>4, <1>5, <1>6

\* The coordinator lays out the pages of the batch it received.
LEMMA ReceiveRequestHolds ==
  ASSUME ReaderAssumption, ReaderInv, ReceiveRequest
  PROVE  ReaderInv'
  <1> DEFINE r == Head(request)
             s == r.slot
             rows == r.rows
             c == [Resting EXCEPT !.phase = "dispatch", !.rows = rows, !.slot = s]
             o == [i \in 1..MaxRows |-> IF i \in DOMAIN rows THEN SlotOf(rows, i) ELSE offsets[s][i]]
  <1>1. /\ coordinator.phase = "recv" /\ request # <<>> /\ request' = <<>>
        /\ coordinator' = c /\ offsets' = [offsets EXCEPT ![s] = o]
        /\ UNCHANGED <<pass, reader, response, open, jobs, completions, pages, row_count, stream>>
    BY DEF ReceiveRequest
  <1>2. /\ request \in Seq(Ask) /\ Len(request) = 1 /\ rows \in Requests /\ response = <<>>
        /\ Quiet /\ pending /\ coordinator.slot = NoSlot
    BY <1>1 DEF ReaderInv, ChannelTypes, Channels
  <1>3. Requested = {s} /\ r \in Ask
    BY <1>2, SlotsOfQueue DEF Requested
  <1>4. /\ s \in Batches /\ s # NoSlot /\ rows \in Seq(Nat)
        /\ Len(rows) \in 1..MaxRows /\ MaxRows \in Nat
    BY <1>2, <1>3 DEF Ask, ReaderAssumption
  <1> HIDE DEF r, s, rows
  <1>6. o \in [1..MaxRows -> Nat] /\ \A i \in 1..Len(rows) : o[i] = SlotOf(rows, i)
    <2>1. offsets[s] \in [1..MaxRows -> Nat]
      BY <1>4 DEF ReaderInv, ChannelTypes
    <2>2. DOMAIN rows = 1..Len(rows) /\ Len(rows) \in Nat
      BY <1>4
    <2>3. ASSUME NEW i \in 1..Len(rows) PROVE SlotOf(rows, i) \in Nat /\ i \in 1..MaxRows
      <3>1. SlotOf(rows, i) \in 1..Len(Unique(rows)) /\ Unique(rows) \in Seq(Nat)
        BY <1>4, SlotOfFacts, UniqueFacts
      <3>2. Len(Unique(rows)) \in Nat
        BY <3>1
      <3> QED
        BY <1>4, <2>2, <3>1, <3>2
    <2> QED
      BY <2>1, <2>2, <2>3
  <1> HIDE DEF o
  <1>7. /\ offsets'[s] = o /\ \A b \in Batches \ {s} : offsets'[b] = offsets[b]
        /\ offsets' \in [Batches -> [1..MaxRows -> Nat]]
    BY <1>1, <1>4, <1>6 DEF ReaderInv, ChannelTypes
  <1>8. /\ coordinator'.phase = "dispatch" /\ coordinator'.rows = rows /\ coordinator'.slot = s
        /\ coordinator'.dispatched = 0 /\ coordinator'.collected = 0
        /\ coordinator' \in Coordinator
    <2> DEFINE R == Resting
    <2>1. R \in Coordinator /\ R.dispatched = 0 /\ R.collected = 0
      BY RestingFacts
    <2>2. c = [R EXCEPT !.phase = "dispatch", !.rows = rows, !.slot = s]
      OBVIOUS
    <2> HIDE DEF R, c
    <2> QED
      BY <1>1, <1>4, <2>1, <2>2 DEF Coordinator
  <1>9. ChannelTypes'
    <2>1. request' \in Seq(Ask)
      BY <1>1
    <2> QED
      BY <1>1, <1>7, <1>8, <2>1 DEF ReaderInv, ChannelTypes
  <1>10. Travelling = {s} /\ Travelling' = {s}
    <2>1. Working = {} /\ Answered = {} /\ Working' = {s} /\ Answered' = {} /\ Requested' = {}
      BY <1>1, <1>2, <1>4, <1>8 DEF Working, Answered, Requested
    <2> QED
      BY <1>3, <2>1 DEF Travelling
  <1>11. /\ ReaderTypes' /\ Accounts' /\ Launched'
         /\ pc' \in {"ready", "drain"} => Loaded(ready, want)'
    BY <1>1, <1>7, <1>10, OthersStay
  <1>12. UNCHANGED <<pc, want, ready, pending>>
    BY <1>1 DEF pass, reader
  <1>13. Control'
    BY <1>1, <1>8, <1>12 DEF ReaderInv, Control
  <1>14. Channels'
    BY <1>1, <1>2, <1>4, <1>8, <1>12 DEF Channels
  <1>15. Reading'
    <2>1. InFlight' = {}
      BY <1>8 DEF InFlight
    <2>2. Cardinality(InFlight') = 0
      BY <2>1, FS_EmptySet
    <2>3. completions' = <<>> /\ \A w \in Worker : jobs'[w] = <<>>
      BY <1>1, <1>2 DEF Quiet
    <2>4. Len(completions') = 0 /\ \A w \in Worker : DOMAIN jobs'[w] = {}
      BY <2>3
    <2>5. JobsFit' /\ JobsDistinct'
      BY <2>4 DEF JobsFit, JobsDistinct
    <2>6. Reads' \in Seq(Nat)
      BY <1>4, <1>8, UniqueFacts DEF Reads
    <2>7. coordinator'.dispatched <= Len(Reads')
      <3>1. Len(Reads') \in Nat
        BY <2>6
      <3> QED
        BY <1>8, <3>1
    <2>8. \A i \in 1..Len(coordinator'.rows) :
            offsets'[coordinator'.slot][i] = SlotOf(coordinator'.rows, i)
      BY <1>6, <1>7, <1>8
    <2>9. Cardinality(InFlight') + Len(completions') + coordinator'.collected
            = coordinator'.dispatched
      BY <1>8, <2>2, <2>4
    <2>10. 1..coordinator'.dispatched = {}
      BY <1>8
    <2> QED
      BY <2>5, <2>7, <2>8, <2>9, <2>10 DEF Reading
  <1>16. Contents'
    <2>1. pc = "layers" => rows = want
      BY <1>1 DEF ReaderInv, Contents, r, rows
    <2> QED
      BY <1>1, <1>2, <1>8, <1>11, <1>12, <2>1 DEF Contents
  <1> QED
    BY <1>9, <1>11, <1>13, <1>14, <1>15, <1>16 DEF ReaderInv

\* The next read is handed to a worker, which may write the page from now on.
LEMMA DispatchHolds ==
  ASSUME ReaderAssumption, ReaderInv, Dispatch
  PROVE  ReaderInv'
  <1> DEFINE d == coordinator.dispatched
             s == coordinator.slot
             k == d + 1
             w == (d % Workers) + 1
             job == [slot |-> s, page |-> k, row |-> Reads[k]]
  <1>1. /\ coordinator.phase = "dispatch" /\ d < Len(Reads)
        /\ jobs' = [jobs EXCEPT ![w] = Append(jobs[w], job)]
        /\ pages' = [pages EXCEPT ![s] = [pages[s] EXCEPT ![k] = Torn]]
        /\ coordinator' = [coordinator EXCEPT !.dispatched = k]
        /\ UNCHANGED <<pass, reader, channels, completions, offsets, row_count, stream>>
    BY DEF Dispatch
  <1>2. /\ coordinator \in Coordinator /\ s \in Batches /\ s # NoSlot
        /\ coordinator.rows \in Requests /\ d \in Nat
        /\ Reads \in Seq(Nat) /\ Len(Reads) <= MaxRows
        /\ request = <<>> /\ response = <<>> /\ Travelling = {s}
        /\ IsFiniteSet(InFlight) /\ Cardinality(InFlight) \in Nat
    BY <1>1, ReadingFacts
  <1>3. k \in Nat /\ k \in 1..Len(Reads) /\ k \in 1..MaxRows /\ 1..k = 1..d \cup {k} /\ k \notin 1..d
    <2>1. Len(Reads) \in Nat /\ MaxRows \in Nat
      BY <1>2 DEF ReaderAssumption
    <2> QED
      BY <1>1, <1>2, <2>1
  <1>4. w \in Worker
    <2>1. Workers \in Nat /\ Workers > 0
      BY DEF ReaderAssumption
    <2>2. d % Workers \in 0..(Workers - 1)
      BY <1>2, <2>1
    <2> QED
      BY <2>1, <2>2 DEF Worker
  <1>5. job \in Job /\ job.slot = s /\ job.page = k /\ job.row = Reads[k]
    BY <1>2, <1>3 DEF Job
  <1>6. /\ coordinator' \in Coordinator /\ coordinator'.phase = "dispatch" /\ coordinator'.slot = s
        /\ coordinator'.rows = coordinator.rows /\ coordinator'.dispatched = k
        /\ coordinator'.collected = coordinator.collected
        /\ coordinator'.failed = coordinator.failed
    BY <1>1, <1>2, <1>3 DEF Coordinator
  <1>7. Reads' = Reads
    BY <1>6 DEF Reads
  <1> HIDE DEF d, s, w, k, job
  <1>8. /\ jobs \in [Worker -> Seq(Job)] /\ jobs' \in [Worker -> Seq(Job)]
        /\ \A v \in Worker \ {w} : jobs'[v] = jobs[v]
        /\ jobs'[w] = Append(jobs[w], job)
    BY <1>1, <1>4, <1>5 DEF ReaderInv, ChannelTypes
  <1> DEFINE m == Len(jobs[w]) + 1
  <1>9. /\ m \in Nat /\ m > 0 /\ DOMAIN jobs[w] = 1..(m - 1) /\ DOMAIN jobs'[w] = 1..m
        /\ \A i \in 1..(m - 1) : jobs'[w][i] = jobs[w][i]
        /\ jobs'[w][m] = job
    <2>1. jobs[w] \in Seq(Job)
      BY <1>4, <1>8
    <2> QED
      BY <1>5, <1>8, <2>1
  <1> HIDE DEF m
  <1>10. ASSUME NEW v \in Worker, NEW i \in DOMAIN jobs'[v]
         PROVE  \/ v = w /\ i = m /\ jobs'[v][i] = job
                \/ i \in DOMAIN jobs[v] /\ jobs'[v][i] = jobs[v][i] /\ (v = w => i # m)
    <2>1. CASE v = w
      <3>1. i = m \/ i \in 1..(m - 1)
        BY <1>9, <2>1
      <3> QED
        BY <1>9, <2>1, <3>1
    <2>2. CASE v # w
      BY <1>8, <2>2
    <2> QED
      BY <2>1, <2>2
  <1>11. ASSUME NEW v \in Worker, NEW i \in DOMAIN jobs[v]
         PROVE  i \in DOMAIN jobs'[v] /\ jobs'[v][i] = jobs[v][i]
    <2>1. CASE v = w
      <3>1. i \in 1..(m - 1) /\ i \in 1..m
        BY <1>9, <2>1
      <3> QED
        BY <1>9, <2>1, <3>1
    <2>2. CASE v # w
      BY <1>8, <2>2
    <2> QED
      BY <2>1, <2>2
  <1>12. JobsFit /\ JobsDistinct
    BY <1>1 DEF ReaderInv, Reading
  <1>13. JobsFit'
    <2>1. ASSUME NEW v \in Worker, NEW i \in DOMAIN jobs'[v]
          PROVE  /\ jobs'[v][i].slot = s /\ jobs'[v][i].page \in 1..k
                 /\ jobs'[v][i].row = Reads[jobs'[v][i].page]
      <3>1. CASE jobs'[v][i] = job
        BY <1>3, <1>5, <3>1
      <3>2. CASE i \in DOMAIN jobs[v] /\ jobs'[v][i] = jobs[v][i]
        BY <1>3, <1>12, <3>2 DEF JobsFit, d, s
      <3> QED
        BY <1>10, <3>1, <3>2
    <2> QED
      BY <1>6, <1>7, <2>1 DEF JobsFit
  <1>14. JobsDistinct'
    <2>1. ASSUME NEW v \in Worker, NEW i \in DOMAIN jobs[v] PROVE jobs[v][i].page # k
      BY <1>3, <1>12 DEF JobsFit, d
    <2>2. ASSUME NEW v \in Worker, NEW u \in Worker, NEW i \in DOMAIN jobs'[v], NEW j \in DOMAIN jobs'[u],
                 jobs'[v][i].page = jobs'[u][j].page
          PROVE  v = u /\ i = j
      <3>1. \/ v = w /\ i = m /\ jobs'[v][i] = job
            \/ i \in DOMAIN jobs[v] /\ jobs'[v][i] = jobs[v][i]
        BY <1>10
      <3>2. \/ u = w /\ j = m /\ jobs'[u][j] = job
            \/ j \in DOMAIN jobs[u] /\ jobs'[u][j] = jobs[u][j]
        BY <1>10
      <3> QED
        BY <1>5, <1>12, <2>1, <2>2, <3>1, <3>2 DEF JobsDistinct
    <2> QED
      BY <2>2 DEF JobsDistinct
  <1>15. InFlight' = InFlight \cup {k} /\ k \notin InFlight
    <2>1. \A x : AtWorker(x)' <=> AtWorker(x) \/ x = k
      <3> TAKE x
      <3>1. ASSUME AtWorker(x)' PROVE AtWorker(x) \/ x = k
        <4>1. PICK v \in Worker : \E i \in DOMAIN jobs'[v] : jobs'[v][i].page = x
          BY <3>1 DEF AtWorker
        <4>2. PICK i \in DOMAIN jobs'[v] : jobs'[v][i].page = x
          BY <4>1
        <4> QED
          BY <1>5, <1>10, <4>2 DEF AtWorker
      <3>2. ASSUME AtWorker(x) PROVE AtWorker(x)'
        <4>1. PICK v \in Worker : \E i \in DOMAIN jobs[v] : jobs[v][i].page = x
          BY <3>2 DEF AtWorker
        <4>2. PICK i \in DOMAIN jobs[v] : jobs[v][i].page = x
          BY <4>1
        <4>3. i \in DOMAIN jobs'[v] /\ jobs'[v][i].page = x
          BY <1>11, <4>2
        <4> QED
          BY <4>3 DEF AtWorker
      <3>3. ASSUME x = k PROVE AtWorker(x)'
        <4>1. m \in DOMAIN jobs'[w] /\ jobs'[w][m].page = x
          BY <1>5, <1>9, <3>3
        <4> QED
          BY <1>4, <4>1 DEF AtWorker
      <3> QED
        BY <3>1, <3>2, <3>3
    <2>2. InFlight' = {x \in 1..k : AtWorker(x)'}
      BY <1>6 DEF InFlight
    <2>3. InFlight = {x \in 1..d : AtWorker(x)}
      BY DEF InFlight, d
    <2>4. ~AtWorker(k)
      <3> SUFFICES ASSUME AtWorker(k) PROVE FALSE
        OBVIOUS
      <3>1. PICK v \in Worker : \E i \in DOMAIN jobs[v] : jobs[v][i].page = k
        BY DEF AtWorker
      <3> QED
        BY <1>3, <1>12, <3>1 DEF JobsFit, d
    <2>5. \A x : x \in InFlight' <=> x \in 1..k /\ (AtWorker(x) \/ x = k)
      BY <2>1, <2>2
    <2>6. \A x : x \in InFlight <=> x \in 1..d /\ AtWorker(x)
      BY <2>3
    <2> QED
      BY <1>3, <2>4, <2>5, <2>6
  <1>16. Cardinality(InFlight') = Cardinality(InFlight) + 1
    BY <1>2, <1>15, FS_AddElement
  <1>17. /\ pages \in [Batches -> [1..MaxRows -> Nat \cup {Torn}]]
         /\ pages' \in [Batches -> [1..MaxRows -> Nat \cup {Torn}]]
         /\ \A b \in Batches \ {s} : pages'[b] = pages[b]
         /\ \A x \in 1..MaxRows \ {k} : pages'[s][x] = pages[s][x]
    BY <1>1, <1>2, <1>3 DEF ReaderInv, ChannelTypes
  <1>18. UNCHANGED <<request, response, open>>
    BY <1>1 DEF channels
  <1>19. ChannelTypes'
    BY <1>1, <1>6, <1>8, <1>17, <1>18 DEF ReaderInv, ChannelTypes
  <1>20. Travelling' = Travelling
    BY <1>6, <1>18 DEF Travelling, Requested, Working, Answered, s
  <1>21. /\ ReaderTypes' /\ Accounts' /\ Launched'
         /\ pc' \in {"ready", "drain"} => Loaded(ready, want)'
    BY <1>1, <1>2, <1>17, <1>18, <1>20, OthersStay
  <1>22. UNCHANGED <<pc, want, ready, pending>>
    BY <1>1 DEF pass, reader
  <1>23. Control' /\ Channels' /\ Contents'
    BY <1>1, <1>2, <1>6, <1>18, <1>21, <1>22 DEF ReaderInv, Control, Channels, Contents
  <1>24. Reading'
    <2>1. /\ \A i \in 1..Len(coordinator.rows) : offsets[s][i] = SlotOf(coordinator.rows, i)
          /\ Cardinality(InFlight) + Len(completions) + coordinator.collected = d
          /\ \A x \in 1..d : x \in InFlight \/ pages[s][x] = Reads[x] \/ ReadFailed
      BY <1>1 DEF ReaderInv, Reading, d, s
    <2>2. coordinator'.dispatched <= Len(Reads')
      <3>1. Len(Reads) \in Nat
        BY <1>2
      <3> QED
        BY <1>3, <1>6, <1>7, <3>1
    <2>3. Cardinality(InFlight') + Len(completions') + coordinator'.collected = k
      <3>1. Len(completions) \in Nat /\ coordinator.collected \in Nat
        BY <1>2 DEF ReaderInv, ChannelTypes, Coordinator
      <3> QED
        BY <1>1, <1>2, <1>6, <1>16, <2>1, <3>1 DEF k
    <2>4. ReadFailed => ReadFailed'
      BY <1>1, <1>6 DEF ReadFailed
    <2>5. ASSUME NEW x \in 1..k
          PROVE  x \in InFlight' \/ pages'[s][x] = Reads[x] \/ ReadFailed'
      <3>1. CASE x = k
        BY <1>15, <3>1
      <3>2. CASE x # k
        <4>1. x \in 1..d /\ x \in 1..MaxRows
          <5>1. d \in Nat /\ k = d + 1 /\ MaxRows \in Nat
            BY <1>2 DEF k, ReaderAssumption
          <5> QED
            BY <1>3, <3>2, <5>1
        <4> QED
          BY <1>15, <1>17, <2>1, <2>4, <3>2, <4>1
      <3> QED
        BY <3>1, <3>2
    <2> QED
      BY <1>1, <1>6, <1>7, <1>13, <1>14, <2>1, <2>2, <2>3, <2>5 DEF Reading
  <1> QED
    BY <1>19, <1>21, <1>23, <1>24 DEF ReaderInv

\* A worker finishes a read: its page holds the row, or the failure is in the
\* completions.
LEMMA WorkerReadsHolds ==
  ASSUME ReaderAssumption, ReaderInv, NEW w \in Worker, WorkerReads(w)
  PROVE  ReaderInv'
  <1> DEFINE d == coordinator.dispatched
             s == coordinator.slot
             job == Head(jobs[w])
  <1>0. PICK k : k = job.page
    OBVIOUS
  <1>1. PICK ok \in BOOLEAN :
          /\ jobs[w] # <<>>
          /\ pages' = [pages EXCEPT ![job.slot] =
                         [pages[job.slot] EXCEPT ![k] = IF ok THEN job.row ELSE Torn]]
          /\ completions' = Append(completions, ok)
          /\ jobs' = [jobs EXCEPT ![w] = Tail(jobs[w])]
          /\ UNCHANGED <<pass, reader, channels, coordinator, offsets, row_count, stream>>
    BY <1>0 DEF WorkerReads
  <1>2. coordinator.phase = "dispatch"
    BY <1>1 DEF ReaderInv, Channels, Quiet
  <1>3. /\ s \in Batches /\ d \in Nat /\ coordinator.collected \in Nat
        /\ Reads \in Seq(Nat) /\ Len(Reads) <= MaxRows
        /\ request = <<>> /\ response = <<>> /\ Travelling = {s}
        /\ IsFiniteSet(InFlight) /\ Cardinality(InFlight) \in Nat
    BY <1>2, ReadingFacts
  <1>4. /\ d <= Len(Reads) /\ JobsFit /\ JobsDistinct
        /\ \A i \in 1..Len(coordinator.rows) : offsets[s][i] = SlotOf(coordinator.rows, i)
        /\ Cardinality(InFlight) + Len(completions) + coordinator.collected = d
        /\ \A x \in 1..d : x \in InFlight \/ pages[s][x] = Reads[x] \/ ReadFailed
    BY <1>2 DEF ReaderInv, Reading
  <1> DEFINE m == Len(jobs[w])
  <1>5. /\ jobs \in [Worker -> Seq(Job)] /\ jobs[w] \in Seq(Job)
        /\ m \in Nat /\ m > 0 /\ DOMAIN jobs[w] = 1..m /\ 1 \in 1..m /\ job = jobs[w][1]
    BY <1>1 DEF ReaderInv, ChannelTypes
  <1>6. job.slot = s /\ k \in 1..d /\ job.row = Reads[k] /\ job \in Job
    BY <1>0, <1>4, <1>5 DEF JobsFit
  <1>7. k \in 1..MaxRows /\ job.row \in Nat
    <2>1. Len(Reads) \in Nat /\ MaxRows \in Nat
      BY <1>3 DEF ReaderAssumption
    <2> QED
      BY <1>3, <1>4, <1>6, <2>1 DEF Job
  <1> HIDE DEF job
  <1>8. /\ jobs' \in [Worker -> Seq(Job)]
        /\ \A v \in Worker \ {w} : jobs'[v] = jobs[v]
        /\ jobs'[w] = Tail(jobs[w])
    BY <1>1, <1>5 DEF ReaderInv, ChannelTypes
  <1>9. DOMAIN jobs'[w] = 1..(m - 1) /\ \A i \in 1..(m - 1) : jobs'[w][i] = jobs[w][i + 1]
    BY <1>1, <1>5, <1>8
  <1> HIDE DEF m, d, s
  <1>10. ASSUME NEW v \in Worker, NEW i \in DOMAIN jobs'[v]
         PROVE  \E j \in DOMAIN jobs[v] : /\ jobs'[v][i] = jobs[v][j]
                                          /\ IF v = w THEN j = i + 1 /\ i \in Nat ELSE j = i
    <2>1. CASE v = w
      <3>1. i \in Nat /\ i + 1 \in 1..m /\ i \in 1..(m - 1)
        BY <1>5, <1>9, <2>1
      <3> QED
        BY <1>5, <1>9, <2>1, <3>1
    <2>2. CASE v # w
      BY <1>8, <2>2
    <2> QED
      BY <2>1, <2>2
  <1>11. JobsFit'
    <2>1. Reads' = Reads
      BY <1>1 DEF Reads
    <2>2. ASSUME NEW v \in Worker, NEW i \in DOMAIN jobs'[v]
          PROVE  /\ jobs'[v][i].slot = s /\ jobs'[v][i].page \in 1..d
                 /\ jobs'[v][i].row = Reads[jobs'[v][i].page]
      <3>1. PICK j \in DOMAIN jobs[v] : jobs'[v][i] = jobs[v][j]
        BY <1>10
      <3> QED
        BY <1>4, <3>1 DEF JobsFit, s, d
    <2> QED
      BY <1>1, <2>1, <2>2 DEF JobsFit, s, d
  <1>12. JobsDistinct'
    <2>1. ASSUME NEW v \in Worker, NEW u \in Worker, NEW i \in DOMAIN jobs'[v], NEW j \in DOMAIN jobs'[u],
                 jobs'[v][i].page = jobs'[u][j].page
          PROVE  v = u /\ i = j
      <3>1. PICK x \in DOMAIN jobs[v] : /\ jobs'[v][i] = jobs[v][x]
                                        /\ IF v = w THEN x = i + 1 /\ i \in Nat ELSE x = i
        BY <1>10
      <3>2. PICK y \in DOMAIN jobs[u] : /\ jobs'[u][j] = jobs[u][y]
                                        /\ IF u = w THEN y = j + 1 /\ j \in Nat ELSE y = j
        BY <1>10
      <3>3. v = u /\ x = y
        BY <1>4, <2>1, <3>1, <3>2 DEF JobsDistinct
      <3>4. CASE v = w
        <4>1. x = i + 1 /\ y = j + 1 /\ i \in Nat /\ j \in Nat
          BY <3>1, <3>2, <3>3, <3>4
        <4>2. \A a, b \in Nat : a + 1 = b + 1 => a = b
          OBVIOUS
        <4>3. i + 1 = j + 1
          BY <3>3, <4>1, Zenon
        <4>4. i = j
          BY <4>1, <4>2, <4>3, Zenon
        <4> QED
          BY <3>3, <4>4, Zenon
      <3>5. CASE v # w
        BY <3>1, <3>2, <3>3, <3>5
      <3> QED
        BY <3>4, <3>5
    <2> QED
      BY <2>1 DEF JobsDistinct
  <1>13. InFlight' = InFlight \ {k} /\ k \in InFlight
    <2>1. AtWorker(k)
      BY <1>0, <1>5 DEF AtWorker
    <2>2. ~AtWorker(k)'
      <3> SUFFICES ASSUME AtWorker(k)' PROVE FALSE
        OBVIOUS
      <3>1. PICK v \in Worker : \E i \in DOMAIN jobs'[v] : jobs'[v][i].page = k
        BY DEF AtWorker
      <3>2. PICK i \in DOMAIN jobs'[v] : jobs'[v][i].page = k
        BY <3>1
      <3>3. PICK j \in DOMAIN jobs[v] : /\ jobs'[v][i] = jobs[v][j]
                                        /\ IF v = w THEN j = i + 1 /\ i \in Nat ELSE j = i
        BY <1>10
      <3>4. jobs[v][j].page = jobs[w][1].page
        BY <1>0, <1>5, <3>2, <3>3
      <3>5. v = w /\ j = 1
        BY <1>4, <1>5, <3>4 DEF JobsDistinct
      <3>6. i \in 1..(m - 1) /\ j = i + 1
        BY <1>9, <3>3, <3>5
      <3> QED
        BY <1>5, <3>5, <3>6
    <2>3. ASSUME NEW x, x # k PROVE AtWorker(x)' <=> AtWorker(x)
      <3>1. ASSUME AtWorker(x)' PROVE AtWorker(x)
        <4>1. PICK v \in Worker : \E i \in DOMAIN jobs'[v] : jobs'[v][i].page = x
          BY <3>1 DEF AtWorker
        <4>2. PICK i \in DOMAIN jobs'[v] : jobs'[v][i].page = x
          BY <4>1
        <4>3. PICK j \in DOMAIN jobs[v] : jobs'[v][i] = jobs[v][j]
          BY <1>10
        <4> QED
          BY <4>2, <4>3 DEF AtWorker
      <3>2. ASSUME AtWorker(x) PROVE AtWorker(x)'
        <4>1. PICK v \in Worker : \E i \in DOMAIN jobs[v] : jobs[v][i].page = x
          BY <3>2 DEF AtWorker
        <4>2. PICK i \in DOMAIN jobs[v] : jobs[v][i].page = x
          BY <4>1
        <4>3. CASE v = w
          <5>1. i # 1
            BY <1>0, <1>5, <2>3, <4>2, <4>3
          <5>2. i - 1 \in 1..(m - 1) /\ (i - 1) + 1 = i
            BY <1>5, <4>3, <5>1
          <5>3. i - 1 \in DOMAIN jobs'[v] /\ jobs'[v][i - 1].page = x
            BY <1>9, <4>2, <4>3, <5>2
          <5> QED
            BY <5>3 DEF AtWorker
        <4>4. CASE v # w
          <5>1. i \in DOMAIN jobs'[v] /\ jobs'[v][i].page = x
            BY <1>8, <4>2, <4>4
          <5> QED
            BY <5>1 DEF AtWorker
        <4> QED
          BY <4>3, <4>4
      <3> QED
        BY <3>1, <3>2
    <2>4. InFlight' = {x \in 1..d : AtWorker(x)'} /\ InFlight = {x \in 1..d : AtWorker(x)}
      BY <1>1 DEF InFlight, d
    <2>5. \A x : x \in InFlight' <=> x \in 1..d /\ x # k /\ AtWorker(x)
      BY <2>2, <2>3, <2>4
    <2>6. \A x : x \in InFlight <=> x \in 1..d /\ AtWorker(x)
      BY <2>4
    <2> QED
      BY <1>6, <2>1, <2>5, <2>6
  <1>14. Cardinality(InFlight') = Cardinality(InFlight) - 1
    BY <1>3, <1>13, FS_RemoveElement
  <1>15. /\ pages \in [Batches -> [1..MaxRows -> Nat \cup {Torn}]]
         /\ pages' \in [Batches -> [1..MaxRows -> Nat \cup {Torn}]]
         /\ \A b \in Batches \ {s} : pages'[b] = pages[b]
         /\ \A x \in 1..MaxRows \ {k} : pages'[s][x] = pages[s][x]
         /\ pages'[s][k] = IF ok THEN job.row ELSE Torn
    BY <1>1, <1>3, <1>6, <1>7 DEF ReaderInv, ChannelTypes
  <1>16. /\ completions \in Seq(BOOLEAN) /\ completions' \in Seq(BOOLEAN)
         /\ Len(completions') = Len(completions) + 1 /\ Len(completions) \in Nat
         /\ ToSet(completions') = ToSet(completions) \cup {ok}
    <2>1. completions \in Seq(BOOLEAN)
      BY DEF ReaderInv, ChannelTypes
    <2>2. Append(completions, ok) \in Seq(BOOLEAN)
          /\ ToSet(Append(completions, ok)) = ToSet(completions) \cup {ok}
      BY <2>1, ToSetAppend
    <2>3. Len(Append(completions, ok)) = Len(completions) + 1 /\ Len(completions) \in Nat
      BY <2>1
    <2> QED
      BY <1>1, <2>1, <2>2, <2>3
  <1>17. UNCHANGED <<request, response, open, pc, want, ready, pending>>
    BY <1>1 DEF channels, pass, reader
  <1>18. ChannelTypes'
    BY <1>1, <1>8, <1>15, <1>16, <1>17 DEF ReaderInv, ChannelTypes
  <1>19. Travelling' = Travelling
    BY <1>1, <1>17 DEF Travelling, Requested, Working, Answered
  <1>20. /\ ReaderTypes' /\ Accounts' /\ Launched'
         /\ pc' \in {"ready", "drain"} => Loaded(ready, want)'
    BY <1>1, <1>3, <1>15, <1>17, <1>19, OthersStay
  <1>21. Control' /\ Channels' /\ Contents'
    BY <1>1, <1>2, <1>3, <1>17, <1>20 DEF ReaderInv, Control, Channels, Contents
  <1>22. Reading'
    <2>1. Reads' = Reads /\ coordinator' = coordinator /\ offsets' = offsets
      BY <1>1 DEF Reads
    <2>2. Cardinality(InFlight') + Len(completions') + coordinator'.collected = d
      BY <1>3, <1>4, <1>14, <1>16, <2>1
    <2>3. (ReadFailed => ReadFailed') /\ (ok = FALSE => ReadFailed')
      BY <1>16, <2>1 DEF ReadFailed
    <2>4. ASSUME NEW x \in 1..d
          PROVE  x \in InFlight' \/ pages'[s][x] = Reads[x] \/ ReadFailed'
      <3>1. CASE x = k
        <4>1. ok = TRUE \/ ok = FALSE
          OBVIOUS
        <4>2. CASE ok = TRUE
          BY <1>6, <1>15, <3>1, <4>2
        <4> QED
          BY <2>3, <4>1, <4>2
      <3>2. CASE x # k
        <4>1. x \in 1..MaxRows
          <5>1. Len(Reads) \in Nat /\ MaxRows \in Nat
            BY <1>3 DEF ReaderAssumption
          <5> QED
            BY <1>3, <1>4, <5>1
        <4>2. x \in InFlight \/ pages[s][x] = Reads[x] \/ ReadFailed
          BY <1>4
        <4> QED
          BY <1>13, <1>15, <2>3, <3>2, <4>1, <4>2
      <3> QED
        BY <3>1, <3>2
    <2> QED
      BY <1>4, <1>11, <1>12, <2>1, <2>2, <2>4 DEF Reading, d, s
  <1> QED
    BY <1>18, <1>20, <1>21, <1>22 DEF ReaderInv

\* One more result is collected; a failure is kept.
LEMMA CollectHolds ==
  ASSUME ReaderAssumption, ReaderInv, Collect
  PROVE  ReaderInv'
  <1> DEFINE ok == Head(completions)
             f == coordinator.failed \/ ~ok
  <1>1. /\ coordinator.phase = "dispatch" /\ completions # <<>> /\ completions' = Tail(completions)
        /\ coordinator' = [coordinator EXCEPT !.collected = coordinator.collected + 1, !.failed = f]
        /\ UNCHANGED <<pass, reader, channels, jobs, memory, stream>>
    BY DEF Collect, AllDispatched
  <1>2. /\ coordinator \in Coordinator /\ coordinator.slot \in Batches
        /\ coordinator.rows \in Requests /\ coordinator.failed \in BOOLEAN
        /\ coordinator.dispatched \in Nat /\ coordinator.collected \in Nat
        /\ request = <<>> /\ response = <<>> /\ Travelling = {coordinator.slot}
        /\ Cardinality(InFlight) \in Nat
    BY <1>1, ReadingFacts
  <1>3. completions \in Seq(BOOLEAN)
    BY DEF ReaderInv, ChannelTypes
  <1>4. /\ ok \in BOOLEAN /\ completions' \in Seq(BOOLEAN)
        /\ ToSet(completions) = ToSet(completions') \cup {ok}
    BY <1>1, <1>3, ToSetTail
  <1>5. Len(completions) \in Nat /\ Len(completions') = Len(completions) - 1
    BY <1>1, <1>3, TailLength
  <1>6. f \in BOOLEAN /\ (coordinator.failed => f) /\ (ok = FALSE => f)
    BY <1>2, <1>4
  <1> HIDE DEF ok, f
  <1>7. /\ coordinator' \in Coordinator /\ coordinator'.phase = "dispatch"
        /\ coordinator'.slot = coordinator.slot /\ coordinator'.rows = coordinator.rows
        /\ coordinator'.dispatched = coordinator.dispatched
        /\ coordinator'.collected = coordinator.collected + 1
        /\ coordinator'.failed = f
    <2> DEFINE n == coordinator.collected + 1
    <2>1. n \in Nat /\ coordinator' = [coordinator EXCEPT !.collected = n, !.failed = f]
      BY <1>1, <1>2
    <2> HIDE DEF n
    <2>2. /\ coordinator' \in Coordinator /\ coordinator'.phase = "dispatch"
          /\ coordinator'.slot = coordinator.slot /\ coordinator'.rows = coordinator.rows
          /\ coordinator'.dispatched = coordinator.dispatched
          /\ coordinator'.collected = n /\ coordinator'.failed = f
      BY <1>1, <1>2, <1>6, <2>1 DEF Coordinator
    <2> QED
      BY <2>2 DEF n
  <1>8. UNCHANGED <<pc, want, ready, pending, request, response, open, pages, offsets, row_count>>
    BY <1>1 DEF pass, reader, channels, memory
  <1>9. ChannelTypes'
    BY <1>1, <1>4, <1>7, <1>8 DEF ReaderInv, ChannelTypes
  <1>10. Travelling' = Travelling
    BY <1>7, <1>8 DEF Travelling, Requested, Working, Answered
  <1>11. /\ ReaderTypes' /\ Accounts' /\ Launched'
         /\ pc' \in {"ready", "drain"} => Loaded(ready, want)'
    BY <1>1, <1>8, <1>10, OthersStay
  <1>12. Control' /\ Channels' /\ Contents'
    BY <1>1, <1>2, <1>7, <1>8, <1>11 DEF ReaderInv, Control, Channels, Contents
  <1>13. Reading'
    <2>1. Reads' = Reads /\ InFlight' = InFlight
      BY <1>1, <1>7 DEF Reads, InFlight, AtWorker
    <2>2. /\ coordinator.dispatched <= Len(Reads) /\ JobsFit /\ JobsDistinct
          /\ \A i \in 1..Len(coordinator.rows) :
               offsets[coordinator.slot][i] = SlotOf(coordinator.rows, i)
          /\ Cardinality(InFlight) + Len(completions) + coordinator.collected
               = coordinator.dispatched
          /\ \A x \in 1..coordinator.dispatched :
               x \in InFlight \/ pages[coordinator.slot][x] = Reads[x] \/ ReadFailed
      BY <1>1 DEF ReaderInv, Reading
    <2>3. Cardinality(InFlight') + Len(completions') + coordinator'.collected
            = coordinator'.dispatched
      BY <1>2, <1>5, <1>7, <2>1, <2>2
    <2>4. JobsFit'
      BY <1>1, <1>7, <2>1, <2>2 DEF JobsFit
    <2>5. JobsDistinct'
      BY <1>1, <2>2 DEF JobsDistinct
    <2>6. ReadFailed => ReadFailed'
      <3>1. FALSE \in ToSet(completions) => FALSE \in ToSet(completions') \/ ok = FALSE
        BY <1>4
      <3> QED
        BY <1>6, <1>7, <3>1 DEF ReadFailed
    <2> QED
      BY <1>7, <1>8, <2>1, <2>2, <2>3, <2>4, <2>5, <2>6 DEF Reading
  <1> QED
    BY <1>9, <1>11, <1>12, <1>13 DEF ReaderInv

\* The answer: no worker has anything left to write, and a batch that is answered for
\* holds the rows that were asked for.
LEMMA RespondHolds ==
  ASSUME ReaderAssumption, ReaderInv, Respond
  PROVE  ReaderInv'
  <1> DEFINE s == coordinator.slot
             rows == coordinator.rows
             ok == ~coordinator.failed
             answer == [slot |-> s, ok |-> ok]
  <1>1. /\ coordinator.phase = "dispatch" /\ coordinator.dispatched = Len(Reads)
        /\ coordinator.collected = coordinator.dispatched
        /\ row_count' = IF coordinator.failed THEN row_count
                        ELSE [row_count EXCEPT ![s] = Len(rows)]
        /\ response' = Append(response, answer) /\ coordinator' = Resting
        /\ UNCHANGED <<pass, reader, request, open, jobs, completions, pages, offsets, stream>>
    BY DEF Respond, AllDispatched, AllCollected
  <1>2. /\ s \in Batches /\ s # NoSlot /\ rows \in Requests /\ rows \in Seq(Nat)
        /\ coordinator.failed \in BOOLEAN
        /\ coordinator.dispatched \in Nat
        /\ request = <<>> /\ response = <<>> /\ Travelling = {s}
        /\ IsFiniteSet(InFlight) /\ Cardinality(InFlight) \in Nat
    BY <1>1, ReadingFacts
  <1>3. /\ JobsFit
        /\ \A i \in 1..Len(rows) : offsets[s][i] = SlotOf(rows, i)
        /\ Cardinality(InFlight) + Len(completions) + coordinator.collected = coordinator.dispatched
        /\ \A x \in 1..coordinator.dispatched :
             x \in InFlight \/ pages[s][x] = Reads[x] \/ ReadFailed
    BY <1>1 DEF ReaderInv, Reading
  <1>4. completions \in Seq(BOOLEAN) /\ Len(completions) \in Nat
    BY DEF ReaderInv, ChannelTypes
  <1>5. Cardinality(InFlight) = 0 /\ Len(completions) = 0
    BY <1>1, <1>2, <1>3, <1>4
  <1>6. InFlight = {} /\ completions = <<>>
    BY <1>2, <1>4, <1>5, FS_EmptySet
  <1>7. Quiet
    <2>1. ASSUME NEW w \in Worker PROVE jobs[w] = <<>>
      <3>1. jobs[w] \in Seq(Job)
        BY DEF ReaderInv, ChannelTypes
      <3>2. ASSUME NEW i \in DOMAIN jobs[w] PROVE FALSE
        <4>1. jobs[w][i].page \in 1..coordinator.dispatched
          BY <1>3 DEF JobsFit
        <4>2. jobs[w][i].page \in InFlight
          BY <4>1 DEF InFlight, AtWorker
        <4> QED
          BY <1>6, <4>2
      <3>3. DOMAIN jobs[w] = 1..Len(jobs[w]) /\ Len(jobs[w]) \in Nat
        BY <3>1
      <3>4. Len(jobs[w]) = 0
        BY <3>2, <3>3
      <3> QED
        BY <3>1, <3>4
    <2> QED
      BY <1>6, <2>1 DEF Quiet
  <1>8. ok \in BOOLEAN /\ (ok => ~coordinator.failed)
    BY <1>2
  <1>9. ok => Shows(s, rows)
    <2> SUFFICES ASSUME ok, NEW i \in 1..Len(rows) PROVE pages[s][offsets[s][i]] = rows[i]
      BY DEF Shows
    <2>1. SlotOf(rows, i) \in 1..Len(Reads) /\ Reads[SlotOf(rows, i)] = rows[i]
      BY <1>2, SlotOfFacts DEF Reads
    <2>2. ~ReadFailed
      <3>1. ToSet(completions) = {}
        BY <1>6 DEF ToSet
      <3> QED
        BY <1>8, <3>1 DEF ReadFailed
    <2>3. pages[s][SlotOf(rows, i)] = Reads[SlotOf(rows, i)]
      BY <1>1, <1>3, <1>6, <2>1, <2>2
    <2> QED
      BY <1>3, <2>1, <2>3
  <1>10. ok => row_count'[s] = Len(rows)
    <2>1. row_count \in [Batches -> Nat]
      BY DEF ReaderInv, ChannelTypes
    <2> QED
      BY <1>1, <1>2, <1>8, <2>1
  <1> HIDE DEF ok
  <1>11. answer \in Answer /\ answer.slot = s /\ answer.ok = ok
    BY <1>2, <1>8 DEF Answer
  <1> HIDE DEF answer
  <1>12. response' = <<answer>>
    BY <1>1, <1>2
  <1>13. /\ response' \in Seq(Answer) /\ Len(response') = 1 /\ Head(response') = answer
         /\ response' # <<>> /\ {response'[i].slot : i \in DOMAIN response'} = {s}
    <2>1. /\ response' \in Seq(Answer) /\ Len(response') = 1 /\ Head(response') = answer
          /\ response' # <<>>
      BY <1>11, <1>12, SingleFacts
    <2>2. {response'[i].slot : i \in DOMAIN response'} = {Head(response').slot}
      BY <2>1, SlotsOfQueue
    <2> QED
      BY <1>11, <2>1, <2>2
  <1>14. /\ coordinator' \in Coordinator /\ coordinator'.phase = "recv" /\ coordinator'.slot = NoSlot
    BY <1>1, RestingFacts
  <1>15. row_count' \in [Batches -> Nat] /\ \A b \in Batches \ {s} : row_count'[b] = row_count[b]
    <2>1. row_count \in [Batches -> Nat] /\ Len(rows) \in Nat
      BY <1>2 DEF ReaderInv, ChannelTypes
    <2> QED
      BY <1>1, <1>2, <2>1
  <1>16. ChannelTypes'
    BY <1>1, <1>13, <1>14, <1>15 DEF ReaderInv, ChannelTypes
  <1>17. Travelling' = {s}
    <2>1. Requested' = {}
      BY <1>1, <1>2 DEF Requested
    <2>2. Working' = {}
      BY <1>14 DEF Working
    <2>3. Answered' = {s}
      BY <1>13 DEF Answered
    <2> QED
      BY <2>1, <2>2, <2>3 DEF Travelling
  <1>18. /\ ReaderTypes' /\ Accounts' /\ Launched'
         /\ pc' \in {"ready", "drain"} => Loaded(ready, want)'
    BY <1>1, <1>2, <1>15, <1>17, OthersStay
  <1>19. UNCHANGED <<pc, want, ready, pending>>
    BY <1>1 DEF pass, reader
  <1>20. Control'
    BY <1>1, <1>14, <1>19 DEF ReaderInv, Control
  <1>21. Channels'
    <2>1. Quiet' /\ pending
      BY <1>1, <1>7 DEF Quiet, ReaderInv, Channels
    <2> QED
      BY <1>1, <1>2, <1>13, <1>14, <1>19, <2>1 DEF Channels
  <1>22. Reading'
    BY <1>14 DEF Reading
  <1>23. Contents'
    <2>1. pc = "layers" => rows = want
      BY <1>1 DEF ReaderInv, Contents
    <2>2. ok /\ pc = "layers" =>
            /\ row_count'[s] = Len(want')
            /\ \A i \in 1..Len(want') : pages'[s][offsets'[s][i]] = want'[i]
      BY <1>1, <1>9, <1>10, <1>19, <2>1 DEF Shows
    <2>3. Head(response').slot = s /\ Head(response').ok = ok
      BY <1>11, <1>13
    <2> HIDE DEF s
    <2>4. Head(response').ok /\ pc = "layers" =>
            /\ row_count'[Head(response').slot] = Len(want')
            /\ \A i \in 1..Len(want') :
                 pages'[Head(response').slot][offsets'[Head(response').slot][i]] = want'[i]
      BY <2>2, <2>3
    <2>5. Head(response').ok /\ pc = "layers" => Loaded(Head(response).slot, want)'
      BY <2>4 DEF Loaded, Shows
    <2> QED
      BY <1>1, <1>2, <1>14, <1>18, <1>19, <2>5 DEF Contents
  <1> QED
    BY <1>16, <1>18, <1>20, <1>21, <1>22, <1>23 DEF ReaderInv

\* The coordinator ends with nothing in its channel.
LEMMA CoordinatorExitsHolds ==
  ASSUME ReaderAssumption, ReaderInv, CoordinatorExits
  PROVE  ReaderInv'
  <1>1. /\ coordinator.phase = "recv" /\ request = <<>> /\ ~open
        /\ coordinator' = [coordinator EXCEPT !.phase = "exit"]
        /\ UNCHANGED <<pass, reader, channels, jobs, completions, memory, stream>>
    BY DEF CoordinatorExits
  <1>2. coordinator \in Coordinator
    BY DEF ReaderInv, ChannelTypes
  <1>3. /\ coordinator' \in Coordinator /\ coordinator'.phase = "exit"
        /\ coordinator'.slot = coordinator.slot
    BY <1>1, <1>2 DEF Coordinator
  <1>4. UNCHANGED <<pc, want, ready, pending, request, response, open, pages, offsets, row_count>>
    BY <1>1 DEF pass, reader, channels, memory
  <1>5. ChannelTypes'
    BY <1>1, <1>3, <1>4 DEF ReaderInv, ChannelTypes
  <1>6. Travelling' = Travelling
    BY <1>3, <1>4 DEF Travelling, Requested, Working, Answered
  <1>7. /\ ReaderTypes' /\ Accounts' /\ Launched'
        /\ pc' \in {"ready", "drain"} => Loaded(ready, want)'
    BY <1>1, <1>4, <1>6, OthersStay
  <1>8. Control'
    BY <1>1, <1>3, <1>4 DEF ReaderInv, Control
  <1>9. Channels'
    BY <1>1, <1>3, <1>4 DEF ReaderInv, Channels, Quiet
  <1>10. Reading'
    BY <1>3 DEF Reading
  <1>11. Contents'
    <2>1. pc # "layers"
      BY <1>1 DEF ReaderInv, Control
    <2> QED
      BY <1>4, <1>7, <2>1 DEF Contents
  <1> QED
    BY <1>5, <1>7, <1>8, <1>9, <1>10, <1>11 DEF ReaderInv

-----------------------------------------------------------------------------
(***************************************************************************)
(* The theorems.                                                           *)
(***************************************************************************)

\* A step that changes nothing.
LEMMA StutterHolds ==
  ASSUME ReaderAssumption, ReaderInv, UNCHANGED readerVars
  PROVE  ReaderInv'
  <1>1. /\ UNCHANGED <<pc, want, free, busy, ready, pending, lost, request, response, open, stream>>
        /\ UNCHANGED <<pool, memory>>
    BY DEF readerVars, pass, reader, channels
  <1>2. stream' \in Seq(Operation)
    BY <1>1 DEF ReaderInv, ChannelTypes
  <1>3. /\ Channels' /\ Reading' /\ Travelling' = Travelling /\ ChannelTypes'
        /\ coordinator' = coordinator /\ pages' = pages /\ offsets' = offsets
        /\ row_count' = row_count
    BY <1>1, <1>2, ChannelsStay
  <1>4. /\ ReaderTypes' /\ Accounts' /\ Launched'
        /\ pc' \in {"ready", "drain"} => Loaded(ready, want)'
    <2>1. UNCHANGED <<pass, reader, open, stream>>
      BY DEF readerVars, channels
    <2> QED
      BY <1>3, <2>1, OthersStay
  <1>5. Control'
    BY <1>1, <1>3 DEF ReaderInv, Control
  <1>6. Contents'
    BY <1>1, <1>3 DEF ReaderInv, Contents, Loaded, Shows
  <1> QED
    BY <1>3, <1>4, <1>5, <1>6 DEF ReaderInv

\* Every step keeps the invariant.
LEMMA NextHolds ==
  ASSUME ReaderAssumption, ReaderInv, [ReaderNext]_readerVars
  PROVE  ReaderInv'
  <1>1. CASE BeginRows \/ ReuseFails \/ PassFails
    BY <1>1, BeginRowsHolds, ReuseFailsHolds, PassFailsHolds
  <1>2. CASE Consume
    BY <1>2, WaitReadyHolds, GatherRowsHolds, LaunchFailsHolds, RecordFailsHolds, DrainHolds,
       JoinedHolds DEF Consume
  <1>3. CASE DropReader \/ Reopen \/ StreamStep
    BY <1>3, DropReaderHolds, ReopenHolds, StreamStepHolds
  <1>4. CASE Coordinate
    BY <1>4, ReceiveRequestHolds, DispatchHolds, CollectHolds, RespondHolds,
       CoordinatorExitsHolds DEF Coordinate
  <1>5. CASE \E w \in Worker : WorkerReads(w)
    BY <1>5, WorkerReadsHolds
  <1>6. CASE UNCHANGED readerVars
    BY <1>6, StutterHolds
  <1> QED
    BY <1>1, <1>2, <1>3, <1>4, <1>5, <1>6 DEF ReaderNext

\* The invariant, for every behaviour.
THEOREM ReaderInvariant == ReaderSpec => []ReaderInv
  <1>1. ReaderInit => ReaderInv
    BY NewReader, ReaderOK
  <1>2. ReaderInv /\ [ReaderNext]_readerVars => ReaderInv'
    BY NextHolds, ReaderOK
  <1> QED
    BY <1>1, <1>2, PTL DEF ReaderSpec

\* A gather that the device executes finds the rows of the pass that launched it: no
\* worker writes under it, no failed or late read is gathered, and no pass is answered
\* with the rows of another (begin_rows, read_rows, gather_into_on_stream).
THEOREM GathersSeeTheirRows == ReaderSpec => []GatherSeesItsRows
  <1>1. ReaderInv => GatherSeesItsRows
    <2> SUFFICES ASSUME ReaderInv, stream # <<>>, Head(stream).op = "gather"
                 PROVE  /\ Head(stream).rows = Len(Head(stream).want)
                        /\ \A i \in 1..Head(stream).rows :
                             pages[Head(stream).slot][offsets[Head(stream).slot][i]]
                               = Head(stream).want[i]
      BY DEF GatherSeesItsRows
    <2>1. stream \in Seq(Operation) /\ 1 \in DOMAIN stream /\ Head(stream) = stream[1]
      BY DEF ReaderInv, ChannelTypes
    <2>2. stream[1].rows = Len(stream[1].want) /\ Shows(stream[1].slot, stream[1].want)
      BY <2>1 DEF ReaderInv, Launched
    <2> QED
      BY <2>1, <2>2 DEF Shows
  <1> QED
    BY <1>1, ReaderInvariant, PTL

\* A dropped reader releases its pages with no gather and no read left
\* (Drop for PagedRowReader and DirectRowReaderPool).
THEOREM DropIsQuiet == ReaderSpec => []DroppedIsQuiet
  <1>1. ReaderInv => DroppedIsQuiet
    BY DEF ReaderInv, Control, Channels, Quiet, DroppedIsQuiet
  <1> QED
    BY <1>1, ReaderInvariant, PTL

\* Each batch is in one place, and in one only.
LEMMA OnePlace ==
  ASSUME ReaderAssumption, ReaderInv, NEW b \in Batches
  PROVE  LET places == <<ToSet(free), ToSet(busy), Held, Requested, Working, Answered, lost>>
         IN  Cardinality({i \in DOMAIN places : b \in places[i]}) = 1
  <1> DEFINE places == <<ToSet(free), ToSet(busy), Held, Requested, Working, Answered, lost>>
             S == {i \in DOMAIN places : b \in places[i]}
  <1>1. DOMAIN places = 1..7
    OBVIOUS
  <1>2. /\ places[1] = ToSet(free) /\ places[2] = ToSet(busy) /\ places[3] = Held
        /\ places[4] = Requested /\ places[5] = Working /\ places[6] = Answered /\ places[7] = lost
    OBVIOUS
  <1>3. /\ Requested # {} => Working = {} /\ Answered = {}
        /\ Answered # {} => Working = {}
    <2>1. request = <<>> => Requested = {}
      BY DEF Requested
    <2>2. response = <<>> => Answered = {}
      BY DEF Answered
    <2>3. coordinator.slot = NoSlot => Working = {}
      BY DEF Working
    <2> QED
      BY <2>1, <2>2, <2>3 DEF ReaderInv, Channels
  <1>4. /\ b \in ToSet(free) \cup ToSet(busy) \cup Held \cup Requested \cup Working \cup Answered \cup lost
        /\ ToSet(free) \cap ToSet(busy) = {}
        /\ Held \cap (ToSet(free) \cup ToSet(busy)) = {}
        /\ (Requested \cup Working \cup Answered) \cap (ToSet(free) \cup ToSet(busy) \cup Held) = {}
        /\ lost \cap (ToSet(free) \cup ToSet(busy) \cup Held \cup Requested \cup Working \cup Answered) = {}
    BY DEF ReaderInv, Accounts, Travelling
  <1> HIDE DEF places
  <1>5. \E x \in 1..7 : b \in places[x] /\ \A y \in 1..7 : b \in places[y] => y = x
    <2>1. \A y \in 1..7 : y = 1 \/ y = 2 \/ y = 3 \/ y = 4 \/ y = 5 \/ y = 6 \/ y = 7
      OBVIOUS
    <2>2. CASE b \in ToSet(free)
      <3> WITNESS 1 \in 1..7
      <3> QED BY <1>2, <1>3, <1>4, <2>1, <2>2
    <2>3. CASE b \in ToSet(busy)
      <3> WITNESS 2 \in 1..7
      <3> QED BY <1>2, <1>3, <1>4, <2>1, <2>3
    <2>4. CASE b \in Held
      <3> WITNESS 3 \in 1..7
      <3> QED BY <1>2, <1>3, <1>4, <2>1, <2>4
    <2>5. CASE b \in Requested
      <3> WITNESS 4 \in 1..7
      <3> QED BY <1>2, <1>3, <1>4, <2>1, <2>5
    <2>6. CASE b \in Working
      <3> WITNESS 5 \in 1..7
      <3> QED BY <1>2, <1>3, <1>4, <2>1, <2>6
    <2>7. CASE b \in Answered
      <3> WITNESS 6 \in 1..7
      <3> QED BY <1>2, <1>3, <1>4, <2>1, <2>7
    <2>8. CASE b \in lost
      <3> WITNESS 7 \in 1..7
      <3> QED BY <1>2, <1>3, <1>4, <2>1, <2>8
    <2> QED
      BY <1>4, <2>2, <2>3, <2>4, <2>5, <2>6, <2>7, <2>8
  <1>6. PICK x \in 1..7 : b \in places[x] /\ \A y \in 1..7 : b \in places[y] => y = x
    BY <1>5
  <1>7. S = {x}
    BY <1>1, <1>6
  <1> HIDE DEF S
  <1>8. Cardinality(S) = 1
    BY <1>7, FS_Singleton
  <1> QED
    BY <1>8 DEF S, places

\* Both batches are accounted for, through every failed read, launch, record and drain:
\* begin_rows runs out of batches only after errors of the stream lost both.
THEOREM BatchesStayAccounted == ReaderSpec => []BatchesAccounted
  <1>1. ReaderInv => BatchesAccounted
    <2> SUFFICES ASSUME ReaderInv PROVE BatchesAccounted
      OBVIOUS
    <2> DEFINE c == free \o busy
    <2>1. free \in Seq(Batches) /\ busy \in Seq(Batches) /\ IsInjective(free) /\ IsInjective(busy)
          /\ ToSet(free) \cap ToSet(busy) = {}
      BY DEF ReaderInv, ReaderTypes, Accounts
    <2>2. c \in Seq(Batches) /\ IsInjective(c)
      BY <2>1, ToSetConcat
    <2>3. Len(c) = Len(free) + Len(busy)
      BY <2>1
    <2> HIDE DEF c
    <2>4. Len(c) <= 2
      <3> SUFFICES ASSUME ~(Len(c) <= 2) PROVE FALSE
        OBVIOUS
      <3>1. Len(c) \in Nat /\ DOMAIN c = 1..Len(c)
        BY <2>2
      <3>2. 1 \in DOMAIN c /\ 2 \in DOMAIN c /\ 3 \in DOMAIN c
        BY <3>1
      <3>3. c[1] \in {0, 1} /\ c[2] \in {0, 1} /\ c[3] \in {0, 1}
        BY <2>2, <3>2 DEF Batches
      <3>4. c[1] # c[2] /\ c[1] # c[3] /\ c[2] # c[3]
        BY <2>2, <3>2 DEF IsInjective
      <3> QED
        BY <3>3, <3>4
    <2>5. Cardinality(Batches) = 2
      <3>1. IsFiniteSet({0}) /\ Cardinality({0}) = 1
        BY FS_Singleton
      <3>2. Cardinality({0} \cup {1}) = Cardinality({0}) + 1
        BY <3>1, FS_AddElement
      <3>3. Batches = {0} \cup {1}
        BY DEF Batches
      <3> QED
        BY <3>1, <3>2, <3>3
    <2>6. \A b \in Batches :
            LET places == <<ToSet(free), ToSet(busy), Held, Requested, Working, Answered, lost>>
            IN  Cardinality({i \in DOMAIN places : b \in places[i]}) = 1
      BY OnePlace, ReaderOK
    <2> QED
      BY <2>3, <2>4, <2>5, <2>6, Zenon DEF BatchesAccounted
  <1> QED
    BY <1>1, ReaderInvariant, PTL
=============================================================================
