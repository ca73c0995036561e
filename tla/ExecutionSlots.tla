--------------------------- MODULE ExecutionSlots ---------------------------
(***************************************************************************)
(* Deferred command submission of crates/eider-cuda: Recording, InFlight   *)
(* (deferred.rs), BoundedExecutionSlots (deferred/slots.rs) and the CUDA   *)
(* backend (deferred/cuda.rs).                                             *)
(*                                                                         *)
(* A slot's resources go through BoundedExecutionSlots; a loose resource   *)
(* belongs to a Recording of its own (cuda.rs PendingHostRead), which may  *)
(* be submitted in segments.  An eager backend (a CUDA stream) enqueues    *)
(* work while it is recorded and its fence is the whole stream; a          *)
(* retaining one enqueues on submit, and its fence covers what was         *)
(* enqueued until then.                                                    *)
(***************************************************************************)
EXTENDS Naturals, Sequences

CONSTANTS
  Slots,        \* number of bounded execution slots, numbered from 1
  Loose,        \* resources recorded on their own
  MaxQueue,     \* bound: commands queued or retained at one time
  NoFence       \* no submitted segment

ASSUME SlotsAssumption ==
  /\ Slots \in Nat
  /\ Loose \cap (1..Slots) = {}
  /\ NoFence \notin Nat

Slot == 1..Slots
Resource == Slot \cup Loose

VARIABLES
  eager,      \* the backend enqueues while it records
  status,     \* "ready", "recording", "inflight" or "completed" (slots only)
  encoder,    \* the commands an encoder retains
  fence,      \* queued commands ahead of the latest fence, or NoFence
  complete,   \* InFlight::complete
  queue       \* the resource each queued command touches, oldest first

vars == <<eager, status, encoder, fence, complete, queue>>

Init ==
  /\ eager \in BOOLEAN
  /\ status = [r \in Resource |-> "ready"]
  /\ encoder = [r \in Resource |-> 0]
  /\ fence = [r \in Resource |-> NoFence]
  /\ complete = [r \in Resource |-> FALSE]
  /\ queue = <<>>

\* DeferredBackend::poll and wait.
FenceDone(r) == IF eager THEN queue = <<>> ELSE fence[r] = 0

(***************************************************************************)
(* try_submit takes the first ready slot and holds the slot set until the  *)
(* recording ends; with no slot ready it changes nothing.  A backend that  *)
(* cannot begin gives the resources back and changes nothing either.       *)
(***************************************************************************)
FirstReady(r) ==
  /\ \A s \in Slot : status[s] # "recording"
  /\ \A s \in Slot : s < r => status[s] # "ready"

Begin(r) ==
  /\ status[r] = "ready"
  /\ r \in Slot => FirstReady(r)
  /\ status' = [status EXCEPT ![r] = "recording"]
  /\ UNCHANGED <<eager, encoder, fence, complete, queue>>

RecordCommand(r) ==
  /\ status[r] = "recording"
  /\ Len(queue) + encoder[r] < MaxQueue
  /\ IF eager THEN queue' = Append(queue, r) /\ UNCHANGED encoder
     ELSE encoder' = [encoder EXCEPT ![r] = @ + 1] /\ UNCHANGED queue
  /\ UNCHANGED <<eager, status, fence, complete>>

(***************************************************************************)
(* DeferredBackend::submit: the retained commands are enqueued and the     *)
(* fence stands behind all of them.                                        *)
(***************************************************************************)
Enqueued(r) == queue \o [i \in 1..encoder[r] |-> r]

SubmitEncoder(r) ==
  /\ Len(queue) + encoder[r] <= MaxQueue
  /\ queue' = Enqueued(r)
  /\ encoder' = [encoder EXCEPT ![r] = 0]
  /\ fence' = [fence EXCEPT ![r] = Len(queue) + encoder[r]]

SubmitSegment(r) ==
  /\ r \in Loose /\ status[r] = "recording"
  /\ SubmitEncoder(r)
  /\ UNCHANGED <<eager, status, complete>>

Submit(r) ==
  /\ status[r] = "recording"
  /\ SubmitEncoder(r)
  /\ status' = [status EXCEPT ![r] = "inflight"]
  /\ complete' = [complete EXCEPT ![r] = FALSE]
  /\ UNCHANGED eager

(***************************************************************************)
(* Recording::discard, also by RecordingRestore when the closure fails or  *)
(* unwinds.  An eager backend returns a fence for what it has enqueued; a  *)
(* retaining one drops its commands, and the latest segment's fence is     *)
(* kept if there is one.                                                   *)
(***************************************************************************)
\* Mutant: the fence of an earlier segment is forgotten.
ForgetsSegments(r) == IF eager THEN Len(queue) ELSE NoFence

\* Mutant: nothing is thought to have been enqueued by an encoder that was not submitted.
IgnoresEagerWork(r) == fence[r]

DiscardFence(r) == IF eager THEN Len(queue) ELSE fence[r]

Discard(r) ==
  /\ status[r] = "recording"
  /\ encoder' = [encoder EXCEPT ![r] = 0]
  /\ fence' = [fence EXCEPT ![r] = DiscardFence(r)]
  /\ status' = [status EXCEPT ![r] = IF DiscardFence(r) = NoFence THEN "ready" ELSE "inflight"]
  /\ complete' = [complete EXCEPT ![r] = FALSE]
  /\ UNCHANGED <<eager, queue>>

Release(r) ==
  /\ status' = [status EXCEPT ![r] = "ready"]
  /\ fence' = [fence EXCEPT ![r] = NoFence]
  /\ complete' = [complete EXCEPT ![r] = FALSE]

\* Drop of a Recording: discards, and waits for the fence if there is one.
\* (A wait that fails aborts the process.)
DropRecording(r) ==
  /\ r \in Loose /\ status[r] = "recording"
  /\ DiscardFence(r) # NoFence => FenceDone(r)
  /\ encoder' = [encoder EXCEPT ![r] = 0]
  /\ Release(r)
  /\ UNCHANGED <<eager, queue>>

(***************************************************************************)
(* Completion.  BoundedExecutionSlots::poll and wait observe it and        *)
(* reclaim at once; a loose InFlight remembers it for try_reclaim.         *)
(***************************************************************************)
ObserveSlot(r) ==
  /\ r \in Slot /\ status[r] = "inflight"
  /\ FenceDone(r)
  /\ status' = [status EXCEPT ![r] = "completed"]
  /\ fence' = [fence EXCEPT ![r] = NoFence]
  /\ UNCHANGED <<eager, encoder, complete, queue>>

Recycle(r) ==
  /\ status[r] = "completed"
  /\ status' = [status EXCEPT ![r] = "ready"]
  /\ UNCHANGED <<eager, encoder, fence, complete, queue>>

ObserveLoose(r) ==
  /\ r \in Loose /\ status[r] = "inflight"
  /\ FenceDone(r)
  /\ complete' = [complete EXCEPT ![r] = TRUE]
  /\ UNCHANGED <<eager, status, encoder, fence, queue>>

\* try_reclaim, and Drop of an InFlight, which waits if it has to.
Reclaim(r) ==
  /\ r \in Loose /\ status[r] = "inflight"
  /\ complete[r] \/ FenceDone(r)
  /\ Release(r)
  /\ UNCHANGED <<eager, encoder, queue>>

(***************************************************************************)
(* The device (external) executes the oldest command.                      *)
(***************************************************************************)
Execute ==
  /\ queue # <<>>
  /\ queue' = Tail(queue)
  /\ fence' = [r \in Resource |->
       IF fence[r] \in {NoFence, 0} THEN fence[r] ELSE fence[r] - 1]
  /\ UNCHANGED <<eager, status, encoder, complete>>

Next ==
  \/ \E r \in Resource :
       \/ Begin(r) \/ RecordCommand(r) \/ SubmitSegment(r) \/ Submit(r) \/ Discard(r)
       \/ DropRecording(r) \/ ObserveSlot(r) \/ Recycle(r) \/ ObserveLoose(r) \/ Reclaim(r)
  \/ Execute

Spec == Init /\ [][Next]_vars

-----------------------------------------------------------------------------
Queued(r) == \E i \in DOMAIN queue : queue[i] = r

\* Every variable has its type.
TypeOK ==
  /\ eager \in BOOLEAN
  /\ status \in [Resource -> {"ready", "recording", "inflight", "completed"}]
  /\ encoder \in [Resource -> Nat]
  /\ fence \in [Resource -> Nat \cup {NoFence}]
  /\ complete \in [Resource -> BOOLEAN]
  /\ queue \in Seq(Resource)

\* No queued command touches a resource the host has: one that is ready for a
\* new recording, or whose completion callback may run.  In particular the
\* resources of a recording that failed half way, of an abandoned segmented
\* recording and of a dropped one are not exposed while device work uses them.
HostHasNoQueuedWork ==
  \A r \in Resource : status[r] \in {"ready", "completed"} => ~Queued(r)

\* Retained resources are handed back by the ownership discipline of
\* ResourceOwnership: lent to a recording, worked on, and returned only when
\* nothing queued refers to them.
Ownership ==
  INSTANCE ResourceOwnership WITH
    owner <- [r \in Resource |-> IF status[r] \in {"ready", "completed"} THEN "host" ELSE "device"],
    running <- {r \in Resource : Queued(r)}

KeepsOwnership == Ownership!Spec
=============================================================================
