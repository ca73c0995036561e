---------------------------- MODULE Qwen36Scheduler ----------------------------
(***************************************************************************)
(* The continuous-batching scheduler of the Qwen3.6/3.8 engine             *)
(* (crates/infer/src/execution/scheduler.rs) with the pool of live         *)
(* sequences it owns (crates/infer/src/qwen3/qwen36/execution.rs).         *)
(*                                                                         *)
(* A tick runs four phases in order: admit waiting requests, decode,       *)
(* prefill, and advance one decision group.  Callers add, cancel and       *)
(* collect requests between ticks.  A phase that fails ends the tick where *)
(* it stands, so each phase is an action of its own and the ticks before   *)
(* and after see whatever the failed phase left behind.                    *)
(*                                                                         *)
(* Prompts and completions are abstracted to their lengths (the tokens     *)
(* themselves are the subject of SpeculativeDecode).  The shared KV cache  *)
(* is an external crate: an admission returns a page-aligned cached prefix *)
(* or, under DeviceFaults, refuses or fails.                               *)
(***************************************************************************)
EXTENDS Queues, FiniteSets

CONSTANTS
  MaxRequests,             \* bound: request identities handed out in all
  ChatShapes,              \* chat requests callers send: [prompt, max_new]
  DecisionShapes,          \* decision requests: [prefix, suffixes]
  PageTokens,              \* SM12X_KV_PAGE_TOKENS
  MaxActiveSequences,      \* SchedulerConfig::max_active_sequences
  MaxContextTokens,        \* SchedulerConfig::max_context_tokens
  DecodeCapacity,          \* SchedulerConfig::decode_capacity
  PrefillSequenceCapacity, \* SchedulerConfig::prefill_sequence_capacity
  PrefillTokenCapacity,    \* SchedulerConfig::prefill_token_capacity
  DecisionBranchCapacity,  \* SchedulerConfig::decision_branch_capacity
  SpeculativeDrafts,       \* SchedulerConfig::speculative_drafts
  RetainsPrefixes,         \* whether the cache may keep prefixes (max_prefix_entries)
  DeviceFaults             \* whether device, allocator or cache calls may fail

ASSUME LimitsAssumption ==
  /\ MaxRequests \in Nat
  /\ {PageTokens, MaxActiveSequences, MaxContextTokens, DecodeCapacity,
      PrefillSequenceCapacity, PrefillTokenCapacity,
      DecisionBranchCapacity} \subseteq Nat \ {0}
  /\ SpeculativeDrafts \in Nat
  /\ RetainsPrefixes \in BOOLEAN
  /\ DeviceFaults \in BOOLEAN

ASSUME ShapesAssumption ==
  /\ ChatShapes \subseteq [prompt : Nat \ {0}, max_new : Nat]
  /\ DecisionShapes \subseteq [prefix : Nat \ {0}, suffixes : Seq(Nat \ {0})]
  /\ \A shape \in DecisionShapes : shape.suffixes # <<>>

VARIABLES
  requests,        \* the retained chat requests and, after them, how they left
  waiting,         \* queue of requests without a sequence
  prefilling,      \* queue of requests with prompt tokens left
  decoding,        \* queue of requests past their prompt
  decisions,       \* the retained decision groups and how they left
  decision_queue,  \* queue of decision groups, advanced round robin
  sequences,       \* Qwen36SequencePool::sequences
  next_id,         \* Qwen36Scheduler::next_id
  phase            \* the phase of the running tick, or "idle" between ticks

queues == <<waiting, prefilling, decoding>>
vars == <<requests, waiting, prefilling, decoding, decisions, decision_queue,
          sequences, next_id, phase>>

Ids == 0..(MaxRequests - 1)

\* What a sequence of the pool was admitted for.
RequestSequence(id) == <<"request", id, 0>>
ParentSequence(id) == <<"parent", id, 0>>
BranchSequence(id, branch) == <<"branch", id, branch>>

AbsentRequest ==
  [lifecycle |-> "Absent", prompt |-> 0, max_new |-> 0, prompt_position |-> 0,
   prefix_retained |-> FALSE, generated |-> 0, spec_started |-> FALSE,
   sequence |-> FALSE]

AbsentGroup ==
  [state |-> "Absent", prefix |-> 0, suffixes |-> <<>>, parent |-> FALSE,
   parent_position |-> 0, aligned |-> FALSE, next_branch |-> 0,
   active |-> <<>>, logits |-> <<>>]

Init ==
  /\ requests = [id \in Ids |-> AbsentRequest]
  /\ waiting = <<>> /\ prefilling = <<>> /\ decoding = <<>>
  /\ decisions = [id \in Ids |-> AbsentGroup]
  /\ decision_queue = <<>>
  /\ sequences = {}
  /\ next_id = 0
  /\ phase = "idle"

Live(r) == r.lifecycle \in {"Waiting", "Prefilling", "Decoding"}
Retained(r) == Live(r) \/ r.lifecycle = "Finished"
HasWork == \E id \in Ids : Live(requests[id]) \/ decisions[id].state = "Queued"

MinOf(a, b) == IF a <= b THEN a ELSE b
\* Mutant: the whole budget instead of a fair share of it.
GreedyShare(a, b) == a
CeilDiv(a, b) == (a + b - 1) \div b
FirstN(s, n) == SubSeq(s, 1, MinOf(n, Len(s)))

\* A popped id whose request is gone makes the code panic: the actions that pop are
\* only enabled for retained requests, and QueuedIsRetained says that they all are.

RemainingPromptTokens(r) == r.prompt - r.prompt_position

\* Mutant: the final prompt token is prefilled too.
PrefillsFinalToken(r) == RemainingPromptTokens(r)

PrefillableTokens(r) == RemainingPromptTokens(r) - 1

\* retained_prompt_prefix_tokens: the last page boundary before the final token.
PrefixTarget(r) == ((r.prompt - 1) \div PageTokens) * PageTokens

--------------------------------------------------------------------------------
(***************************************************************************)
(* Calls between ticks.                                                    *)
(***************************************************************************)


\* Mutant: a new request goes to the head of the queue.
EnqueueAtHead(id) == <<id>> \o waiting

EnqueueWaiting(id) == Append(waiting, id)

AddRequest(shape) ==
  /\ phase = "idle" /\ next_id < MaxRequests
  /\ shape.prompt + shape.max_new <= MaxContextTokens
  /\ next_id' = next_id + 1
  /\ requests' = [requests EXCEPT ![next_id] =
       [AbsentRequest EXCEPT
          !.lifecycle = IF shape.max_new = 0 THEN "Finished" ELSE "Waiting",
          !.prompt = shape.prompt, !.max_new = shape.max_new]]
  /\ waiting' = IF shape.max_new = 0 THEN waiting ELSE EnqueueWaiting(next_id)
  /\ UNCHANGED <<prefilling, decoding, decisions, decision_queue, sequences, phase>>

AddDecision(shape) ==
  /\ phase = "idle" /\ next_id < MaxRequests
  /\ \A b \in DOMAIN shape.suffixes :
       shape.prefix + shape.suffixes[b] <= MaxContextTokens
  /\ next_id' = next_id + 1
  /\ decisions' = [decisions EXCEPT ![next_id] =
       [AbsentGroup EXCEPT !.state = "Queued", !.prefix = shape.prefix,
                           !.suffixes = shape.suffixes]]
  /\ decision_queue' = Append(decision_queue, next_id)
  /\ UNCHANGED <<requests, queues, sequences, phase>>

\* Mutant: the branches are released and the parent is forgotten.
BranchSequencesOnly(id) ==
  {BranchSequence(id, b.branch) : b \in ToSet(decisions[id].active)}

\* release_decision_group: the branches, then the parent.
GroupSequences(id) ==
  {BranchSequence(id, b.branch) : b \in ToSet(decisions[id].active)}
    \cup {s \in {ParentSequence(id)} : decisions[id].parent}

ReleasedGroup(id, state) ==
  [decisions[id] EXCEPT !.state = state, !.parent = FALSE, !.active = <<>>]

CancelDecision(id) ==
  /\ decisions[id].state = "Queued"
  /\ decisions' = [decisions EXCEPT ![id] = ReleasedGroup(id, "Cancelled")]
  /\ decision_queue' = Without(decision_queue, {id})
  /\ sequences' = sequences \ GroupSequences(id)
  /\ UNCHANGED <<requests, queues>>

CancelRequest(id) ==
  /\ Live(requests[id])
  /\ waiting' = Without(waiting, {id})
  /\ prefilling' = Without(prefilling, {id})
  /\ decoding' = Without(decoding, {id})
  /\ requests' = [requests EXCEPT ![id].lifecycle = "Cancelled",
                                  ![id].sequence = FALSE]
  /\ sequences' = sequences \ {s \in {RequestSequence(id)} : requests[id].sequence}
  /\ UNCHANGED <<decisions, decision_queue>>

Cancel(id) ==
  /\ phase = "idle"
  /\ CancelDecision(id) \/ CancelRequest(id)
  /\ UNCHANGED <<next_id, phase>>

RemoveFinished(id) ==
  /\ phase = "idle"
  /\ requests[id].lifecycle = "Finished"
  /\ requests' = [requests EXCEPT ![id].lifecycle = "Removed"]
  /\ UNCHANGED <<queues, decisions, decision_queue, sequences, next_id, phase>>

--------------------------------------------------------------------------------
(***************************************************************************)
(* admit_waiting, one turn of its loop per step.                           *)
(***************************************************************************)

StartTick ==
  /\ phase = "idle" /\ HasWork
  /\ phase' = "admit"
  /\ UNCHANGED <<requests, queues, decisions, decision_queue, sequences, next_id>>

SlotFree == Cardinality(sequences) < MaxActiveSequences

\* The cache returns a page-aligned prefix that leaves the final prompt token.
CachedPrefixes(r) ==
  IF RetainsPrefixes THEN {PageTokens * n : n \in 0..((r.prompt - 1) \div PageTokens)} ELSE {0}

\* The request after its sequence entered the pool with cached prompt tokens.
AdmittedRequest(r, cached, lifecycle) ==
  [r EXCEPT !.prompt_position = cached, !.sequence = TRUE, !.lifecycle = lifecycle,
            !.prefix_retained = cached = PrefixTarget(r) /\ cached # 0]

AdmitWaiting ==
  /\ phase = "admit" /\ SlotFree /\ waiting # <<>>
  /\ LET id == Head(waiting)
     IN  /\ Retained(requests[id])
         /\ \E cached \in CachedPrefixes(requests[id]) :
              requests' = [requests EXCEPT
                ![id] = AdmittedRequest(@, cached, "Prefilling")]
         /\ prefilling' = Append(prefilling, id)
         /\ sequences' = sequences \cup {RequestSequence(id)}
  /\ waiting' = Tail(waiting)
  /\ UNCHANGED <<decoding, decisions, decision_queue, next_id, phase>>

\* The loop ends without a free slot, without a waiting request, or when the
\* cache cannot reserve the head's pages (it stays at the head).
AdmitDone ==
  /\ phase = "admit"
  /\ ~SlotFree \/ waiting = <<>> \/ DeviceFaults
  /\ phase' = "decode"
  /\ UNCHANGED <<requests, queues, decisions, decision_queue, sequences, next_id>>

\* An error after the head was popped: before its sequence entered the pool, or
\* in the stream synchronisation after it did.
AdmitFails ==
  /\ DeviceFaults
  /\ phase = "admit" /\ SlotFree /\ waiting # <<>>
  /\ LET id == Head(waiting)
     IN  /\ Retained(requests[id])
         /\ \/ UNCHANGED <<requests, sequences>>
            \/ /\ \E cached \in CachedPrefixes(requests[id]) :
                    requests' = [requests EXCEPT
                      ![id] = AdmittedRequest(@, cached, "Waiting")]
               /\ sequences' = sequences \cup {RequestSequence(id)}
  /\ waiting' = Tail(waiting)
  /\ phase' = "idle"
  /\ UNCHANGED <<prefilling, decoding, decisions, decision_queue, next_id>>

--------------------------------------------------------------------------------
(***************************************************************************)
(* run_decode_phase.                                                       *)
(***************************************************************************)

\* Decoding requests first, then prefilled ones while the batch has room.
DecodeSelection ==
  LET first == FirstN(decoding, DecodeCapacity)
      ready == Keep(prefilling, {id \in Ids : RemainingPromptTokens(requests[id]) = 1})
  IN  first \o FirstN(ready, DecodeCapacity - Len(first))

\* Mutant: selected ids are read from the queue but not popped.
UnpoppedDecoding == decoding

RestDecoding == SubSeq(decoding, MinOf(DecodeCapacity, Len(decoding)) + 1, Len(decoding))

\* Mutant: the draft budget forgets the token held back as the frontier.
DraftCountIgnoringLag(r) == MinOf(SpeculativeDrafts, r.max_new - r.generated)

DraftCount(r) ==
  LET remaining == r.max_new - r.generated
  IN  MinOf(SpeculativeDrafts, IF r.spec_started THEN remaining - 1 ELSE remaining)

\* What one request gets out of the phase: a single sampled token, or the tokens
\* of a speculative cycle, which only a request alone in its batch may run.
Outcomes == [tokens : 0..(SpeculativeDrafts + 1), finished : BOOLEAN, cycle : BOOLEAN]

PossibleOutcome(r, o, alone) ==
  /\ Retained(r)
  /\ r.generated + o.tokens = r.max_new => o.finished
  /\ \/ ~o.cycle /\ o.tokens = 1
     \/ /\ o.cycle /\ alone /\ r.lifecycle = "Decoding" /\ DraftCount(r) > 0
        /\ \E accepted \in 0..DraftCount(r) :
             LET full == accepted + IF r.spec_started THEN 1 ELSE 0
             IN  o.tokens = full \/ (o.finished /\ o.tokens < full)
        /\ o.finished => o.tokens > 0

\* Mutant: a finished request keeps the id of its released sequence.
SamplesKeepSequence(r, o) ==
  [r EXCEPT !.prompt_position =
              IF RemainingPromptTokens(r) = 1 /\ o.tokens > 0 THEN r.prompt ELSE @,
            !.generated = @ + o.tokens,
            !.lifecycle = IF o.finished THEN "Finished" ELSE "Decoding"]

\* apply_sample for each emitted token, and the release of a finished sequence.
AppliedSamples(r, o) ==
  [r EXCEPT !.prompt_position =
              IF RemainingPromptTokens(r) = 1 /\ o.tokens > 0 THEN r.prompt ELSE @,
            !.generated = @ + o.tokens,
            !.spec_started = @ \/ o.cycle,
            !.lifecycle = IF o.finished THEN "Finished" ELSE "Decoding",
            !.sequence = @ /\ ~o.finished]

RunDecode ==
  /\ phase = "decode"
  /\ LET selected == DecodeSelection
         S == ToSet(selected)
     IN  \E out \in [S -> Outcomes] :
           /\ \A id \in S : PossibleOutcome(requests[id], out[id], Len(selected) = 1)
           /\ requests' = [id \in Ids |-> IF id \in S
                             THEN AppliedSamples(requests[id], out[id]) ELSE requests[id]]
           /\ sequences' = sequences \ {RequestSequence(id) : id \in {i \in S : out[i].finished}}
           /\ decoding' = RestDecoding \o Keep(selected, {id \in S : ~out[id].finished})
           /\ prefilling' = Without(prefilling, S)
  /\ phase' = "prefill"
  /\ UNCHANGED <<waiting, decisions, decision_queue, next_id>>

\* requeue_selected after a failed model submission.
DecodeFails ==
  /\ DeviceFaults
  /\ phase = "decode" /\ DecodeSelection # <<>>
  /\ LET selected == DecodeSelection
         Decoding == {id \in Ids : requests[id].lifecycle = "Decoding"}
     IN  /\ decoding' = Keep(selected, Decoding) \o RestDecoding
         /\ prefilling' = Without(selected, Decoding) \o Without(prefilling, ToSet(selected))
  /\ phase' = "idle"
  /\ UNCHANGED <<requests, waiting, decisions, decision_queue, sequences, next_id>>

\* A request that an early return dropped with the local vector that held it.
LostRequest(r) == [r EXCEPT !.lifecycle = "Lost", !.sequence = FALSE]

\* An error while the samples are applied (the tool grammar refuses a token, or the
\* cache fails to finish a sequence): the failing request and the ones after it have
\* been taken out of requests and are dropped.
DecodeLoses ==
  /\ DeviceFaults
  /\ phase = "decode"
  /\ LET selected == DecodeSelection
         S == ToSet(selected)
     IN  \E out \in [S -> Outcomes], k \in 1..Len(selected), released \in BOOLEAN :
           LET done == ToSet(SubSeq(selected, 1, k - 1))
               freed == {i \in done : out[i].finished} \cup
                        {i \in {selected[k]} : released /\ out[i].finished}
           IN  /\ \A id \in S : PossibleOutcome(requests[id], out[id], Len(selected) = 1)
               /\ requests' = [id \in Ids |->
                    IF id \in done THEN AppliedSamples(requests[id], out[id])
                    ELSE IF id \in S THEN LostRequest(requests[id]) ELSE requests[id]]
               /\ sequences' = sequences \ {RequestSequence(id) : id \in freed}
               /\ decoding' = RestDecoding \o
                    Keep(SubSeq(selected, 1, k - 1), {id \in S : ~out[id].finished})
               /\ prefilling' = Without(prefilling, S)
  /\ phase' = "idle"
  /\ UNCHANGED <<waiting, decisions, decision_queue, next_id>>

--------------------------------------------------------------------------------
(***************************************************************************)
(* run_prefill_phase.                                                      *)
(***************************************************************************)

\* Mutant: a chunk may step over the checkpoint.
UnalignedChunkTokens(available, fair_share, position, target, retained) ==
  MinOf(available, fair_share)

PrefillChunkTokens(available, fair_share, position, target, retained) ==
  LET chunk == MinOf(available, fair_share)
  IN  IF ~retained /\ position < target /\ position + chunk > target
      THEN target - position ELSE chunk

\* The next eligible request takes its fair share of what is left of the budget.
GiveShare(plan, id) ==
  LET r == requests[id]
      chunk == PrefillChunkTokens(PrefillableTokens(r), CeilDiv(plan.budget, plan.slots),
                                  r.prompt_position, PrefixTarget(r), r.prefix_retained)
  IN  IF plan.budget = 0 THEN plan
      ELSE [budget |-> plan.budget - chunk, slots |-> plan.slots - 1,
            ids |-> Append(plan.ids, id), chunks |-> Append(plan.chunks, chunk)]

EligiblePrefills ==
  FirstN(Keep(prefilling, {id \in Ids : PrefillableTokens(requests[id]) > 0}),
         PrefillSequenceCapacity)

PrefillPlan ==
  LET eligible == EligiblePrefills
      plan[i \in 0..Len(eligible)] ==
        IF i = 0
        THEN [budget |-> PrefillTokenCapacity, slots |-> Len(eligible),
              ids |-> <<>>, chunks |-> <<>>]
        ELSE GiveShare(plan[i - 1], eligible[i])
  IN  plan[Len(eligible)]

\* Mutant: requests the scan passed over are not put back.
DropsPassedOver(ids) ==
  LET scanned == CHOOSE i \in 0..Len(prefilling) :
                   IF ids = <<>> THEN i = 0 ELSE i > 0 /\ prefilling[i] = Last(ids)
  IN  SubSeq(prefilling, scanned + 1, Len(prefilling))

\* The queue behind the scan: what was not reached, then what was passed over.
UnselectedPrefills(ids) ==
  LET scanned == CHOOSE i \in 0..Len(prefilling) :
                   IF ids = <<>> THEN i = 0 ELSE i > 0 /\ prefilling[i] = Last(ids)
  IN  SubSeq(prefilling, scanned + 1, Len(prefilling))
        \o Without(SubSeq(prefilling, 1, scanned), ToSet(ids))

\* The request after its chunk and retain_request_checkpoint: the checkpoint is taken
\* at the prefix target, or given up when the cache keeps no prefixes.
PrefilledRequest(r, chunk) ==
  [r EXCEPT !.prompt_position = @ + chunk,
            !.prefix_retained = @ \/ /\ PrefixTarget(r) # 0
                                     /\ \/ ~RetainsPrefixes
                                        \/ r.prompt_position + chunk = PrefixTarget(r)]

RunPrefill ==
  /\ phase = "prefill"
  /\ \E plan \in {PrefillPlan} :
       LET ChunkOf(id) == plan.chunks[CHOOSE i \in DOMAIN plan.ids : plan.ids[i] = id]
       IN  /\ \A id \in ToSet(plan.ids) : Retained(requests[id])
           /\ requests' = [id \in Ids |-> IF id \in ToSet(plan.ids)
                             THEN PrefilledRequest(requests[id], ChunkOf(id)) ELSE requests[id]]
           /\ prefilling' = UnselectedPrefills(plan.ids) \o plan.ids
  /\ phase' = "decision"
  /\ UNCHANGED <<waiting, decoding, decisions, decision_queue, sequences, next_id>>

\* A failed batch puts the selected requests back to the front.
PrefillFails ==
  /\ DeviceFaults
  /\ phase = "prefill" /\ PrefillPlan.ids # <<>>
  /\ prefilling' = PrefillPlan.ids \o UnselectedPrefills(PrefillPlan.ids)
  /\ phase' = "idle"
  /\ UNCHANGED <<requests, waiting, decoding, decisions, decision_queue, sequences, next_id>>

\* An error outside the batch call (the DFlash2 workspace allocation before it, the
\* synchronisation after it) returns with the selected requests in a local vector.
PrefillLoses ==
  /\ DeviceFaults
  /\ phase = "prefill" /\ PrefillPlan.ids # <<>>
  /\ \A id \in ToSet(PrefillPlan.ids) : Retained(requests[id])
  /\ requests' = [id \in Ids |-> IF id \in ToSet(PrefillPlan.ids)
                    THEN LostRequest(requests[id]) ELSE requests[id]]
  /\ prefilling' = UnselectedPrefills(PrefillPlan.ids)
  /\ phase' = "idle"
  /\ UNCHANGED <<waiting, decoding, decisions, decision_queue, sequences, next_id>>

--------------------------------------------------------------------------------
(***************************************************************************)
(* run_decision_phase: the group at the head of the queue takes one step   *)
(* of advance_decision_group and goes to the back.                         *)
(***************************************************************************)

\* The group g at the head becomes h; other groups keep their turn.
Rotate(id, h) ==
  /\ decisions' = [decisions EXCEPT ![id] = h]
  /\ decision_queue' = Append(Tail(decision_queue), id)

AdmitParent(id, g) ==
  /\ ~g.parent
  /\ IF SlotFree
     THEN /\ Rotate(id, [g EXCEPT !.parent = TRUE])
          /\ sequences' = sequences \cup {ParentSequence(id)}
     ELSE Rotate(id, g) /\ UNCHANGED sequences

PrefillParent(id, g) ==
  /\ g.parent /\ g.parent_position < g.prefix
  /\ Rotate(id, [g EXCEPT !.parent_position =
       @ + MinOf(g.prefix - @, PrefillTokenCapacity)])
  /\ UNCHANGED sequences

\* Mutant: the retained prefix is not remembered.
AlwaysNeedsAlignedPrefix(g) == g.parent_position % PageTokens = 0

NeedsAlignedPrefix(g) == g.parent_position % PageTokens = 0 /\ ~g.aligned

RetainAlignedPrefix(id, g) ==
  /\ g.parent /\ g.parent_position = g.prefix
  /\ NeedsAlignedPrefix(g) /\ RetainsPrefixes
  /\ Rotate(id, [g EXCEPT !.aligned = TRUE])
  /\ UNCHANGED sequences

\* The parent is complete and branches may run.
Forkable(g) ==
  /\ g.parent /\ g.parent_position = g.prefix
  /\ ~NeedsAlignedPrefix(g)

\* Mutant: the wave ignores the slots other requests hold.
WaveIgnoresSlots == DecisionBranchCapacity

\* How many branches one wave may admit.
WaveCapacity == MinOf(MaxActiveSequences - Cardinality(sequences), DecisionBranchCapacity)

AllAdmitted(g) == g.next_branch = Len(g.suffixes)

\* A wave of admitted children; the cache may stop it early.
AdmitBranches(id, g) ==
  /\ Forkable(g)
  /\ \E admitted \in 1..WaveCapacity :
       LET wave == [i \in 1..admitted |-> [branch |-> g.next_branch + i, position |-> 0]]
           h == [g EXCEPT !.active = @ \o wave, !.next_branch = @ + admitted]
       IN  /\ h.next_branch <= Len(g.suffixes)
           /\ admitted = WaveCapacity \/ AllAdmitted(h) \/ DeviceFaults
           /\ Rotate(id, h)
           /\ sequences' = sequences \cup {BranchSequence(id, g.next_branch + i) : i \in 1..admitted}

\* No branch was admitted this time.
NoWave(g) == Forkable(g) /\ (WaveCapacity = 0 \/ AllAdmitted(g) \/ DeviceFaults)

SuffixLeft(g, b) == g.suffixes[b.branch] - 1 - b.position

\* The greedy split of the token budget over the active branches, in order.
GiveSuffix(plan, b) ==
  LET chunk == MinOf(SuffixLeft(plan, b), plan.budget)
  IN  IF chunk = 0 \/ plan.rows = PrefillSequenceCapacity
      THEN [plan EXCEPT !.active = Append(@, b)]
      ELSE [plan EXCEPT !.budget = @ - chunk, !.rows = @ + 1,
                        !.active = Append(@, [b EXCEPT !.position = @ + chunk])]

SuffixPlan(g) ==
  LET plan[i \in 0..Len(g.active)] ==
        IF i = 0
        THEN [budget |-> PrefillTokenCapacity, rows |-> 0, suffixes |-> g.suffixes,
              active |-> <<>>]
        ELSE GiveSuffix(plan[i - 1], g.active[i])
  IN  plan[Len(g.active)]

PrefillSuffixes(id, g) ==
  /\ NoWave(g)
  /\ \E b \in ToSet(g.active) : SuffixLeft(g, b) > 0
  /\ Rotate(id, [g EXCEPT !.active = SuffixPlan(g).active])
  /\ UNCHANGED sequences

\* Mutant: the last element is dropped instead of moved into the hole.
DropLast(s, i) == SubSeq(s, 1, Len(s) - 1)

SwapRemove(s, i) == SubSeq([s EXCEPT ![i] = s[Len(s)]], 1, Len(s) - 1)

\* The first k elements are swap-removed, the last of them first.
RemoveReady(s, k) ==
  LET rest[m \in 0..k] == IF m = 0 THEN s ELSE SwapRemove(rest[m - 1], k - m + 1)
  IN  rest[k]

ReadBranches(id, g) ==
  /\ NoWave(g)
  /\ g.active # <<>>
  /\ \A b \in ToSet(g.active) : SuffixLeft(g, b) = 0
  /\ LET ready == MinOf(DecisionBranchCapacity, Len(g.active))
     IN  /\ Rotate(id, [g EXCEPT
              !.logits = @ \o [i \in 1..ready |-> g.active[i].branch],
              !.active = RemoveReady(@, ready)])
         /\ sequences' = sequences \
              {BranchSequence(id, g.active[i].branch) : i \in 1..ready}

\* Nothing is active: the group is complete, or waits for a free slot.
CompleteDecision(id, g) ==
  /\ NoWave(g)
  /\ g.active = <<>>
  /\ IF AllAdmitted(g)
     THEN /\ decisions' = [decisions EXCEPT ![id] = ReleasedGroup(id, "Answered")]
          /\ decision_queue' = Tail(decision_queue)
          /\ sequences' = sequences \ GroupSequences(id)
     ELSE Rotate(id, g) /\ UNCHANGED sequences

\* The aligned prefix is looked up where nothing can have been retained.
PrefixNotFound(g) ==
  /\ g.parent /\ g.parent_position = g.prefix
  /\ NeedsAlignedPrefix(g) /\ ~RetainsPrefixes

\* Any error of the step releases the whole group and reports it as failed.
FailDecision(id, g) ==
  /\ DeviceFaults \/ PrefixNotFound(g)
  /\ decisions' = [decisions EXCEPT ![id] = ReleasedGroup(id, "Failed")]
  /\ decision_queue' = Tail(decision_queue)
  /\ sequences' = sequences \ GroupSequences(id)

RunDecision ==
  /\ phase = "decision"
  /\ IF decision_queue = <<>>
     THEN UNCHANGED <<decisions, decision_queue, sequences>>
     ELSE LET id == Head(decision_queue)
              g == decisions[id]
          IN  /\ g.state = "Queued"
              /\ \/ AdmitParent(id, g)
                 \/ PrefillParent(id, g)
                 \/ RetainAlignedPrefix(id, g)
                 \/ AdmitBranches(id, g)
                 \/ PrefillSuffixes(id, g)
                 \/ ReadBranches(id, g)
                 \/ CompleteDecision(id, g)
                 \/ FailDecision(id, g)
  /\ phase' = "idle"
  /\ UNCHANGED <<requests, queues, next_id>>

--------------------------------------------------------------------------------
Tick == StartTick \/ AdmitWaiting \/ AdmitDone \/ RunDecode \/ RunPrefill \/ RunDecision

TickFails == AdmitFails \/ DecodeFails \/ DecodeLoses \/ PrefillFails \/ PrefillLoses

Call ==
  \/ \E shape \in ChatShapes : AddRequest(shape)
  \/ \E shape \in DecisionShapes : AddDecision(shape)
  \/ \E id \in Ids : Cancel(id) \/ RemoveFinished(id)

Next == Tick \/ TickFails \/ Call

(***************************************************************************)
(* The actor thread ticks for as long as a request is retained; callers    *)
(* owe nothing.                                                            *)
(***************************************************************************)
Spec == Init /\ [][Next]_vars /\ WF_vars(Tick)

--------------------------------------------------------------------------------
(***************************************************************************)
(* Properties.                                                             *)
(***************************************************************************)

Requests ==
  [lifecycle : {"Absent", "Waiting", "Prefilling", "Decoding", "Finished",
                "Removed", "Cancelled", "Lost"},
   prompt : Nat, max_new : Nat, prompt_position : Nat, prefix_retained : BOOLEAN,
   generated : Nat, spec_started : BOOLEAN, sequence : BOOLEAN]

Groups ==
  [state : {"Absent", "Queued", "Answered", "Failed", "Cancelled"},
   prefix : Nat, suffixes : Seq(Nat), parent : BOOLEAN, parent_position : Nat,
   aligned : BOOLEAN, next_branch : Nat,
   active : Seq([branch : Nat, position : Nat]), logits : Seq(Nat)]

\* Every variable of the scheduler stays in its type.
TypeOK ==
  /\ requests \in [Ids -> Requests]
  /\ \A id \in Ids : requests[id].prompt_position <= requests[id].prompt
  /\ {waiting, prefilling, decoding, decision_queue} \subseteq Seq(Ids)
  /\ decisions \in [Ids -> Groups]
  /\ sequences \subseteq ({"request", "parent", "branch"} \X Ids \X Nat)
  /\ next_id \in 0..MaxRequests
  /\ phase \in {"idle", "admit", "decode", "prefill", "decision"}

\* Requests, decision parents and decision branches are admitted by three different
\* paths against one limit: together they never hold more than max_active_sequences.
SlotsWithinLimit == Cardinality(sequences) <= MaxActiveSequences

BranchesOf(id) == {b.branch : b \in ToSet(decisions[id].active)}

RequestsOwnLive ==
  \A id \in Ids : requests[id].sequence => RequestSequence(id) \in sequences
ParentsOwnLive ==
  \A id \in Ids : decisions[id].parent => ParentSequence(id) \in sequences
BranchesOwnLive ==
  \A id \in Ids : \A k \in BranchesOf(id) : BranchSequence(id, k) \in sequences

\* A sequence id kept by a request, a group or a branch always resolves in the pool,
\* so no lease and no release ever meets an unknown or released sequence.
OwnedIsLive == RequestsOwnLive /\ ParentsOwnLive /\ BranchesOwnLive

RequestsNotLeaked ==
  \A id \in Ids : RequestSequence(id) \in sequences => requests[id].sequence
ParentsNotLeaked ==
  \A id \in Ids : ParentSequence(id) \in sequences => decisions[id].parent
BranchesNotLeaked ==
  \A s \in sequences : s[1] = "branch" => s[3] \in BranchesOf(s[2])

\* The pool holds nothing that no request or group would release.
NoSequenceLeak == RequestsNotLeaked /\ ParentsNotLeaked /\ BranchesNotLeaked

NoDuplicates(queue) == Cardinality(ToSet(queue)) = Len(queue)

\* Every queued id is retained, in the lifecycle of its queue and in no other place:
\* the scheduler's expect() calls on popped ids cannot panic and no request is put
\* twice into one batch.
QueuedIsRetained ==
  /\ \A queue \in {waiting, prefilling, decoding, decision_queue} : NoDuplicates(queue)
  /\ \A id \in ToSet(waiting) :
       requests[id].lifecycle = "Waiting" /\ ~requests[id].sequence
  /\ \A id \in ToSet(prefilling) :
       requests[id].lifecycle = "Prefilling" /\ requests[id].sequence
  /\ \A id \in ToSet(decoding) :
       requests[id].lifecycle = "Decoding" /\ requests[id].sequence
  /\ \A id \in ToSet(decision_queue) : decisions[id].state = "Queued"

\* Every live request and group waits in its queue: none is forgotten.
RetainedIsQueued ==
  \A id \in Ids :
    /\ requests[id].lifecycle = "Waiting" => id \in ToSet(waiting)
    /\ requests[id].lifecycle = "Prefilling" => id \in ToSet(prefilling)
    /\ requests[id].lifecycle = "Decoding" => id \in ToSet(decoding)
    /\ decisions[id].state = "Queued" => id \in ToSet(decision_queue)

\* The lifecycle a request shows agrees with how far it has come, across chunked
\* prefill, the hand-over of the last prompt token to decode, and speculation.
LifecycleMatchesProgress ==
  \A id \in Ids :
    LET r == requests[id]
    IN  /\ r.lifecycle = "Prefilling" => r.prompt_position < r.prompt /\ r.generated = 0
        /\ r.lifecycle = "Decoding" =>
             r.prompt_position = r.prompt /\ r.generated \in 1..(r.max_new - 1)
        /\ r.lifecycle \in {"Finished", "Removed"} =>
             /\ r.generated <= r.max_new
             /\ r.generated = 0 => r.max_new = 0

\* Chunking never carries a prompt past its page-aligned checkpoint without the
\* prefix having been offered to the shared cache there.
CheckpointNeverSkipped ==
  \A id \in Ids :
    LET r == requests[id]
    IN  r.lifecycle \in {"Prefilling", "Decoding"} /\ PrefixTarget(r) > 0
          /\ r.prompt_position > PrefixTarget(r) => r.prefix_retained

\* Each branch of a decision group is in exactly one place: still to be admitted,
\* active with its suffix not overrun, or read out; an answered group has the logits
\* of every question exactly once.
BranchesAccounted ==
  \A id \in Ids :
    LET g == decisions[id]
        active == [i \in DOMAIN g.active |-> g.active[i].branch]
    IN  /\ g.state = "Queued" =>
             /\ ToSet(active \o g.logits) = 1..g.next_branch
             /\ NoDuplicates(active \o g.logits)
             /\ \A b \in ToSet(g.active) : b.position < g.suffixes[b.branch]
        /\ g.state = "Answered" =>
             ToSet(g.logits) = DOMAIN g.suffixes /\ NoDuplicates(g.logits)

\* Requests are admitted in the order they were added.
FifoAdmission ==
  [][\A id \in Ids :
       requests[id].lifecycle = "Waiting" /\ requests'[id].lifecycle = "Prefilling" =>
         \A earlier \in 0..(id - 1) : requests[earlier].lifecycle # "Waiting"]_vars

Advance == [id \in Ids |-> requests'[id].prompt_position - requests[id].prompt_position]

\* A prefill batch stays within both of its limits, advances every row it holds, and
\* spreads a sufficient budget over all the requests it could take.
PrefillBatchFair ==
  [][phase = "prefill" /\ phase' = "decision" =>
       LET rows == {id \in Ids : requests'[id] # requests[id]}
       IN  /\ Cardinality(rows) <= PrefillSequenceCapacity
           /\ \A id \in rows : Advance[id] > 0 /\ requests'[id].prompt_position < requests[id].prompt
           /\ SumFunctionOnSet(Advance, rows) <= PrefillTokenCapacity
           /\ PrefillTokenCapacity >= Len(EligiblePrefills) =>
                ToSet(EligiblePrefills) = rows]_vars

\* Every admitted or waiting request is driven to its end by ticks alone.
RequestsFinish ==
  \A id \in Ids : (requests[id].lifecycle = "Waiting") ~> ~Live(requests[id])

\* Every decision group is answered, failed or cancelled in the end.
DecisionsFinish ==
  \A id \in Ids : (decisions[id].state = "Queued") ~> (decisions[id].state # "Queued")

================================================================================
