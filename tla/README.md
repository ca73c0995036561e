# Eider: TLA+ models, checks and proofs

Eider is an inference server: an HTTP front end (`crates/eider-api`) hands requests
to one thread that owns the GPU and drives an engine service
(`crates/infer/src/execution`), which batches requests, schedules prefill and decode,
speculates, and turns tokens into text. This directory models the control of that
pipeline: from the HTTP handler down to the pool of device sequences for the
Qwen3.6/3.8 engine, the simpler batch services, and below them the machinery that
overlaps storage, host threads and CUDA streams: expert paging, paged embedding rows
and deferred command submission. It holds TLA+ modules, TLC configurations, and TLAPS
proofs.

```
tlc -workers 2 -config SchedulerChat.cfg MCQwen36Scheduler   # one run
tlapm Qwen36SchedulerProofs.tla                              # one proof module
```

`PROJECT.json` lists the runs, the source lines behind every definition, one mutant
per checked property, the hazards and the findings. A definition whose comment starts
with "Mutant:" is a wrong version of the definition that follows it; the modules do
not use it.

## 1. Inventory

| Component | State | Operations | Interacts with | What is hard |
|---|---|---|---|---|
| HTTP handlers (`eider-api/src/server.rs`) | receiver, cancellation guard, timer | submit, receive, time out, be dropped | actor: commands and event queues | dropped at any await point; guard created late in a streaming body |
| Inference actor (`eider-api/src/actor.rs`) | `active`, `active_decisions`, `scheduler_by_external` | drain commands, tick, deliver, cancel, fail all, shut down | handlers, engine service | full event queues, lost terminal events, cancel against finish, shutdown with queued submissions |
| Chat service (`execution/serving.rs`) | per request: codec, stop filter, usage | add, tick, cancel | scheduler below, actor above | several tokens in one tick; held-back text at the end |
| Generation sessions (`execution/generation.rs`) | one request, stop buffer, finish reason | `next_token` | scheduler | which reason wins on the last token |
| Stop buffer (`eider-runtime/src/stop.rs`) | held-back text | push, finish | sessions, chat service | matches across chunk boundaries, overlapping sequences |
| Scheduler (`execution/scheduler.rs`) | requests, three queues, decision groups, decision queue | add, cancel, collect; tick = admit, decode, prefill, one decision step | pool, cache, model | errors in the middle of a phase; slots shared by three admission paths; checkpoints; fairness |
| Sequence pool (`qwen3/qwen36/execution.rs`) | live sequences | insert, lease, release | scheduler | leaks, releases of unknown sequences |
| Speculative decoding (`scheduler.rs`, `qwen36/batch.rs`) | frontier, drafter state, lag | cycle, ordinary decode, fallback | model, cache appends | the one-token lag between modes, loss of the drafter |
| Shared sequence cache (external crate, `sm12x_cache.rs`) | pages, prefixes, reservations | lookup, admit, append, retain, evict | scheduler | entries evicted under a holder |
| DFlash2 prefix cache (`qwen36/dflash2.rs`) | bounded LRU of snapshots | get, insert | scheduler | byte budget |
| Expert paging (`expert_cache.rs`; the pagers in `deepseek4.rs`, `step37.rs`, `qwen36.rs`) | host map of experts to slots, LRU order, pinned staging, device map, two streams | plan a route, read misses, upload, remap, run | model forward pass, device | host writes and copies racing kernels, a resolve that fails after planning |
| Paged rows (`eider-cuda/src/paged_rows.rs`) | two batches, request and answer channels, worker pool, reuse events | begin, wait, gather, drop | forward pass, coordinator thread, workers, GPU | pages rewritten under a gather, bounded channels, partial failure |
| Deferred submission (`eider-cuda/src/deferred.rs`, `deferred/`) | slot states, encoders, fences | record, submit (in segments), discard, drop, poll, recycle | device | failed or abandoned recordings with work already enqueued |
| BitNet and Bonsai services (`bitnet_serving.rs`, `bonsai_serving.rs`) | requests in id order, waiting queue, sequence pool, cache entries | add, cancel, tick (admit, decode, prefill, finish) | actor, sequence cache | a tick that fails anywhere |
| Other engine services (`*_serving.rs`, `step37_scheduler.rs`) | as the chat service and scheduler | as above | actor | as above |
| Output codec, tool grammar (`chat_output.rs`, `tool_grammar.rs`) | parser state | push token, finish | chat service | partial tool calls |
| Sampling, decision prompts, protocol objects, kernels and FFI, model forward passes, weight formats | - | - | - | numerical code, formatting, I/O |

What makes each part correct:

* Scheduler and pool: never more sequences than slots; every owner finds its sequence
  and every sequence has an owner; queues and lifecycles agree; admission is first
  come, first served; prefill shares its budget; a page-aligned checkpoint is never
  stepped over; requests and decisions end.
* Speculation: the completion is the one ordinary greedy decoding gives, within the
  admitted capacity, and the request ends.
* Actor: its maps and the engine agree; a client sees its events in order and once, and
  nothing more is generated for it once one was lost; every handler ends; abandoned work
  is released. That a stream with a gap never looks complete does not hold (finding 5).
* Sessions, chat service: no part of a stop sequence is shown, no other text is lost,
  the reported reason is the true one, and a session ends.
* Batch services: between ticks the cache rows of a sequence are those of its text, no
  cache entry is without an owner unless a device call lost it, every request leaves.
* Expert paging: a kernel reads the experts it was launched for, whatever the device
  and the host do meanwhile; a route always fits; no wait is endless.
* Paged rows: a gather sees the rows of its own pass; batches are neither lost nor
  shared; the threads never wait for each other for ever; a drop leaves nobody reading.
* Deferred submission: what the host may touch, no queued command touches.

`PROJECT.json` lists each hazard at its line with the properties aimed at it.

## 2. Modules

`SpeculativeDecode` follows one greedy request from admission to its last token. A
token is the position it holds in the target's own stream, or `WrongToken`, so "the
right token" is an equation on integers. `kv` is the cache's rows and `reserved` the
end of the last append. `Prefill`, `Decode` (`execute_decode` for one row), `Speculate`
(`execute_speculative`, both drafters, with the constrained verifier) and
`SpeculateFails` correspond to the calls a tick makes. Draft proposals are arbitrary:
any number of them may be accepted.

`Qwen36Scheduler` is the whole scheduler with prompts and completions as lengths. Each
phase of a tick is an action because a failing phase ends the tick and leaves its
state to the next one; the turns of the admission loop are single steps. `Call`
collects what callers do between ticks (the scheduler is owned by one thread). A
phase's result per request is an `Outcome`: a number of tokens and whether the last
one finished the request; `PossibleOutcome` bounds it by the draft arithmetic.
`DeviceFaults` enables the error returns: `AdmitFails`, `DecodeFails` (requeue),
`DecodeLoses`, `PrefillFails` (requeue), `PrefillLoses`, `FailDecision`. "Lost" names a
request that an early return dropped. A sequence of the pool is named after what it
was admitted for; the pool never reuses identities.

`InferenceActor` is the actor thread, its unbounded command queue, the bounded event
queues (capacity one for a decision's one-shot channel), and one handler per request.
The engine is the number of ticks a request still needs (`Never` for a decision that
makes no progress, see finding 1). The actor's loop is split where other threads can
act in between: each command, the tick, each send, the sweep of disconnected requests.

`StopBuffer` has the operators of `stop.rs`. `GenerationSession` (both session types)
and `ChatService` (one request's way through `ResponseFilter` and
`tick_with_lifecycle`) build on it. In `ChatService` a record carries the filter
through the loop over a tick's tokens, as the code's locals do. `FinishReasons` has the
reasons both share with the scheduler.

`BatchService` is the BitNet service, read with the actor's answer to a failed tick
(`FailAll`). A tick is split at every call that may leave it by `?`; `Faults` says which
may. `pool` maps a request to the rows its sequence holds, `cache` is the set of entries
of the sequence cache, `lost` a history of the entries whose handle was dropped by a
failed device call. The requests a phase has still to take are a set, taken in the order of
their identities as the code's map iterates.

`ExpertPaging` has one host thread, in the order of `run_rows` and `resolve`, and a
device that executes an inference and an upload stream. A CUDA event is a fresh token: a
wait passes when the record has left the other stream. `pager` chooses between the two
kinds of pager the code has, "host" (DeepSeek V4, reads into the slots) and "staged"
(Step 3.7 and Qwen3.6, reads into pinned staging). A pass copies the routes of all its
rows to the host, which synchronizes the inference stream once, and then enqueues one
resolve after another with no synchronization between: the host pager in groups of the
active experts (`ManyRows`), the staged one row by row, as Step 3.7's batched prefill
does (`RowByRow`, `step37/batch.rs:528-565`, at most `MaxRows` rows). From the second
resolve on it is only the wait for staging reuse and the upload stream's wait for
`slots_released` that keep staging buffers, slots and maps from being overwritten under
queued work. `last_used` keeps the order of the clock's values, not the values.
`unfilled` is a history of the experts a failed resolve left in the host map.
`ReadFaults`, `CopyFaults` and `FinishFaults` say which pager's record reads, enqueues up
to the map upload, and calls of `finish` may fail.

`PagedRows` has the forward pass that owns the reader, the coordinator thread, the
workers and the stream. A page that is being written, or whose read failed, is `Torn`
from the dispatch of its job on. `lost` is a history of the batches dropped with an
error of the stream.

`ResourceOwnership` is the abstract promise of `deferred.rs`: a resource is the host's or
the device's, and returns only when no work refers to it. `ExecutionSlots` is the code:
slots that go through `BoundedExecutionSlots`, loose resources with a `Recording` of
their own, an eager backend (a CUDA stream) or a retaining one, and a queue of commands.
`KeepsOwnership` states that it implements `ResourceOwnership` under the mapping
"ready and completed are the host's, recording and in flight are the device's".

`Queues` has the two filters the components use on their queues, as recursive functions:
`Keep` (an iterator's `filter`) and `Without` (`VecDeque::retain`). `QueueTheorems` proves
what `Append`, `Tail`, `Front`, concatenation and these filters do to the members, the
order and the distinctness of a queue, what a sum over a set and a flattened sequence are,
and the induction and recursion lemmas this needs.

`MCForward`, `MCServing` and `MCCuda` put components that do not meet into one run: `part`
chooses which one a behaviour steps. For that `ExpertPaging` calls its specification
`PagingSpec`, `PagedRows` its `ReaderSpec`, and `GenerationSession` and `ChatService` theirs
`SessionSpec` and `ChatSpec`. The other `MC*`
modules give TLC its inputs. `*Proofs` modules hold the theorems.

## 3. Runs

| Run | Shows | Bounds |
|---|---|---|
| `forward` | greedy stream preserved, capacity, exact stop, termination; kernels read their experts, a route fits and is not its own victim, no endless wait | prompt 3, 6 new tokens, 3 drafts: a cycle can be cut short, fully accepted, fully rejected, and run into each limit; 3 experts, 2 slots, routes of 2 (a cache at its limit: every route shares a slot with the last), 2 rows or working sets behind one synchronization, reads and CUDA calls that fail, the next failure when no upload is queued and no expert is unfilled; the staged pager's `finish` does not fail (section 4) |
| `chat` | order, fairness (without faults), checkpoints, nothing forgotten, termination | 3 requests, 3 slots, decode batch 1, prefill 2 rows and 3 tokens, pages of 2: a chunk would step over a checkpoint, a row is passed over, decode contends |
| `decisions` | no leak (without faults), every question answered once, groups end | 3 requests, 4 slots, waves of 2, groups of 3 and 2 branches, aligned and unaligned prefixes, one chat competing |
| `faults` | limit, ownership, queues, lifecycles under every error path | 2 requests, 2 slots, 1 draft, prefixes not retained |
| `actor` | books, streams, a gap ends the output, termination, release | 1 chat, 1 decision, queue of 2, bursts of 3 so that the queue overflows, failing ticks, shutdown |
| `serving` | stop handling and completeness of text in the sessions and the Qwen service; text, sequences, cache entries and termination of the batch services under every fault | three characters, stop sequences that overlap, extend and end with each other, chunks of 1 to 3, 4 tokens; chat ticks of at most 2 tokens; 4 batch requests of 3 shapes, 2 sequences, decode 1, prefill 2 rows and 3 tokens |
| `cuda` | ownership refinement, no shared access; gathers see their rows, batches accounted for, drop is quiet, no endless wait | 2 slots, 1 loose resource, 3 queued commands, both backends; 1 worker, requests of 1 and 3 rows with a repeated one, so that the worker reads one row, its job channel is full and the coordinator blocks on the third; every read may fail. The request and answer channels never fill: `pending` lets one request travel at a time |
| `decision_deadlock`, `session_hangs`, `service_stop`, `actor_gap`, `expert_stale` | violated: see findings | the smallest instance that shows it |

The bounds are enough in this sense: every action and every disjunct fires, and for
every property a plausible error of the code (its mutant) is caught under the same
bounds. Ids, requests and tokens are finite by `MaxRequests`, `MaxNewTokens`,
`MaxTicks`, `MaxBurst`, `MaxTokens`, `MaxQueue`, `MaxRows` (of a pass of the staged
pager), `MaxBacklog`, `MaxUnfilled`; those are bounds of the model, the others are limits
of the code. Deadlock checking is off where
the system may stop (a scheduler without requests, a request that is complete, a service
whose bounded requests are used up, an actor that has returned) and on in `cuda`, where a
recording or a new reader can always begin; of the expert pagers `PassCompletes` says
that neither host nor streams get stuck.

Fairness: the scheduler's `Tick` is weakly fair because the actor ticks as long as it
holds a request; callers owe nothing. The actor thread is weakly fair (an OS thread),
a handler is polled when its receiver is ready (tokio wakes it), and the decision
timer fires. No chat handler has to leave, nobody has to shut down, and a chat request
ends because its remaining ticks are finite, which is what `RequestsFinish` shows of
the scheduler. For chats this is also all that `AbandonedIsReleased` rests on when no
Cancel is sent (a streaming body dropped before its first poll): the engine generates on
until the request's own end or a full queue. `GenerationSession` is fair because the caller's loop calls `next_token`
until it returns `None`. `BatchService` ticks as the scheduler does. In `ExpertPaging` and
`PagedRows` the host thread, the reader threads and the device each make progress, reads
end, and nothing makes a pass or a drop begin; `ExecutionSlots` claims no liveness.

## 4. Findings

1. `decision_deadlock`: a decision parent keeps its slot while its branches need
   others. As many groups as slots (one, where a deployment sets
   `--max-active-sequences 1`) never finish; only the API's 120 second timeout ends
   them. `scheduler.rs:1842`.
2. `session_hangs`: the Qwen3.6 session overwrites `Length` with `None` when the final
   token decodes to text, and then waits for ever. `generation.rs:173`.
3. `service_stop`: tokens of a speculative tick behind a stop sequence are still
   emitted, and their finish reason replaces `Stop`. `serving.rs:219`.
4. `expert_stale`: a record read that fails in the Step 3.7 or Qwen3.6 pager leaves the
   planned expert in the host map; the next route takes it for resident and the kernel
   reads another expert's weights, or an index the device map never received.
   `step37.rs:1451`, `qwen36.rs:3726`. The DeepSeek pager calls `discard_misses`, except
   when the CUDA calls before its reads fail (`deepseek4.rs:901`). `forward` and
   `KernelsReadTheirExperts` show that, as long as the staged pager's `finish` does not fail
   (see below), this is the only way a kernel can miss its expert.
5. `actor_gap`: an output event of the finishing tick that meets a full queue is dropped,
   and `Finished` is sent all the same; if the handler took an event in between, the client
   gets a truncated response that ends as a complete one. `actor.rs:549`. In any other tick
   a gap costs the request its life before it can produce more (`GapEndsTheOutput`).

Observations, visible in the models and without a run of their own:

* An early return by `?` while the selected requests are in a local vector drops them;
  their sequences stay in the pool (`scheduler.rs:1553`, `1672`, `815-836`; `PrefillLoses`
  and `DecodeLoses`, and why `PoolNeverLeaks` needs the absence of device faults).
* `decision_branch_capacity` bounds a wave, not the live branches its documentation
  speaks of (`scheduler.rs:1846` against `eider-runtime/src/scheduler.rs:26`).
* When a CUDA call of the staged pager's `finish` fails, the map upload is already queued
  but `inflight` stays false (`expert_cache.rs:333-338`): the next resolve does not wait and
  rewrites the pinned map and the staging buffers under the queued copies, and a kernel may
  read an index that is not yet, or no longer, right. With `FinishFaults = {"staged"}` TLC
  violates `KernelReadsLoadedExperts`.
* A pass abandoned between `begin_rows` and the gather leaves `pending` set, and every
  later `begin_rows` is refused (`paged_rows.rs:590`). With both batches busy the one
  gathered last is waited for, not the oldest (`paged_rows.rs:600`). An event that cannot
  be waited for takes its batch with it (`paged_rows.rs:604`).
* A stream error right after the cache admitted a BitNet sequence, or a failed release,
  leaves a cache entry nobody owns (`bitnet/sequence.rs:50`); once those fill the cache,
  every admission fails its tick, and with it every request.

## 5. Proofs

All are for every value of the constants under the modules' `ASSUME`s (limits are
positive, lengths are naturals, prompts and suffixes are not empty), which say what
`SchedulerConfig::validate` and the request validation enforce.

* `SpeculativeDecodeProofs`: `TypeCorrect`, `CompletionIsLossless`,
  `AppendsStayAdmitted`, `LagIsExact`. The invariant `IndInv` adds to the four
  properties what the stream looks like at each step: the cache is a prefix of the
  greedy stream; it is one row behind the emitted tokens until the first cycle and
  level with them afterwards; a held frontier is the token of the next row. Without
  the lag `LosslessCompletion` is not inductive: an arbitrary frontier would be
  emitted. One lemma per action; `ApplySamples` has its own.
  `StopIsExact` adds `StopInv`: while the request lives, none of its tokens stops. The
  point of the argument is a cycle whose accepted drafts hold the stop token in the middle
  or run over the limit: `ApplySamples` cuts behind the first of either.
* `Qwen36SchedulerProofs`: `SlotLimitHolds`, `QueuesAreSound`, `NothingForgotten`,
  `ProgressMatches`, `CheckpointIsKept`, `OwnersAreLive`, `PoolNeverLeaks`,
  `BranchesAreAccounted`, `TypesHold` and the action properties `AdmissionIsFifo` and
  `PrefillsStayFair`, all from one invariant, `SchedulerInv`. Its parts are
  - `PoolInv`: the pool is finite and within the limit;
  - `RequestInv` and `ParentInv`: ids that were not given out own nothing, and what a
    request or a group says it owns is in the pool;
  - `RequestQueuesInv`: a request is in the prefill or decode queue exactly when its
    lifecycle says so, no queue holds it twice, and the waiting queue is ascending. Without
    it a request could be selected twice and its sequence be released twice; ascending ids
    are what makes admission first come, first served. `RequestOK` ties progress, lifecycle
    and the retained checkpoint of one request together;
  - `DecisionInv`: a group is queued exactly while it is unanswered; its active branches
    and its logits partition the branches opened so far; the pool holds the sequence of a
    branch exactly while the branch is active. Without the last part a leaked branch
    could make a wave smaller than its capacity.
  `NothingForgotten` and the request half of `PoolNeverLeaks` are stated for
  `~DeviceFaults`; with faults they are false (section 4), which `SchedulerInv` carries as
  an implication. Decision groups never leak, faults or not.
  `PrefillsStayFair` goes along the plan of a batch: `PlanAt` says what the plan is after
  some of the eligible requests, among it that the budget left is never smaller than the
  number of requests still to serve if it was not at the start, and that the chunks and
  the budget left make the whole budget (`Totals`). `PlanWithinBudget` turns these totals
  into the sum over the batch's rows, which is taken in no particular order.
* `InferenceActorProofs`: `BooksAlwaysAgree`, `StreamsStayWellFormed`, `GapsEndTheOutput`.
  `BooksInv` adds the results in flight: between a tick and the end of its delivery the
  actor still maps exactly what the engine holds and what it has finished but not yet
  reported. `StreamInv` adds per request (`StreamOK`) that a stream stays open while the
  request is in the actor's maps, that it is empty before the request gets there, and that
  it has no gap unless the request is marked disconnected; `SubmitOnce` (no submission is
  queued twice) keeps a request from entering the maps behind its own terminal event.
  `GapsEndTheOutput` follows: only a tick produces output, it takes place when no event is
  left to deliver and no request is marked, and then an open stream has no gap
  (`NoGapBetweenTicks`).
* `BatchServiceProofs`: `CacheStaysOwned` and `TextIsHeld`. `BatchInv` has two parts:
  `Ownership` (who has a sequence, who waits, whose entry is lost) holds in every state;
  `Text` (the rows of a sequence are those of its text, and what the phases select is
  still there when they come to it) holds unless the tick has failed. A failed tick may
  break `Text` anywhere, and the proof is that `fail_all` leaves nothing it could be broken
  for. `ServiceAssumption` is that prompts are not empty, which `add_request` checks.
* `TextProofs`, the sessions: `NoTextIsLost` and `NoStopIsMissed`, for any stop sequences, any
  tokens and any limit. The lemmas about `StopBuffer` say what a push does to the whole
  text although it sees only what it holds back. `SessionInv` needs one more fact than the
  properties state, `Settled`: no suffix of the decoded text that begins in the part handed
  out is the start of a stop sequence, so that no sequence completed later can reach back
  into it (`NothingReopens`), and every occurrence in the whole text is one in the buffer
  (`BufferSeesAll`). `StopSequencesAssumption` is that no stop sequence is empty, which
  `GenerationConfig::validate` and `validate_stop_sequences` check.
* `TextProofs`, the Qwen chat service: `NothingBehindTheStop` and `AllTextIsDelivered`, for any
  events a token or the end of the stream may decode to. They are stated for one token to a
  tick; for more the first is false (finding 3). `FilterInv` says what the filter has made of
  the events so far, and `apply` keeps it event by event (`ApplyEventKeeps`): it takes text
  (`Open`: what was handed out and what is held back make up the response, and nothing
  handed out can be the start of a stop sequence), or it has passed a tool call (`Called`:
  all the text in front of it was handed out), or a stop sequence has ended it (`Matched`:
  what was handed out ends in front of the first sequence to be completed). The bound of
  `OrdinaryStopEnds` is the start of that sequence, not its last character. `ChatInv` carries it
  from tick to tick and through the end of the stream (`FinishKeeps`), where an open filter
  is flushed and may still meet a stop sequence in the codec's last events. That a request
  finished without a token has nothing to flush needs `tokens = 0 => withheld = <<>>`.
* `ExpertPagingProofs`: `PagingTyped`, `PlanAlwaysFits`, `PlanKeepsRoute` and
  `KernelsReadTheirExperts`, for any numbers of experts, slots, rows and experts per route, both
  pagers and any faults (the last under the hypothesis below). `PlanInv` adds that the two host maps are inverse to each other
  and that, while a route is planned, the protected slots are exactly the slots of its
  experts. A route without an unprotected slot would then map fewer experts onto all slots
  (a pigeonhole argument, `SomeSlotLeft`). It rests on `0 < route_len <= capacity <=
  experts`, which `ExpertSlotCache::new` checks.
  What the kernels read needs two more invariants. `PagingInv` holds under all faults and
  follows the pinned map rather than the host map: an expert is `Loaded` when the device
  map and the slot that the pinned map names are right, or will be once the uploads in
  flight are executed (the copy that fills the slot is the last one to it). Every resident
  expert is loaded but those just planned and those left unfilled (`Resident`). Uploads in
  flight end with a record that the inference stream waits for before its next kernel
  (`Awaited`). `KernelInv` is about the kernels that are already queued when the next route
  is resolved, any number of them. Each of its experts is either in place on the device
  already, and every queued upload that would disturb it (a copy into its slot, a map that
  names another) is held back by the upload stream's wait for a `slots_released` that was
  recorded behind the kernel (`Settled`, `Gate`); or it is still being uploaded, and the
  kernel comes behind the wait for that upload (`Late`). The host pager writes a slot itself
  only when no kernel is left in front of its record (`Drained`). Between two resolves no
  copy of the pinned map is queued (`NoStaleMap`), and an expert of a queued kernel is
  evicted only by a resolve whose uploads the next one awaits, so it is not loaded into
  another slot while the kernel is queued (`Kept`). So a kernel at the head of the stream
  finds its experts in place (`KernelsLoaded`), under the indices of its own remap
  (`Remapped`). `NoStaleMap` fails if the staged pager's `finish` can fail (section 4), which is
  why `KernelsReadTheirExperts` assumes that it does not.
* `CudaProofs`, paged rows: `GathersSeeTheirRows`, `DropIsQuiet`, `BatchesStayAccounted`. `ReaderInv`
  says where the two batches are (`Accounts`), that one travels at most and only while a
  request is pending (`Control`, `Channels`), that every dispatched read is with exactly
  one worker, in the completions, or collected (`Reading`; counting them is why a
  coordinator that has collected as many completions as it dispatched has left no worker
  behind), that what travels is what the pass asked for (`Contents`), and that a queued
  gather is followed by the record that protects its batch (`Launched`). `ReaderAssumption`:
  row lists are not empty and fit the batch, as `begin_rows` checks.
* `CudaProofs`, execution slots: `SlotsTyped`, `NoSharedAccess`, and `ImplementsOwnership`, the
  refinement of `ResourceOwnership`. The invariant says where the commands of a
  resource can be in the queue: none if the host has it, and none behind its fence if
  it is in flight on a retaining backend; on an eager one an empty queue is the fence.
  Every action maps to `Lend`, `Work`, `Return` or a stutter.

Three techniques carry these proofs. Induction is stated for sets of numbers
(`SetInduction`, `IntervalInduction`): it is the least member of the complement, so that no
theorem with an operator parameter is needed. A recursive function (`Keep`, `Unique`, the
prefill plan of the scheduler, its removal loops) is defined by `CHOOSE`; a lemma per
function (`KeepRec`, `UniqueRec`, `PrefillPlanRec`, ...) shows from `RecursionExists` that
the recursion has a solution, and the others use its equations. The folds of the community
modules recurse over the subsets of a set, where `FoldExists` takes its place: `SumFacts` for
a sum over a finite set, `ApplyFolds` for the loop over a token's events. Every invariant above was checked by TLC on the bounds of
section 3 before it was proved.

Only model-checked:

* all liveness (`DecodeCompletes`, `RequestsFinish`, `DecisionsFinish`, `HandlersEnd`,
  `AbandonedIsReleased`, `BatchRequestsLeave`, `NemotronSessionEnds`, `PassCompletes`,
  `PassEnds`): fairness and `ENABLED` are out of the prover's reach.

## 6. Not modelled

Most of the repository's lines are numerical: kernels and their FFI wrappers, forward
passes of some fifteen model families, loaders and formats. They, tokenizers and JSON
have no control worth a model, so the map covers a small share of all lines and most of
the control in `eider-api`, `eider-runtime/src/stop.rs`, `execution/scheduler.rs`,
`execution/expert_cache.rs`, `paged_rows.rs` and `deferred.rs`.

The shared sequence cache is an external crate: an admission returns some page-aligned
prefix, or refuses, or fails. The aligned prefix two decision groups share and the
DFlash2 snapshots are not modelled yet. A tick error
caused by one request's output codec is part of `TickFails` of the actor and a fault of
`BatchService`; `ChatService` leaves it out. Expert hot sets are offline statistics;
preloading is a sequence of resolves before any kernel runs. Metrics, logging and usage
counters are left out.
A decode that fails after its rows were committed is not retried in any model,
because the actor cancels every request of a failed tick.

## 7. Plan

Done: scheduler, speculation, actor, text; then the batch services, expert paging,
paged rows, and deferred submission with its refinement.

Next, in this order:

1. `SharedPrefix`: retained prefix entries, matches and eviction, composed with
   decision groups that share a prefix, and the DFlash2 prefix cache with its byte
   budget.
2. The Step 3.7 scheduler, and an abstract engine that it, `Qwen36Scheduler` and
   `BatchService` implement and the actor is checked over.
3. The protocol objects (`ResponseStream`, `ChatCompletionStream`) over the actor's
   event streams.
