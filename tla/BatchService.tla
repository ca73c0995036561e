---------------------------- MODULE BatchService ----------------------------
(***************************************************************************)
(* The chat service of the smaller engines, as                             *)
(* crates/infer/src/execution/bitnet_serving.rs has it (bonsai_serving.rs  *)
(* is the same but for names): requests in a map ordered by identity, one  *)
(* queue of those without a sequence, and a tick that admits, decodes,     *)
(* prefills and finishes.  Any step may leave the tick by `?'; the actor   *)
(* then cancels every request (eider-api/src/actor.rs fail_all).           *)
(*                                                                         *)
(* The sequence cache (external) is sized for MaxActiveSequences sequences *)
(* of full length.  Text is left to ChatService.                           *)
(***************************************************************************)
EXTENDS Integers, Sequences, FiniteSets, Queues

CONSTANTS
  MaxRequests,             \* bound: request identities handed out in all
  Shapes,                  \* requests callers send: [prompt, max_new]
  MaxActiveSequences,      \* SchedulerConfig
  DecodeCapacity,
  PrefillSequenceCapacity,
  PrefillTokenCapacity,
  Faults                   \* the calls that may fail, a subset of FaultKinds

\* add_request rejects an empty prompt.
ServiceAssumption ==
  Shapes \subseteq [prompt : Nat \ {0}, max_new : Nat] /\ PrefillTokenCapacity \in Nat

ASSUME ServiceOK == ServiceAssumption

FaultKinds == {"admit", "synchronize", "forward", "sample", "codec", "prefill", "finish"}

VARIABLES
  requests,  \* retained requests: shape, prompt_position, generated_tokens,
             \* prompt_logits_ready, and whether the last token has been sampled
  waiting,   \* queue of requests without a sequence
  pool,      \* the sequence pool: rows each request's sequence holds
  cache,     \* requests whose entry of the sequence cache is not released
  lost,      \* history: entries whose handle went with a failed device call
  next_id,
  left,      \* how a request left, for the actor: "finished", "failed" or "cancelled"
  pc,        \* where the tick is
  todo,      \* the requests the phase has still to take
  budget,    \* prefill: tokens left
  terminal,  \* requests this tick ends
  done       \* tick.finished

tick == <<pc, todo, budget, terminal, done>>
store == <<cache, lost>>
vars == <<requests, waiting, pool, store, next_id, left, tick>>

Retained == DOMAIN requests
Admitted == DOMAIN pool

Removing(f, ids) == [id \in DOMAIN f \ ids |-> f[id]]
With(f, id, value) == [x \in DOMAIN f \cup {id} |-> IF x = id THEN value ELSE f[x]]

Empty == [id \in {} |-> 0]

Init ==
  /\ requests = Empty /\ waiting = <<>> /\ pool = Empty /\ cache = {} /\ lost = {}
  /\ next_id = 1 /\ left = Empty
  /\ pc = "idle" /\ todo = {} /\ budget = 0 /\ terminal = {} /\ done = {}

(***************************************************************************)
(* Between ticks.                                                          *)
(***************************************************************************)
AddRequest(shape) ==
  /\ pc = "idle" /\ next_id <= MaxRequests
  /\ requests' = With(requests, next_id, [prompt |-> shape.prompt, max_new |-> shape.max_new,
                   position |-> 0, generated |-> 0, ready |-> FALSE, ended |-> FALSE])
  /\ waiting' = Append(waiting, next_id)
  /\ next_id' = next_id + 1
  /\ UNCHANGED <<pool, store, left, tick>>

\* Mutant: a cancelled sequence is dropped and its cache entry is not released.
DropSequences(ids) ==
  /\ requests' = Removing(requests, ids)
  /\ waiting' = Without(waiting, ids)
  /\ pool' = Removing(pool, ids)
  /\ UNCHANGED store

\* cancel_request; a cache entry that cannot be released is only logged.
CancelRequests(ids) ==
  /\ requests' = Removing(requests, ids)
  /\ waiting' = Without(waiting, ids)
  /\ pool' = Removing(pool, ids)
  /\ \E kept \in IF "finish" \in Faults THEN SUBSET (ids \cap Admitted) ELSE {{}} :
       /\ cache' = cache \ ((ids \cap Admitted) \ kept)
       /\ lost' = lost \cup kept

Cancel(id) ==
  /\ pc = "idle"
  /\ CancelRequests({id})
  /\ left' = With(left, id, "cancelled")
  /\ UNCHANGED <<next_id, tick>>

StartTick ==
  /\ pc = "idle" /\ Retained # {}
  /\ pc' = "admit"
  /\ UNCHANGED <<requests, waiting, pool, store, next_id, left, todo, budget, terminal, done>>

(***************************************************************************)
(* A failed tick: its results are lost, and the actor fails every request  *)
(* it knows of, those this tick had finished included.                     *)
(***************************************************************************)
Fail == pc' = "failed" /\ UNCHANGED <<todo, budget, terminal, done, next_id, left>>

FailAll ==
  /\ pc = "failed"
  /\ CancelRequests(Retained)
  /\ left' = [id \in 1..(next_id - 1) |-> IF id \in DOMAIN left THEN left[id] ELSE "failed"]
  /\ pc' = "idle" /\ todo' = {} /\ budget' = 0 /\ terminal' = {} /\ done' = {}
  /\ UNCHANGED next_id

(***************************************************************************)
(* admit: the head of the queue leaves it before its sequence exists.      *)
(***************************************************************************)
MayAdmit == pc = "admit" /\ Cardinality(Admitted) < MaxActiveSequences /\ waiting # <<>>
CacheHasRoom == Cardinality(cache) < MaxActiveSequences

Admit ==
  /\ MayAdmit /\ CacheHasRoom
  /\ pool' = With(pool, Head(waiting), 0)
  /\ cache' = cache \cup {Head(waiting)}
  /\ waiting' = Tail(waiting)
  /\ UNCHANGED <<requests, lost, next_id, left, tick>>

\* The state cannot be allocated, or the cache would block, or the stream fails
\* after the cache has admitted the sequence.
AdmitFails ==
  /\ MayAdmit
  /\ waiting' = Tail(waiting)
  /\ \/ /\ "admit" \in Faults \/ ~CacheHasRoom
        /\ UNCHANGED store
     \/ /\ "synchronize" \in Faults /\ CacheHasRoom
        /\ cache' = cache \cup {Head(waiting)}
        /\ lost' = lost \cup {Head(waiting)}
  /\ Fail
  /\ UNCHANGED <<requests, pool>>

\* The first n of a set of requests, in the order of the map.
FirstIds(ids, n) == {id \in ids : Cardinality({other \in ids : other < id}) < n}

\* Mutant: the last token of a request is never due.
DecodableShort ==
  {id \in Admitted : /\ requests[id].position = requests[id].prompt
                     /\ requests[id].generated + 1 < requests[id].max_new}

Decodable ==
  {id \in Admitted : /\ requests[id].position = requests[id].prompt
                     /\ requests[id].generated < requests[id].max_new}

AdmitDone ==
  /\ pc = "admit" /\ ~MayAdmit
  /\ pc' = "decode"
  /\ todo' = FirstIds(Decodable, DecodeCapacity)
  /\ UNCHANGED <<requests, waiting, pool, store, next_id, left, budget, terminal, done>>

(***************************************************************************)
(* generate_one: the first token is sampled from the logits the prompt     *)
(* left, each later one after a forward pass of the token before it.       *)
(***************************************************************************)
Current == CHOOSE id \in todo : \A other \in todo : id <= other
Forward(request) == IF request.ready THEN pool ELSE [pool EXCEPT ![Current] = @ + 1]

\* Mutant: the prompt's logits are taken for ready again.
SampledAgain(request, last) ==
  [request EXCEPT !.generated = @ + 1,
                  !.ended = last \/ request.generated + 1 = request.max_new]

Sampled(request, last) ==
  [request EXCEPT !.ready = FALSE, !.generated = @ + 1,
                  !.ended = last \/ request.generated + 1 = request.max_new]

\* last: the token is EOS, or its text ends the response.
GenerateOne(last) ==
  /\ pc = "decode" /\ todo # {}
  /\ LET after == Sampled(requests[Current], last) IN
     /\ requests' = [requests EXCEPT ![Current] = after]
     /\ terminal' = IF after.ended THEN terminal \cup {Current} ELSE terminal
  /\ pool' = Forward(requests[Current])
  /\ todo' = todo \ {Current}
  /\ UNCHANGED <<waiting, store, next_id, left, pc, budget, done>>

\* The forward pass is aborted, or its row stays and no token is sampled, or the
\* token is sampled and its text cannot be decoded.
GenerateFails ==
  /\ pc = "decode" /\ todo # {}
  /\ LET request == requests[Current] IN
     \/ /\ "forward" \in Faults /\ ~request.ready
        /\ UNCHANGED <<requests, pool>>
     \/ /\ "sample" \in Faults
        /\ requests' = [requests EXCEPT ![Current].ready = FALSE]
        /\ pool' = Forward(request)
     \/ /\ "codec" \in Faults
        /\ requests' = [requests EXCEPT ![Current] = Sampled(request, FALSE)]
        /\ pool' = Forward(request)
  /\ Fail
  /\ UNCHANGED <<waiting, store>>

Prefillable ==
  {id \in Admitted : requests[id].max_new # 0 /\ requests[id].position < requests[id].prompt}

DecodeDone ==
  /\ pc = "decode" /\ todo = {}
  /\ pc' = "prefill"
  /\ todo' = FirstIds(Prefillable, PrefillSequenceCapacity)
  /\ budget' = PrefillTokenCapacity
  /\ UNCHANGED <<requests, waiting, pool, store, next_id, left, terminal, done>>

(***************************************************************************)
(* prefill: each request gets its share of what is left of the budget.     *)
(***************************************************************************)
Chunk ==
  LET available == requests[Current].prompt - requests[Current].position
      share == (budget + Cardinality(todo) - 1) \div Cardinality(todo)
  IN  IF available < share THEN available ELSE share

PrefillOne ==
  /\ pc = "prefill" /\ todo # {}
  /\ LET end == requests[Current].position + Chunk IN
     requests' = [requests EXCEPT ![Current].position = end,
                                  ![Current].ready = (end = requests[Current].prompt)]
  /\ pool' = [pool EXCEPT ![Current] = @ + Chunk]
  /\ budget' = budget - Chunk
  /\ todo' = todo \ {Current}
  /\ UNCHANGED <<waiting, store, next_id, left, pc, terminal, done>>

PrefillFails ==
  /\ pc = "prefill" /\ todo # {} /\ Chunk > 0
  /\ "prefill" \in Faults
  /\ Fail
  /\ UNCHANGED <<requests, waiting, pool, store>>

\* A request for no tokens ends once it is admitted.
PrefillDone ==
  /\ pc = "prefill" /\ todo = {}
  /\ pc' = "finish"
  /\ terminal' = terminal \cup {id \in Admitted : requests[id].max_new = 0}
  /\ UNCHANGED <<requests, waiting, pool, store, next_id, left, todo, budget, done>>

(***************************************************************************)
(* finish_request, for the requests of terminal.                           *)
(***************************************************************************)
Finish(id) ==
  /\ requests' = Removing(requests, {id})
  /\ pool' = Removing(pool, {id})
  /\ UNCHANGED waiting

FinishOne ==
  /\ pc = "finish"
  /\ \E id \in terminal :
       /\ \A other \in terminal : id <= other
       /\ Finish(id)
       /\ cache' = cache \ {id}
       /\ done' = done \cup {id}
       /\ terminal' = terminal \ {id}
  /\ UNCHANGED <<lost, next_id, left, pc, todo, budget>>

\* The codec fails before the request is removed, or the cache entry is not
\* released after it was.
FinishFails ==
  /\ pc = "finish" /\ terminal # {}
  /\ \/ "codec" \in Faults /\ UNCHANGED <<requests, waiting, pool, lost>>
     \/ /\ "finish" \in Faults
        /\ \E id \in terminal :
             /\ \A other \in terminal : id <= other
             /\ Finish(id)
             /\ lost' = lost \cup {id}
  /\ Fail
  /\ UNCHANGED cache

FinishDone ==
  /\ pc = "finish" /\ terminal = {}
  /\ left' = [id \in DOMAIN left \cup done |-> IF id \in done THEN "finished" ELSE left[id]]
  /\ done' = {}
  /\ pc' = "idle" /\ budget' = 0
  /\ UNCHANGED <<requests, waiting, pool, store, next_id, todo, terminal>>

-----------------------------------------------------------------------------
Tick ==
  \/ StartTick \/ Admit \/ AdmitFails \/ AdmitDone
  \/ \E last \in BOOLEAN : GenerateOne(last)
  \/ GenerateFails \/ DecodeDone
  \/ PrefillOne \/ PrefillFails \/ PrefillDone
  \/ FinishOne \/ FinishFails \/ FinishDone \/ FailAll

Next ==
  \/ \E shape \in Shapes : AddRequest(shape)
  \/ \E id \in Retained : Cancel(id)
  \/ Tick

\* The actor ticks as long as it has a request.
Fairness == WF_vars(Tick)

Spec == Init /\ [][Next]_vars /\ Fairness

-----------------------------------------------------------------------------
Rows(request) ==
  IF request.generated = 0 THEN request.position ELSE request.prompt + request.generated - 1

\* Between ticks no retained request has sampled its last token, and its sequence
\* holds exactly the rows of the text it has: also after ticks that failed with a
\* row appended and no token for it, or with the end of a request noticed and not
\* acted on, because no request of such a tick is retained.
SequenceHoldsItsText ==
  pc = "idle" =>
    \A id \in Retained :
      /\ ~requests[id].ended
      /\ id \in Admitted => pool[id] = Rows(requests[id])
      /\ id \notin Admitted => id \in ToSet(waiting)

\* The cache holds the sequences of the pool, and otherwise only entries whose
\* handle went with a failed stream synchronization or a failed release.  While
\* there are none, an admission finds room; an admission that does not fails the
\* tick, and with it every request.
CacheEntriesOwned == cache = Admitted \cup lost /\ Admitted \cap lost = {}

\* Every request leaves the service: a decode or prefill capacity below the number
\* of sequences delays the later ones but starves none, and no error path forgets
\* one.
BatchRequestsLeave ==
  \A id \in 1..MaxRequests : id \in Retained ~> id \in DOMAIN left
=============================================================================
