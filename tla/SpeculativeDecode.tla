--------------------------- MODULE SpeculativeDecode ---------------------------
(***************************************************************************)
(* One greedy request of the Qwen3.6/3.8 scheduler between admission and   *)
(* its final token (crates/infer/src/execution/scheduler.rs).              *)
(*                                                                         *)
(* A tick runs the request either through the ordinary batched decode or,  *)
(* when it is alone and eligible, through one speculative cycle that       *)
(* verifies drafted tokens against the target model.  The two modes keep   *)
(* different books: after the first cycle the target's next token is held  *)
(* back as the "frontier" and emitted one step late.  The module is about  *)
(* the arithmetic of that lag: switching between the modes, losing the     *)
(* drafter, or stopping in the middle of a cycle must not change the       *)
(* emitted stream nor write past the admitted sequence capacity.           *)
(*                                                                         *)
(* Tokens are abstracted to the position they hold in the stream the       *)
(* target model produces greedily from this prompt: prompt tokens are      *)
(* 0..PromptLen-1, the first completion token is PromptLen and so on.  Any *)
(* token the target would not have produced at that place is WrongToken.   *)
(***************************************************************************)
EXTENDS Integers, Sequences

CONSTANTS
  PromptLen,          \* prompt_tokens.len()
  MaxNewTokens,       \* RequestConfig::max_new_tokens
  SpeculativeDrafts   \* SchedulerConfig::speculative_drafts

ASSUME PromptLenAssumption == PromptLen \in Nat \ {0}
ASSUME MaxNewTokensAssumption == MaxNewTokens \in Nat \ {0}
ASSUME SpeculativeDraftsAssumption == SpeculativeDrafts \in Nat

VARIABLES
  kv,              \* tokens committed to the sequence's cache, in order
  reserved,        \* position up to which the last append reserved rows
  prompt_position, \* Qwen36Request::prompt_position
  generated,       \* Qwen36Request::generated_tokens
  last_token,      \* Qwen36Request::last_token
  frontier,        \* Qwen36Request::spec_frontier (its token)
  drafter,         \* which of mtp_state and dflash2_state is present
  spec_ready,      \* Qwen36Request::spec_ready
  spec_started,    \* Qwen36Request::spec_started
  lifecycle,       \* Qwen36Request::lifecycle
  stop             \* where the greedy stream ends by itself, and how

vars == <<kv, reserved, prompt_position, generated, last_token, frontier,
          drafter, spec_ready, spec_started, lifecycle, stop>>

NoToken == -2
WrongToken == -1
Tokens == Nat \cup {WrongToken}

MaxTokens == PromptLen + MaxNewTokens

\* The tokens are exactly the target's stream from its first position on.
Canonical(tokens) == \A i \in 1..Len(tokens) : tokens[i] = i - 1

\* The target's argmax after the rows in tokens: deterministic on the greedy
\* context, unpredictable (and never counted as right) on any other.
Target(tokens) == IF Canonical(tokens) THEN Len(tokens) ELSE WrongToken

Min2(a, b) == IF a <= b THEN a ELSE b

RemainingPromptTokens == PromptLen - prompt_position

(***************************************************************************)
(* Admission: a prefix of the prompt may come from the shared cache.  The  *)
(* MTP state is only built for an empty cache, the DFlash2 state also from *)
(* a retained snapshot; building either may fail, which leaves the request *)
(* without a frontier.                                                     *)
(***************************************************************************)
Init ==
  /\ prompt_position \in 0..(PromptLen - 1)
  /\ kv = [i \in 1..prompt_position |-> i - 1]
  /\ reserved = prompt_position
  /\ generated = <<>>
  /\ last_token = NoToken
  /\ \/ drafter = "none" /\ frontier = NoToken
     \/ drafter = "mtp" /\ frontier = WrongToken /\ prompt_position = 0
     \/ drafter = "dflash2" /\ frontier = WrongToken
  /\ spec_ready = FALSE
  /\ spec_started = FALSE
  /\ lifecycle = "Prefilling"
  /\ stop \in [at : PromptLen..MaxTokens, by : {"eos", "grammar"}]

(***************************************************************************)
(* speculative_draft_count and decode_input_token.                         *)
(***************************************************************************)

\* Mutant: the draft budget forgets the token held back as the frontier.
DraftCountIgnoringLag(started) == Min2(SpeculativeDrafts, MaxNewTokens - Len(generated))

SpeculativeDraftCount(started) ==
  LET remaining == MaxNewTokens - Len(generated)
  IN  Min2(SpeculativeDrafts, IF started THEN remaining - 1 ELSE remaining)

\* Mutant: past the prompt the input is the frontier, ready or not.
FrontierInputToken ==
  IF RemainingPromptTokens = 1 THEN prompt_position ELSE frontier

DecodeInputToken ==
  IF RemainingPromptTokens = 1 THEN prompt_position
  ELSE IF spec_ready THEN frontier ELSE last_token

SpecEligible ==
  /\ drafter # "none"
  /\ spec_ready
  /\ frontier # NoToken
  /\ stop.by = "grammar" => drafter = "dflash2"
  /\ SpeculativeDraftCount(spec_started) > 0

(***************************************************************************)
(* The loop over one request's samples in run_decode_phase: samples are    *)
(* applied one by one until one finishes the request; the rest is dropped. *)
(***************************************************************************)
Finishes(samples, k) ==
  \/ samples[k] = stop.at
  \/ Len(generated) + k = MaxNewTokens

\* Mutant: the loop over a cycle's samples does not stop at a finishing one.
ApplyAllSamples(samples) ==
  /\ generated' = generated \o samples
  /\ last_token' = IF samples # <<>> THEN samples[Len(samples)] ELSE last_token
  /\ prompt_position' =
       IF samples # <<>> /\ RemainingPromptTokens = 1 THEN PromptLen ELSE prompt_position
  /\ lifecycle' = IF samples = <<>> THEN lifecycle
                  ELSE IF Finishes(samples, Len(samples)) THEN "Finished" ELSE "Decoding"

ApplySamples(samples) ==
  \E n \in 0..Len(samples) :
    /\ \A k \in 1..(n - 1) : ~Finishes(samples, k)
    /\ n = Len(samples) \/ (n > 0 /\ Finishes(samples, n))
    /\ generated' = generated \o SubSeq(samples, 1, n)
    /\ last_token' = IF n > 0 THEN samples[n] ELSE last_token
    /\ prompt_position' =
         IF n > 0 /\ RemainingPromptTokens = 1 THEN PromptLen ELSE prompt_position
    /\ lifecycle' = IF n = 0 THEN lifecycle
                    ELSE IF Finishes(samples, n) THEN "Finished" ELSE "Decoding"

Live == lifecycle \in {"Prefilling", "Decoding"}

(***************************************************************************)
(* run_prefill_phase for this request: a chunk of the prompt, always short *)
(* of its last token.  The drafter's warm-up on the chunk may fail, which  *)
(* disables speculation for good.                                          *)
(***************************************************************************)
Prefill ==
  /\ lifecycle = "Prefilling"
  /\ \E chunk \in 1..(RemainingPromptTokens - 1) :
       /\ kv' = kv \o [i \in 1..chunk |-> prompt_position + i - 1]
       /\ reserved' = Len(kv) + chunk
       /\ prompt_position' = prompt_position + chunk
  /\ \/ UNCHANGED <<drafter, frontier, spec_ready>>
     \/ /\ drafter # "none"
        /\ drafter' = "none"
        /\ frontier' = NoToken
        /\ spec_ready' = FALSE
  /\ UNCHANGED <<generated, last_token, spec_started, lifecycle, stop>>

\* A failed catch-up or context append only ever drops the drafter.
DrafterMayFail == drafter' \in {drafter, "none"}

(***************************************************************************)
(* execute_decode, one row.  The row's input is committed to the cache and *)
(* sampled; with a tracked frontier the sample becomes the new frontier    *)
(* and, in lag mode, the old frontier is what is emitted.  A batch that    *)
(* fails ends in Cancel: the actor cancels every request of a failed tick. *)
(***************************************************************************)

\* Mutant: in lag mode the new sample is emitted instead of the frontier.
EmitsSample(tracked, sample) == sample

OrdinaryDecodeEmission(tracked, sample) ==
  IF tracked /\ spec_ready /\ spec_started THEN frontier ELSE sample

Decode ==
  /\ Live
  /\ RemainingPromptTokens <= 1
  /\ DecodeInputToken # NoToken
  /\ LET rows == Append(kv, DecodeInputToken)
         sample == Target(rows)
         tracked == frontier # NoToken /\ (drafter # "none" \/ spec_ready)
     IN  /\ kv' = rows
         /\ reserved' = Len(rows)
         /\ ApplySamples(<<OrdinaryDecodeEmission(tracked, sample)>>)
         /\ IF tracked
            THEN frontier' = sample /\ spec_ready' = TRUE
            ELSE UNCHANGED <<frontier, spec_ready>>
  /\ DrafterMayFail
  /\ UNCHANGED <<spec_started, stop>>

(***************************************************************************)
(* execute_speculative.  The cycle verifies the frontier and the drafts in *)
(* one pass, keeps the accepted prefix and leaves the target's next token  *)
(* as the frontier.  The very first cycle re-feeds the last emitted token, *)
(* so the first committed token is not emitted again.                      *)
(***************************************************************************)
Committed(accepted) ==
  [j \in 1..(accepted + 1) |->
     IF j = 1 THEN frontier
     ELSE IF Canonical(Append(kv, frontier)) THEN Len(kv) + j - 1 ELSE WrongToken]

\* Mutant: the first cycle repeats the token it re-feeds.
NeverSkipsFirst(committed) == committed

CycleSamples(committed) ==
  IF spec_started THEN committed ELSE Tail(committed)

\* The constrained selector yields no token once the tool grammar is complete:
\* later drafts cannot be accepted, and no next token replaces the frontier.
GrammarComplete(tokens) ==
  /\ stop.by = "grammar"
  /\ \E i \in 1..Len(tokens) : tokens[i] = stop.at

VerifyCycle ==
  /\ ~(spec_started /\ GrammarComplete(<<frontier>>))
  /\ \E accepted \in 0..SpeculativeDraftCount(spec_started) :
       LET committed == Committed(accepted)
       IN  /\ ~GrammarComplete(SubSeq(committed, 1, accepted))
           /\ kv' = kv \o committed
           /\ reserved' = Len(kv) + SpeculativeDraftCount(spec_started) + 1
           /\ frontier' = IF GrammarComplete(committed) THEN frontier
                          ELSE Target(kv \o committed)
           /\ ApplySamples(CycleSamples(committed))
  /\ DrafterMayFail

\* The pending frontier itself completes the tool call: it is emitted and no
\* verification runs.
FrontierCompletesGrammar ==
  /\ spec_started /\ GrammarComplete(<<frontier>>)
  /\ ApplySamples(<<frontier>>)
  /\ UNCHANGED <<kv, reserved, frontier, drafter>>

Speculate ==
  /\ Live
  /\ RemainingPromptTokens <= 1
  /\ SpecEligible
  /\ VerifyCycle \/ FrontierCompletesGrammar
  /\ spec_started' = TRUE
  /\ UNCHANGED <<spec_ready, stop>>

(***************************************************************************)
(* A speculative cycle that fails before it commits: the appended rows are *)
(* aborted and the request is requeued with its frontier.  A DFlash2       *)
(* request loses its drafter.  A failure between taking the frontier and   *)
(* the cycle itself (the grammar preview rejects it) loses the frontier.   *)
(***************************************************************************)
SpeculateFails ==
  /\ Live
  /\ RemainingPromptTokens <= 1
  /\ SpecEligible
  /\ \/ drafter = "dflash2" /\ drafter' = "none" /\ UNCHANGED frontier
     \/ stop.by = "grammar" /\ spec_started /\ frontier' = NoToken
        /\ UNCHANGED drafter
  /\ UNCHANGED <<kv, reserved, prompt_position, generated, last_token,
                 spec_ready, spec_started, lifecycle, stop>>

\* The service cancels every request after a failed tick.
Cancel ==
  /\ Live
  /\ lifecycle' = "Cancelled"
  /\ UNCHANGED <<kv, reserved, prompt_position, generated, last_token, frontier,
                 drafter, spec_ready, spec_started, stop>>

Tick == Prefill \/ Decode \/ Speculate

Next == Tick \/ SpeculateFails \/ Cancel

(***************************************************************************)
(* The actor keeps ticking while a request is live, and each tick runs the *)
(* request once it is at the head of its queue.                            *)
(***************************************************************************)
Spec == Init /\ [][Next]_vars /\ WF_vars(Tick)

--------------------------------------------------------------------------------
(***************************************************************************)
(* Properties.                                                             *)
(***************************************************************************)

\* Every variable of the request stays in its type.
TypeOK ==
  /\ kv \in Seq(Tokens)
  /\ reserved \in Nat
  /\ prompt_position \in 0..PromptLen
  /\ generated \in Seq(Tokens)
  /\ last_token \in Tokens \cup {NoToken}
  /\ frontier \in Tokens \cup {NoToken}
  /\ drafter \in {"none", "mtp", "dflash2"}
  /\ spec_ready \in BOOLEAN
  /\ spec_started \in BOOLEAN
  /\ lifecycle \in {"Prefilling", "Decoding", "Finished", "Cancelled"}
  /\ stop \in [at : PromptLen..MaxTokens, by : {"eos", "grammar"}]

\* Whatever mix of ordinary and speculative ticks ran, and whenever the drafter
\* was lost, the completion is the greedy stream: no token of it is skipped,
\* repeated or invented.
LosslessCompletion ==
  \A i \in 1..Len(generated) : generated[i] = PromptLen + i - 1

\* No append ever reserves rows past prompt + max_new_tokens, the capacity the
\* request was admitted with, even when all drafts of a cycle are rejected.
AppendWithinAdmission == reserved <= MaxTokens

\* A request finishes exactly when its last token is the stream's own stop token
\* or the token budget is used up, and nothing is emitted after either.
StopsExactlyOnce ==
  /\ Len(generated) <= MaxNewTokens
  /\ \A i \in 1..(Len(generated) - 1) : generated[i] # stop.at
  /\ lifecycle = "Finished" =>
       generated # <<>> /\ (\/ Len(generated) = MaxNewTokens
                            \/ generated[Len(generated)] = stop.at)
  /\ Live /\ generated # <<>> =>
       Len(generated) < MaxNewTokens /\ generated[Len(generated)] # stop.at

\* The books of the two decode modes agree with the cache: the cache holds a prefix
\* of the greedy stream, one row behind the emitted tokens before the first cycle
\* and level with them afterwards, and a held frontier is the token of the row the
\* next append writes.
FrontierLag ==
  /\ Canonical(kv)
  /\ spec_started => spec_ready
  /\ frontier # NoToken => drafter # "none" \/ spec_ready
  /\ lifecycle = "Prefilling" =>
       /\ generated = <<>> /\ ~spec_ready
       /\ Len(kv) = prompt_position /\ prompt_position < PromptLen
  /\ lifecycle = "Decoding" =>
       /\ prompt_position = PromptLen
       /\ Len(generated) \in 1..(MaxNewTokens - 1)
       /\ last_token = PromptLen + Len(generated) - 1 /\ last_token # stop.at
       /\ Len(kv) = PromptLen + Len(generated) - (IF spec_started THEN 0 ELSE 1)
       /\ frontier # NoToken => spec_ready /\ frontier = Len(kv)

\* A request that keeps its frontier is carried to its end: no cycle, not even one
\* that emits nothing, can be repeated for ever.
Completes ==
  <>(\/ ~Live
     \/ spec_ready /\ frontier = NoToken)
================================================================================
