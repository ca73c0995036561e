--------------------------- MODULE GenerationSession ---------------------------
(***************************************************************************)
(* The two single-request generation sessions of                           *)
(* crates/infer/src/execution/generation.rs and the caller's               *)
(* "while let Some(token) = session.next_token()" loop.                    *)
(*                                                                         *)
(* Qwen36GenerationSession drives a scheduler with one request, which      *)
(* decides EOS and the token limit; Nemotron3GenerationSession decides     *)
(* both itself.  Both stop early on a stop sequence in the decoded text.   *)
(* The tokenizer is external: a token decodes to a chunk or, in the middle *)
(* of a character, to nothing yet.                                         *)
(***************************************************************************)
EXTENDS StopBuffer, FinishReasons, SequencesExt

CONSTANTS
  Chunks,        \* what one token may decode to
  MaxNewTokens   \* GenerationConfig::max_new_tokens

ASSUME SessionAssumption == Chunks \subseteq Seq(Nat) /\ MaxNewTokens \in Nat

VARIABLES
  session,        \* which of the two sessions this is
  request,        \* Qwen3.6: whether the scheduler still runs the request
  generated,      \* generated_tokens
  decoded,        \* all text the tokens decoded to
  pending,        \* stop_buffer
  text,           \* all text handed to the caller
  finish_reason,  \* the session's finish_reason
  caller          \* whether the caller still asks for tokens

sessionVars == <<session, request, generated, decoded, pending, text, finish_reason, caller>>

StopSequence(s) == <<"StopSequence", s>>

\* A session for no tokens is finished when it is created.
SessionInit ==
  /\ session \in {"Qwen36", "Nemotron3"}
  /\ request = IF MaxNewTokens = 0 THEN "Finished" ELSE "Live"
  /\ generated = 0
  /\ decoded = <<>> /\ pending = <<>> /\ text = <<>>
  /\ finish_reason = IF MaxNewTokens = 0 THEN Length ELSE None
  /\ caller = "asking"

NextTokenDone ==
  /\ caller = "asking" /\ finish_reason # None
  /\ caller' = "done"
  /\ UNCHANGED <<session, request, generated, decoded, pending, text, finish_reason>>

\* What the request's own end says of the sampled token.
SampledReason(eos) ==
  IF eos THEN Eos ELSE IF generated + 1 = MaxNewTokens THEN Length ELSE None

\* The reason after the decode step: a chunk replaces it by what the stop buffer says.
MatchReason(output) ==
  IF output.matched = NoMatch THEN None ELSE StopSequence(output.matched)

\* Mutant: a stop sequence on the last token is reported as the length limit.
LimitFirst(reason) == IF generated + 1 = MaxNewTokens THEN Length ELSE reason

\* Mutant: the token limit is never a reason.
NoLimit(reason) == reason

\* Nemotron3 adds the token limit after the decode step.
LimitReason(reason) ==
  IF reason = None /\ generated + 1 = MaxNewTokens THEN Length ELSE reason

\* A stop sequence ends the session while the scheduler still runs the request.
EndedRequest(reason, sampled) ==
  IF sampled # None THEN "Finished" ELSE IF reason # None THEN "Cancelled" ELSE request

\* The token's text and reason are settled; the held-back text is flushed for every
\* reason but a stop sequence.
Emit(output, reason) ==
  /\ finish_reason' = reason
  /\ text' = text \o output.text \o (IF reason \in {Eos, Length} THEN output.pending ELSE <<>>)
  /\ pending' = IF reason \in {Eos, Length} THEN <<>> ELSE output.pending

\* next_token returns a token: EOS, a chunk, or a token that completes no character.
\* A Nemotron 3 sequence is admitted for max_new_tokens and decodes no more.
NextToken(eos, chunk) ==
  /\ caller = "asking" /\ finish_reason = None
  /\ IF session = "Qwen36" THEN request = "Live" ELSE generated < MaxNewTokens
  /\ LET silent == [text |-> <<>>, matched |-> NoMatch, pending |-> pending]
         output == IF eos \/ chunk = <<>> THEN silent ELSE Push(pending, chunk)
         sampled == SampledReason(eos)
         kept == IF eos \/ chunk = <<>> THEN sampled ELSE MatchReason(output)
         reason == IF session = "Qwen36" THEN kept
                   ELSE LimitReason(IF eos THEN Eos ELSE MatchReason(output))
     IN  /\ Emit(output, reason)
         /\ request' = IF session = "Qwen36" THEN EndedRequest(reason, sampled) ELSE request
  /\ generated' = generated + 1
  /\ decoded' = IF eos THEN decoded ELSE decoded \o chunk
  /\ UNCHANGED <<session, caller>>

\* The scheduler has nothing left to run: each tick returns no token and the loop in
\* next_token goes round.
EmptyTick ==
  /\ caller = "asking" /\ finish_reason = None
  /\ session = "Qwen36" /\ request = "Finished"
  /\ UNCHANGED sessionVars

SessionNext ==
  \/ NextTokenDone
  \/ \E eos \in BOOLEAN, chunk \in Chunks \cup {<<>>} : NextToken(eos, chunk)
  \/ EmptyTick

\* The caller asks until it gets None, and a token always comes out of a live model.
SessionFairness == WF_sessionVars(SessionNext)

SessionSpec == SessionInit /\ [][SessionNext]_sessionVars /\ SessionFairness

--------------------------------------------------------------------------------
(***************************************************************************)
(* Properties.                                                             *)
(***************************************************************************)

\* Text handed out plus text held back is what was decoded, to the character, until a
\* stop sequence cuts it, and a session that ends otherwise has held nothing back: for
\* every split of the text into tokens.
TextAccounted ==
  /\ finish_reason = None => text \o pending = decoded
  /\ finish_reason \in {Eos, Length} => text = decoded /\ pending = <<>>
  /\ finish_reason[1] = "StopSequence" => IsPrefix(text \o finish_reason[2], decoded)

\* No stop sequence is ever handed out, also not in pieces, and none that is complete
\* is missed: the session has ended with the first token that completed one, and
\* reports the longest of those that start at that place.
StopNeverMissed ==
  /\ Occurrences(text) = {}
  /\ finish_reason[1] # "StopSequence" => Occurrences(decoded) = {}
  /\ finish_reason[1] = "StopSequence" =>
       /\ Occurrences(text \o finish_reason[2]) # {}
       /\ \A s \in StopSequences :
            OccursAt(s, decoded, Len(text) + 1) => Len(s) <= Len(finish_reason[2])

\* A Nemotron 3 caller's loop ends after at most max_new_tokens tokens.
NemotronSessionEnds == session = "Nemotron3" ~> caller = "done"

\* "Generates the next token, or returns None after the session finishes": the caller's
\* loop over next_token ends for both sessions.
SessionEnds == <>(caller = "done")
================================================================================
