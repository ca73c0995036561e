------------------------------ MODULE ChatService ------------------------------
(***************************************************************************)
(* What Qwen36ChatService (crates/infer/src/execution/serving.rs) makes of *)
(* the tokens the scheduler generates for one request: it decodes them,    *)
(* filters the text through the stop buffer and the first tool call, and   *)
(* settles why the response ended.  A tick brings one token, or several    *)
(* when the request runs speculatively.                                    *)
(*                                                                         *)
(* The output codec (eider-runtime/src/chat_output.rs) is abstracted to    *)
(* the events a token may lead to.                                         *)
(***************************************************************************)
EXTENDS StopBuffer, FinishReasons, Queues

CONSTANTS
  TokenEvents,   \* the events one token may decode to
  FinalEvents,   \* the events the codec may still hold at the end
  MaxBatch,      \* the most tokens of one tick: speculative_drafts + 1
  MaxTokens      \* bound: RequestConfig::max_new_tokens

VARIABLES
  speculative, \* whether the scheduler may run this request speculatively
  tokens,     \* usage.completion_tokens
  events,     \* every event the codec has produced
  withheld,   \* ResponseFilter::stop, the text it holds back
  saw_tool,   \* ResponseFilter::saw_tool_calls
  output,     \* the deltas handed to the actor
  reason      \* why the request left the service, or None while it is retained

chatVars == <<speculative, tokens, events, withheld, saw_tool, output, reason>>

Text(chars) == <<"Text", chars>>
Reasoning == <<"Reasoning", <<>>>>
ToolCall == <<"ToolCall", <<>>>>

Stop(sequence) == <<"Stop", sequence>>
Cancelled == <<"Cancelled", <<>>>>

Events == ({"Text"} \X Seq(Nat)) \cup {Reasoning, ToolCall}

ASSUME ChatAssumption ==
  /\ TokenEvents \subseteq Seq(Events) /\ FinalEvents \subseteq Seq(Events)
  /\ MaxBatch \in Nat \ {0} /\ MaxTokens \in Nat \ {0}

ChatInit ==
  /\ speculative \in BOOLEAN
  /\ tokens = 0 /\ events = <<>> /\ withheld = <<>>
  /\ saw_tool = FALSE /\ output = <<>> /\ reason = None

--------------------------------------------------------------------------------
(***************************************************************************)
(* ResponseFilter, on a record of the state a tick changes: returned is    *)
(* what apply returns, terminal the tick's verdict on the request.         *)
(***************************************************************************)

AppendText(deltas, chars) == IF chars = <<>> THEN deltas ELSE Append(deltas, Text(chars))

Flush(f) == [f EXCEPT !.output = AppendText(@, f.pending), !.pending = <<>>]

PushText(f, chars) ==
  LET stopped == Push(f.pending, chars)
  IN  IF f.saw_tool THEN f
      ELSE [f EXCEPT !.output = AppendText(@, stopped.text), !.pending = stopped.pending,
                     !.returned = IF stopped.matched = NoMatch THEN @ ELSE Stop(stopped.matched)]

PushToolCall(f) ==
  LET flushed == Flush(f)
  IN  [flushed EXCEPT !.output = Append(@, ToolCall), !.saw_tool = TRUE,
                      !.returned = ToolCalls]

\* One event of apply, which returns at a match and at a tool call.
ApplyEvent(f, event) ==
  IF f.returned # None THEN f
  ELSE IF event[1] = "Text" THEN PushText(f, event[2])
  ELSE IF event = ToolCall THEN PushToolCall(f)
  ELSE IF f.saw_tool THEN f
  ELSE [f EXCEPT !.output = Append(@, Reasoning)]

Apply(f, batch) == FoldLeft(ApplyEvent, [f EXCEPT !.returned = None], batch)

\* One token of the loop over scheduled.generated: the later verdict wins.
ApplyToken(f, token) ==
  LET applied == Apply(f, token.events)
  IN  [applied EXCEPT !.terminal =
         IF applied.returned # None THEN applied.returned
         ELSE IF token.finish # None THEN token.finish ELSE @]

\* Mutant: the held-back text is not flushed.
FinishWithoutFlush(f, final) ==
  LET applied == Apply(f, final)
  IN  IF f.terminal[1] = "Stop" THEN f
      ELSE IF applied.returned # None THEN [applied EXCEPT !.terminal = applied.returned]
      ELSE IF applied.saw_tool THEN [applied EXCEPT !.terminal = ToolCalls]
      ELSE applied

\* The loop over terminal: what the codec still holds, then the held-back text.
FinishTerminal(f, final) ==
  LET applied == Apply(f, final)
  IN  IF f.terminal[1] = "Stop" THEN f
      ELSE IF applied.returned # None THEN [applied EXCEPT !.terminal = applied.returned]
      ELSE IF applied.saw_tool THEN [applied EXCEPT !.terminal = ToolCalls]
      ELSE Flush(applied)

--------------------------------------------------------------------------------
(***************************************************************************)
(* The service's operations.                                               *)
(***************************************************************************)

\* The scheduler finishes a request with its last token, at the latest at the limit.
Batches ==
  {batch \in UNION {[1..n -> [events : TokenEvents, finish : {None, Eos, Length, ToolCalls}]] :
                      n \in 1..(IF speculative THEN MaxBatch ELSE 1)} :
     /\ \A i \in 1..(Len(batch) - 1) : batch[i].finish = None
     /\ tokens + Len(batch) <= MaxTokens
     /\ Last(batch).finish = Length => tokens + Len(batch) = MaxTokens
     /\ tokens + Len(batch) = MaxTokens => Last(batch).finish # None}

\* tick_with_lifecycle for a tick that generates tokens of this request.
ChatTick(batch, final) ==
  LET f == FoldLeft(ApplyToken,
             [pending |-> withheld, saw_tool |-> saw_tool, output |-> output,
              returned |-> None, terminal |-> None], batch)
      \* A truncated stream discards a partial tool call.
      held == IF f.terminal = Length THEN Without(final, {ToolCall}) ELSE final
      end == IF f.terminal = None THEN f ELSE FinishTerminal(f, held)
      closed == f.terminal # None /\ f.terminal[1] # "Stop"
  IN  /\ reason = None
      /\ withheld' = end.pending
      /\ saw_tool' = end.saw_tool
      /\ output' = end.output
      /\ reason' = end.terminal
      /\ events' = events \o FlattenSeq([i \in DOMAIN batch |-> batch[i].events])
                     \o (IF closed THEN held ELSE <<>>)
      /\ tokens' = tokens + Len(batch)
      /\ UNCHANGED speculative

\* A request added with max_new_tokens = 0 is finished without a token: neither the
\* codec nor the filter holds anything.
TickFinishedRequest ==
  /\ reason = None /\ tokens = 0
  /\ reason' = Length
  /\ UNCHANGED <<speculative, tokens, events, withheld, saw_tool, output>>

CancelRequest ==
  /\ reason = None
  /\ reason' = Cancelled
  /\ UNCHANGED <<speculative, tokens, events, withheld, saw_tool, output>>

ChatNext ==
  \/ \E batch \in Batches, final \in FinalEvents : ChatTick(batch, final)
  \/ TickFinishedRequest
  \/ CancelRequest

ChatSpec == ChatInit /\ [][ChatNext]_chatVars

--------------------------------------------------------------------------------
(***************************************************************************)
(* Properties.                                                             *)
(***************************************************************************)

TextOf(deltas) ==
  FlattenSeq([i \in DOMAIN deltas |-> IF deltas[i][1] = "Text" THEN deltas[i][2] ELSE <<>>])

Before(deltas, event) ==
  IF event \in ToSet(deltas)
  THEN SubSeq(deltas, 1, SelectInSeq(deltas, LAMBDA e : e = event) - 1) ELSE deltas

\* The text of the response: what the model wrote before its first tool call.
Written == TextOf(Before(events, ToolCall))

\* As soon as the text of the response completes a stop sequence, what the client gets
\* has ended in front of the start of that sequence, however the text is split into
\* tokens: none of its characters and nothing behind it is handed out.
NothingAfterStop ==
  \A m \in FirstComplete(Written) : IsPrefix(TextOf(output), SubSeq(Written, 1, m[1] - 1))

\* With one token to a tick, no character from the start of the first completed stop
\* sequence on reaches the client, however the text is split into tokens.
OrdinaryStopEnds == ~speculative => NothingAfterStop

\* With one token to a tick, a response that ends without a stop sequence has delivered
\* all its text, the held-back part and the codec's last events included; one whose
\* text has a stop sequence never ends for another reason.
TextComplete ==
  ~speculative /\ reason \in {Eos, Length, ToolCalls} => TextOf(output) = Written

================================================================================
