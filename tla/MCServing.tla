----------------------------- MODULE MCServing ------------------------------
(***************************************************************************)
(* The three front ends of an engine for TLC: BatchService, ChatService    *)
(* and the generation sessions.  They do not meet; a behaviour steps one   *)
(* of them and the others stay where they began.                           *)
(***************************************************************************)
EXTENDS BatchService, GenerationSession, MCChatService

VARIABLE part

\* A prompt of more than one chunk, a completion of several ticks, and no completion.
MCShapes ==
  {[prompt |-> 3, max_new |-> 2], [prompt |-> 1, max_new |-> 3], [prompt |-> 1, max_new |-> 0]}

\* Characters are 1, 2 and 3.  Overlapping sequences: with a repeated start, and one that
\* extends another; tokens of one to three characters.
MCServingStops == MCStopSequences \cup {<<2, 3>>, <<2, 3, 1>>}
MCChunks == {<<1>>, <<2>>, <<3>>, <<1, 1>>, <<1, 2>>, <<2, 3>>, <<2, 3, 1>>, <<3, 1>>}

MCInit ==
  /\ part \in {"service", "session", "batch"}
  /\ ChatInit
  /\ part # "service" => ~speculative
  /\ SessionInit
  /\ part # "session" => session = "Qwen36"
  /\ Init

ServiceNext == part = "service" /\ ChatNext /\ UNCHANGED <<part, sessionVars, vars>>
SessionsNext == part = "session" /\ SessionNext /\ UNCHANGED <<part, chatVars, vars>>
BatchNext == part = "batch" /\ Next /\ UNCHANGED <<part, chatVars, sessionVars>>

MCSpec ==
  /\ MCInit
  /\ [][ServiceNext \/ SessionsNext \/ BatchNext]_<<part, chatVars, sessionVars, vars>>
  /\ part = "session" => SessionFairness
  /\ part = "batch" => Fairness
=============================================================================
