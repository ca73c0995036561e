----------------------------- MODULE MCChatService -----------------------------
(***************************************************************************)
(* Instances of ChatService for TLC: characters are 1 and 2.               *)
(***************************************************************************)
EXTENDS ChatService

\* With a repeated start, and one that ends with another.
MCStopSequences == {<<1, 1, 2>>, <<2, 2>>, <<1, 2, 2>>}

\* Tokens without an event, of one or two characters, of two events, and with a tool
\* call between texts.
MCTokenEvents ==
  {<<>>, <<Reasoning>>, <<Text(<<1>>)>>, <<Text(<<2>>)>>, <<Text(<<1, 2>>)>>,
   <<Text(<<1>>), ToolCall, Text(<<2>>)>>}

MCFinalEvents == {<<>>, <<Text(<<2>>)>>, <<ToolCall>>}
================================================================================
