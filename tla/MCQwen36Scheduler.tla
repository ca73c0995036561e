--------------------------- MODULE MCQwen36Scheduler ---------------------------
(***************************************************************************)
(* Instances of Qwen36Scheduler for TLC.                                   *)
(***************************************************************************)
EXTENDS Qwen36Scheduler

\* With PageTokens = 2: a prompt with no page-aligned prefix, one with a checkpoint at
\* 4 that its second chunk of 3 would step over, and a request that is finished when added.
MCChatShapes ==
  {[prompt |-> 2, max_new |-> 1], [prompt |-> 6, max_new |-> 2], [prompt |-> 1, max_new |-> 0]}

MCLongChats == {[prompt |-> 2, max_new |-> 3], [prompt |-> 1, max_new |-> 2]}

MCOneChat == {[prompt |-> 3, max_new |-> 1]}

\* A page-aligned prefix and an unaligned one; suffixes of one and several tokens.
MCDecisionShapes ==
  {[prefix |-> 2, suffixes |-> <<3, 1, 2>>], [prefix |-> 3, suffixes |-> <<2, 1>>]}

MCOneDecision == {[prefix |-> 1, suffixes |-> <<1, 2>>]}

\* The same question behind a prefix that only forks where prefixes are retained.
MCForkableOrNot == MCOneDecision \cup {[prefix |-> 2, suffixes |-> <<1, 2>>]}

MCNone == {}
================================================================================
