------------------------------- MODULE Queues -------------------------------
(***************************************************************************)
(* Filtering a queue.  The definition is a recursive function over the     *)
(* positions of the queue, so that QueueTheorems can prove what it keeps.  *)
(***************************************************************************)
EXTENDS Integers, Sequences, SequencesExt

\* VecDeque::retain and Iterator::filter: the members of s that are in S, in order.
Keep(s, S) ==
  LET kept[i \in 0..Len(s)] ==
        IF i = 0 THEN <<>>
        ELSE IF s[i] \in S THEN Append(kept[i - 1], s[i]) ELSE kept[i - 1]
  IN  kept[Len(s)]

\* The members of s that are not in S, in order.
Without(s, S) == Keep(s, ToSet(s) \ S)
=============================================================================
