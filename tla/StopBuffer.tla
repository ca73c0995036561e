------------------------------- MODULE StopBuffer -------------------------------
(***************************************************************************)
(* Incremental stop-sequence matching (crates/eider-runtime/src/stop.rs).  *)
(* A text is a sequence of characters; the buffer is the text it holds     *)
(* back because it may be the start of a stop sequence.                    *)
(***************************************************************************)
EXTENDS Integers, Sequences, FiniteSetsExt

CONSTANT StopSequences   \* the configured stop sequences

\* A text is a sequence of code points.  GenerationConfig::validate and
\* validate_stop_sequences reject an empty stop sequence.
ASSUME StopSequencesAssumption ==
  StopSequences \subseteq Seq(Nat) /\ \A s \in StopSequences : s # <<>>

NoMatch == <<>>

OccursAt(sequence, text, i) ==
  /\ i + Len(sequence) - 1 <= Len(text)
  /\ SubSeq(text, i, i + Len(sequence) - 1) = sequence

Occurrences(text) ==
  {m \in (1..Len(text)) \X StopSequences : OccursAt(m[2], text, m[1])}

EndOf(m) == m[1] + Len(m[2]) - 1

\* The occurrences that are complete first as the text grows.
FirstComplete(text) ==
  {m \in Occurrences(text) : \A n \in Occurrences(text) : EndOf(m) <= EndOf(n)}

\* The earliest occurrence, and the longest sequence of those that start there.
EarliestMatch(text) ==
  CHOOSE m \in Occurrences(text) : \A n \in Occurrences(text) :
    m[1] < n[1] \/ (m[1] = n[1] /\ Len(m[2]) >= Len(n[2]))

StartsWith(sequence, prefix) ==
  Len(prefix) <= Len(sequence) /\ SubSeq(sequence, 1, Len(prefix)) = prefix

Suffix(text, n) == SubSeq(text, Len(text) - n + 1, Len(text))

\* Mutant: only the last character is considered.
HoldsOneCharacter(text) ==
  Max({n \in 0..1 : n <= Len(text) /\ (n = 0 \/
         \E s \in StopSequences : StartsWith(s, Suffix(text, n)))})

\* The longest suffix that starts a stop sequence.
Holdback(text) ==
  Max({0} \cup {n \in 1..Len(text) : \E s \in StopSequences : StartsWith(s, Suffix(text, n))})

\* Mutant: the first character of the match is handed out.
PushLeaksOne(pending, chunk) ==
  LET text == pending \o chunk
  IN  IF Occurrences(text) # {}
      THEN [text |-> SubSeq(text, 1, EarliestMatch(text)[1]),
            matched |-> EarliestMatch(text)[2], pending |-> <<>>]
      ELSE [text |-> SubSeq(text, 1, Len(text) - Holdback(text)),
            matched |-> NoMatch, pending |-> Suffix(text, Holdback(text))]

\* push: the text that is safe to emit, the sequence that matched, the new buffer.
Push(pending, chunk) ==
  LET text == pending \o chunk
  IN  IF Occurrences(text) # {}
      THEN [text |-> SubSeq(text, 1, EarliestMatch(text)[1] - 1),
            matched |-> EarliestMatch(text)[2], pending |-> <<>>]
      ELSE [text |-> SubSeq(text, 1, Len(text) - Holdback(text)),
            matched |-> NoMatch, pending |-> Suffix(text, Holdback(text))]
================================================================================
