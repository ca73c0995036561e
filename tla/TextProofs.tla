----------------------------- MODULE TextProofs ------------------------------
(***************************************************************************)
(* Proofs about StopBuffer, GenerationSession and ChatService: for any     *)
(* stop sequences, any split of the text into tokens and any token limit,  *)
(* no text is lost and no stop sequence is handed out or missed.           *)
(***************************************************************************)
EXTENDS GenerationSession, ChatService, QueueTheorems, SequenceTheorems, TLAPS

Texts == Seq(Nat)

(***************************************************************************)
(* Where a stop sequence occurs.                                           *)
(***************************************************************************)
LEMMA StopShape ==
  ASSUME NEW s \in StopSequences
  PROVE  s \in Texts /\ s # <<>> /\ Len(s) \in Nat \ {0}
BY StopSequencesAssumption DEF Texts

\* Part of a text, character by character.
LEMMA Part ==
  ASSUME NEW x \in Texts, NEW m \in Nat \ {0}, NEW n \in Nat, n <= Len(x), m <= n + 1
  PROVE  /\ SubSeq(x, m, n) \in Texts /\ Len(SubSeq(x, m, n)) = n - m + 1
         /\ \A k \in 1..(n - m + 1) : SubSeq(x, m, n)[k] = x[m + k - 1]
<1>1. Len(x) \in Nat /\ \A i \in m..n : x[i] \in Nat BY DEF Texts
<1> QED BY <1>1, SubSeqProperties DEF Texts

\* An occurrence, character by character.
LEMMA OccursPointwise ==
  ASSUME NEW s \in StopSequences, NEW x \in Texts, NEW i \in Nat \ {0}
  PROVE  OccursAt(s, x, i) <=>
           i + Len(s) - 1 <= Len(x) /\ \A k \in 1..Len(s) : x[i + k - 1] = s[k]
<1> DEFINE n == i + Len(s) - 1
           y == SubSeq(x, i, n)
<1>1. s \in Texts /\ Len(s) \in Nat \ {0} BY StopShape
<1>2. n \in Nat /\ i <= n + 1 /\ n - i + 1 = Len(s) BY <1>1
<1>3. ASSUME n <= Len(x) PROVE y = s <=> \A k \in 1..Len(s) : x[i + k - 1] = s[k]
  <2>1. y \in Texts /\ Len(y) = Len(s) /\ \A k \in 1..Len(s) : y[k] = x[i + k - 1]
    BY <1>2, <1>3, Part
  <2> HIDE DEF y, n
  <2>2. (\A k \in 1..Len(s) : x[i + k - 1] = s[k]) => y = s
    BY <1>1, <2>1, SeqEqual DEF Texts
  <2> QED BY <2>1, <2>2
<1> QED BY <1>3 DEF OccursAt

\* The start of a stop sequence, character by character.
LEMMA StartsPointwise ==
  ASSUME NEW s \in StopSequences, NEW p \in Texts
  PROVE  StartsWith(s, p) <=> Len(p) <= Len(s) /\ \A k \in 1..Len(p) : s[k] = p[k]
<1> DEFINE y == SubSeq(s, 1, Len(p))
<1>1. s \in Texts /\ Len(s) \in Nat /\ Len(p) \in Nat BY StopShape DEF Texts
<1>2. ASSUME Len(p) <= Len(s) PROVE y = p <=> \A k \in 1..Len(p) : s[k] = p[k]
  <2>1. y \in Texts /\ Len(y) = Len(p) /\ \A k \in 1..Len(p) : y[k] = s[k]
    BY <1>1, <1>2, Part
  <2> HIDE DEF y
  <2>2. (\A k \in 1..Len(p) : s[k] = p[k]) => y = p BY <1>1, <2>1, SeqEqual DEF Texts
  <2> QED BY <2>1, <2>2
<1> QED BY <1>2 DEF StartsWith

\* Two texts, one behind the other.
LEMMA Joined ==
  ASSUME NEW x \in Texts, NEW y \in Texts
  PROVE  /\ x \o y \in Texts /\ Len(x \o y) = Len(x) + Len(y)
         /\ Len(x) \in Nat /\ Len(y) \in Nat
         /\ \A k \in 1..Len(x) : (x \o y)[k] = x[k]
         /\ \A k \in 1..Len(y) : (x \o y)[Len(x) + k] = y[k]
         /\ \A k \in 1..(Len(x) + Len(y)) : k > Len(x) => (x \o y)[k] = y[k - Len(x)]
BY ConcatProperties DEF Texts

\* Three texts are joined in either order.
LEMMA Regrouped ==
  ASSUME NEW x \in Texts, NEW y \in Texts, NEW z \in Texts
  PROVE  (x \o y) \o z = x \o (y \o z)
BY ConcatAssociative DEF Texts

\* earliest_match finds the earliest occurrence, and the longest sequence of those there.
LEMMA EarliestExists ==
  ASSUME NEW x \in Texts, Occurrences(x) # {}
  PROVE  LET m == EarliestMatch(x) IN
         /\ m[1] \in 1..Len(x) /\ m[2] \in StopSequences /\ OccursAt(m[2], x, m[1])
         /\ \A i \in 1..Len(x), s \in StopSequences : OccursAt(s, x, i) =>
              m[1] < i \/ (m[1] = i /\ Len(m[2]) >= Len(s))
<1> DEFINE There(i, s) == OccursAt(s, x, i)
           L == Len(x)
<1>1. L \in Nat /\ \A s \in StopSequences : Len(s) \in Nat \ {0} BY StopShape DEF Texts
<1>2. \A m : m \in Occurrences(x) <=>
        \E i \in 1..L, s \in StopSequences : m = <<i, s>> /\ There(i, s)
  BY DEF Occurrences
<1>3. \A i \in 1..L, s \in StopSequences : There(i, s) => Len(s) <= L
  BY <1>1, OccursPointwise
<1> HIDE DEF There
<1>4. PICK i \in 1..L : /\ \E s \in StopSequences : There(i, s)
                        /\ \A j \in 1..L, s \in StopSequences : There(j, s) => i <= j
  <2> DEFINE T == {j \in 1..L : \E s \in StopSequences : There(j, s)}
  <2>1. T \in SUBSET Nat /\ T # {} BY <1>1, <1>2
  <2>2. PICK j \in T : \A k \in T : j <= k
    <3> HIDE DEF T
    <3> QED BY <2>1, LeastNat
  <2> QED BY <2>2
<1>5. PICK s \in StopSequences : /\ There(i, s)
                                 /\ \A u \in StopSequences : There(i, u) => Len(s) >= Len(u)
  <2> DEFINE T == {d \in 0..L : \E u \in StopSequences : There(i, u) /\ Len(u) = L - d}
  <2>1. \A u \in StopSequences : There(i, u) => L - Len(u) \in T BY <1>1, <1>3
  <2>2. T \in SUBSET Nat /\ T # {}
    <3>1. PICK u \in StopSequences : There(i, u) BY <1>4
    <3>2. L - Len(u) \in T BY <2>1, <3>1
    <3>3. T \in SUBSET Nat OBVIOUS
    <3> HIDE DEF T
    <3> QED BY <3>2, <3>3
  <2>3. PICK d \in T : \A k \in T : d <= k
    <3> HIDE DEF T
    <3> QED BY <2>2, LeastNat
  <2>4. PICK u \in StopSequences : There(i, u) /\ Len(u) = L - d BY <2>3
  <2>5. \A v \in StopSequences : There(i, v) => d <= L - Len(v)
    <3> HIDE DEF T
    <3> QED BY <2>1, <2>3
  <2>6. \A v \in StopSequences : There(i, v) => Len(v) <= Len(u) BY <1>1, <2>3, <2>4, <2>5
  <2> QED BY <2>4, <2>6
<1> DEFINE Best(m) == \A n \in Occurrences(x) :
             m[1] < n[1] \/ (m[1] = n[1] /\ Len(m[2]) >= Len(n[2]))
<1>6. <<i, s>> \in Occurrences(x) BY <1>2, <1>5
<1>7. Best(<<i, s>>)
  <2> SUFFICES ASSUME NEW n \in Occurrences(x)
               PROVE  i < n[1] \/ (i = n[1] /\ Len(s) >= Len(n[2]))
    OBVIOUS
  <2>1. PICK j \in 1..L, u \in StopSequences : n = <<j, u>> /\ There(j, u) BY <1>2
  <2>2. i <= j BY <1>4, <2>1
  <2>3. i = j => Len(s) >= Len(u) BY <1>5, <2>1
  <2> QED BY <1>1, <2>1, <2>2, <2>3
<1>8. EarliestMatch(x) = CHOOSE m \in Occurrences(x) : Best(m) BY DEF EarliestMatch
<1> HIDE DEF Best
<1>9. EarliestMatch(x) \in Occurrences(x) /\ Best(EarliestMatch(x)) BY <1>6, <1>7, <1>8
<1> DEFINE m == EarliestMatch(x)
<1>10. m[1] \in 1..L /\ m[2] \in StopSequences /\ There(m[1], m[2])
  <2> HIDE DEF m
  <2>1. m \in Occurrences(x) BY <1>9 DEF m
  <2>2. PICK j \in 1..L, u \in StopSequences : m = <<j, u>> /\ There(j, u) BY <1>2, <2>1
  <2> QED BY <2>2
<1>11. ASSUME NEW j \in 1..L, NEW u \in StopSequences, There(j, u)
       PROVE  m[1] < j \/ (m[1] = j /\ Len(m[2]) >= Len(u))
  <2>1. <<j, u>> \in Occurrences(x) BY <1>2, <1>11
  <2> HIDE DEF m
  <2>2. Best(m) BY <1>9 DEF m
  <2> QED BY <2>1, <2>2 DEF Best
<1> QED BY <1>10, <1>11 DEF There

\* The held-back suffix is the longest that may start a stop sequence.
LEMMA HoldbackLongest ==
  ASSUME NEW x \in Texts
  PROVE  /\ Holdback(x) \in 0..Len(x)
         /\ \A n \in 1..Len(x) : n > Holdback(x) =>
              \A s \in StopSequences : ~StartsWith(s, Suffix(x, n))
<1> DEFINE L == Len(x)
           Starts(n) == \E s \in StopSequences : StartsWith(s, Suffix(x, n))
           H == {0} \cup {n \in 1..L : Starts(n)}
           T == {d \in 0..L : L - d \in H}
<1>1. L \in Nat BY DEF Texts
<1>2. H \subseteq 0..L /\ 0 \in H /\ \A n \in H : n \in 0..L BY <1>1
<1>3. Holdback(x) = CHOOSE n \in H : \A k \in H : n >= k BY DEF Holdback, Max
<1>4. \A n \in 1..L : Starts(n) => n \in H OBVIOUS
<1> HIDE DEF H, Starts
<1>5. L \in T /\ T \in SUBSET Nat BY <1>1, <1>2
<1>6. PICK d \in T : \A k \in T : d <= k
  <2> HIDE DEF T
  <2> QED BY <1>5, LeastNat
<1>7. L - d \in H /\ d \in 0..L BY <1>6
<1>8. \A n \in H : L - n \in T BY <1>1, <1>2
<1>9. \A n \in H : L - d >= n
  <2> SUFFICES ASSUME NEW n \in H PROVE L - d >= n OBVIOUS
  <2>1. d <= L - n BY <1>6, <1>8
  <2> HIDE DEF T
  <2> QED BY <1>1, <1>2, <1>7, <2>1
<1>10. Holdback(x) \in H /\ \A n \in H : Holdback(x) >= n BY <1>3, <1>7, <1>9
<1>11. Holdback(x) \in 0..L BY <1>2, <1>10
<1>12. ASSUME NEW n \in 1..L, n > Holdback(x) PROVE ~Starts(n) BY <1>1, <1>4, <1>10, <1>11, <1>12
<1> QED BY <1>11, <1>12 DEF Starts

(***************************************************************************)
(* What a push makes of a text a that was handed out, a text p that is     *)
(* held back and a chunk c.                                                *)
(***************************************************************************)

\* No stop sequence can start in the part of the text that was handed out.
Settled(given, whole) ==
  \A i \in 1..Len(given), s \in StopSequences : ~StartsWith(s, SubSeq(whole, i, Len(whole)))

\* What starts in the part handed out occurs nowhere behind a further chunk.
LEMMA NothingReopens ==
  ASSUME NEW a \in Texts, NEW p \in Texts, NEW c \in Texts,
         Settled(a, a \o p), Occurrences(a \o p) = {},
         NEW i \in 1..Len(a), NEW s \in StopSequences
  PROVE  /\ ~OccursAt(s, (a \o p) \o c, i)
         /\ ~StartsWith(s, SubSeq((a \o p) \o c, i, Len((a \o p) \o c)))
<1> DEFINE x == a \o p
           y == x \o c
           u == SubSeq(x, i, Len(x))
           v == SubSeq(y, i, Len(y))
<1>1. x \in Texts /\ Len(x) = Len(a) + Len(p) /\ Len(a) \in Nat /\ Len(p) \in Nat BY Joined
<1>2. /\ y \in Texts /\ Len(y) = Len(x) + Len(c) /\ Len(c) \in Nat /\ Len(x) \in Nat
      /\ \A k \in 1..Len(x) : y[k] = x[k]
  BY <1>1, Joined
<1>3. s \in Texts /\ Len(s) \in Nat \ {0} BY StopShape
<1>4. ~StartsWith(s, u) /\ ~OccursAt(s, x, i)
  <2>1. i \in 1..Len(x) BY <1>1
  <2>2. ~StartsWith(s, u) BY DEF Settled
  <2>3. ASSUME OccursAt(s, x, i) PROVE FALSE
    <3>1. <<i, s>> \in (1..Len(x)) \X StopSequences BY <2>1
    <3>2. <<i, s>> \in Occurrences(x) BY <2>3, <3>1 DEF Occurrences
    <3> QED BY <3>2
  <2> QED BY <2>2, <2>3
<1> HIDE DEF x
<1> HIDE DEF y
<1>5. /\ u \in Texts /\ Len(u) = Len(x) - i + 1
      /\ \A k \in 1..(Len(x) - i + 1) : u[k] = x[i + k - 1]
  BY <1>1, Part
<1>6. /\ v \in Texts /\ Len(v) = Len(y) - i + 1
      /\ \A k \in 1..(Len(y) - i + 1) : v[k] = y[i + k - 1]
  BY <1>1, <1>2, Part
<1> HIDE DEF u, v
<1>7. ASSUME OccursAt(s, y, i) PROVE FALSE
  <2>1. i + Len(s) - 1 <= Len(y) /\ \A k \in 1..Len(s) : y[i + k - 1] = s[k]
    BY <1>2, <1>7, OccursPointwise
  <2>2. CASE i + Len(s) - 1 <= Len(x)
    <3>1. \A k \in 1..Len(s) : i + k - 1 \in 1..Len(x) BY <1>1, <1>3, <2>2
    <3>2. \A k \in 1..Len(s) : x[i + k - 1] = s[k] BY <1>2, <2>1, <3>1
    <3>3. i \in Nat \ {0} OBVIOUS
    <3>4. OccursAt(s, x, i) <=>
            i + Len(s) - 1 <= Len(x) /\ \A k \in 1..Len(s) : x[i + k - 1] = s[k]
      BY <1>1, <3>3, OccursPointwise
    <3> QED BY <1>4, <2>2, <3>2, <3>4
  <2>3. CASE i + Len(s) - 1 > Len(x)
    <3>1. Len(u) <= Len(s) BY <1>1, <1>3, <1>5, <2>3
    <3>2. \A k \in 1..Len(u) : k \in 1..Len(s) /\ i + k - 1 \in 1..Len(x)
      BY <1>1, <1>3, <1>5, <3>1
    <3>3. \A k \in 1..Len(u) : s[k] = u[k] BY <1>2, <1>5, <2>1, <3>2
    <3>4. StartsWith(s, u) BY <1>5, <3>1, <3>3, StartsPointwise
    <3> QED BY <1>4, <3>4
  <2> QED BY <1>1, <1>3, <2>2, <2>3
<1>8. ASSUME StartsWith(s, v) PROVE FALSE
  <2>1. Len(v) <= Len(s) /\ \A k \in 1..Len(v) : s[k] = v[k] BY <1>6, <1>8, StartsPointwise
  <2>2. Len(u) <= Len(v) /\ \A k \in 1..Len(u) : k \in 1..Len(v) /\ i + k - 1 \in 1..Len(x)
    BY <1>1, <1>2, <1>5, <1>6
  <2>3. Len(u) <= Len(s) BY <1>1, <1>2, <1>3, <1>5, <1>6, <2>1, <2>2
  <2>4. \A k \in 1..Len(u) : s[k] = u[k] BY <1>2, <1>5, <1>6, <2>1, <2>2
  <2>5. StartsWith(s, u) BY <1>5, <2>3, <2>4, StartsPointwise
  <2> QED BY <1>4, <2>5
<1> QED BY <1>7, <1>8 DEF x, y, v

\* Behind the part handed out an occurrence is one in the buffer.
LEMMA OccursBehind ==
  ASSUME NEW a \in Texts, NEW t \in Texts, NEW i \in Nat \ {0}, NEW s \in StopSequences
  PROVE  OccursAt(s, a \o t, Len(a) + i) <=> OccursAt(s, t, i)
<1> DEFINE y == a \o t
<1>1. /\ y \in Texts /\ Len(y) = Len(a) + Len(t) /\ Len(a) \in Nat /\ Len(t) \in Nat
      /\ \A k \in 1..Len(t) : y[Len(a) + k] = t[k]
  BY Joined
<1>2. Len(s) \in Nat \ {0} BY StopShape
<1> HIDE DEF y
<1>3. OccursAt(s, y, Len(a) + i) <=>
        (Len(a) + i) + Len(s) - 1 <= Len(y) /\ \A k \in 1..Len(s) : y[(Len(a) + i) + k - 1] = s[k]
  <2> DEFINE j == Len(a) + i
  <2>1. j \in Nat \ {0} BY <1>1
  <2> HIDE DEF j
  <2>2. OccursAt(s, y, j) <=>
          j + Len(s) - 1 <= Len(y) /\ \A k \in 1..Len(s) : y[j + k - 1] = s[k]
    BY <1>1, <2>1, OccursPointwise
  <2> QED BY <2>2 DEF j
<1>4. OccursAt(s, t, i) <=> i + Len(s) - 1 <= Len(t) /\ \A k \in 1..Len(s) : t[i + k - 1] = s[k]
  BY OccursPointwise
<1>5. (Len(a) + i) + Len(s) - 1 <= Len(y) <=> i + Len(s) - 1 <= Len(t) BY <1>1, <1>2
<1>6. ASSUME i + Len(s) - 1 <= Len(t), NEW k \in 1..Len(s)
      PROVE  y[(Len(a) + i) + k - 1] = t[i + k - 1]
  <2>1. i + k - 1 \in 1..Len(t) /\ (Len(a) + i) + k - 1 = Len(a) + (i + k - 1) BY <1>1, <1>2, <1>6
  <2> QED BY <1>1, <2>1
<1>7. OccursAt(s, y, Len(a) + i) <=> OccursAt(s, t, i) BY <1>3, <1>4, <1>5, <1>6
<1> QED BY <1>7 DEF y

\* So the buffer finds every occurrence of the whole text.
LEMMA BufferSeesAll ==
  ASSUME NEW a \in Texts, NEW p \in Texts, NEW c \in Texts,
         Settled(a, a \o p), Occurrences(a \o p) = {},
         NEW i \in 1..Len((a \o p) \o c), NEW s \in StopSequences, OccursAt(s, (a \o p) \o c, i)
  PROVE  i - Len(a) \in 1..Len(p \o c) /\ OccursAt(s, p \o c, i - Len(a))
<1> DEFINE t == p \o c
           y == (a \o p) \o c
           j == i - Len(a)
<1>1. y = a \o t BY Regrouped
<1>2. t \in Texts BY Joined
<1>3. Len(y) = Len(a) + Len(t) /\ Len(a) \in Nat /\ Len(t) \in Nat BY <1>1, <1>2, Joined
<1>4. i \notin 1..Len(a) BY NothingReopens
<1>5. j \in 1..Len(t) /\ j \in Nat \ {0} /\ Len(a) + j = i BY <1>3, <1>4
<1> HIDE DEF t, y
<1>6. OccursAt(s, a \o t, Len(a) + j) BY <1>1, <1>5 DEF y
<1> HIDE DEF j
<1>7. OccursAt(s, t, j) BY <1>2, <1>5, <1>6, OccursBehind
<1> QED BY <1>5, <1>7 DEF t, j

\* The beginning z of a text y.
Begins(z, y) == Len(z) <= Len(y) /\ \A k \in 1..Len(z) : z[k] = y[k]

\* A beginning is a prefix.
LEMMA BeginsIsPrefix ==
  ASSUME NEW z \in Texts, NEW y \in Texts, Begins(z, y)
  PROVE  IsPrefix(z, y)
<1> DEFINE n == Len(z)
           u == SubSeq(z, 1, n)
           v == SubSeq(y, 1, n)
<1>1. n \in Nat /\ Len(y) \in Nat BY DEF Texts
<1>2. u \in Texts /\ Len(u) = n /\ \A k \in 1..n : u[k] = z[k] BY <1>1, Part
<1>3. v \in Texts /\ Len(v) = n /\ \A k \in 1..n : v[k] = y[k] BY <1>1, Part DEF Begins
<1>4. \A k \in 1..n : z[k] = y[k] BY DEF Begins
<1>5. u = v
  <2> HIDE DEF u, v, n
  <2> QED BY <1>2, <1>3, <1>4, SeqEqual DEF Texts
<1> QED BY <1>5 DEF IsPrefix, Begins

\* What occurs in the beginning of a text occurs in the text.
LEMMA OccursLater ==
  ASSUME NEW z \in Texts, NEW y \in Texts, Begins(z, y),
         NEW i \in Nat \ {0}, NEW s \in StopSequences, OccursAt(s, z, i)
  PROVE  OccursAt(s, y, i) /\ i + Len(s) - 1 <= Len(z)
<1>1. Len(z) \in Nat /\ Len(y) \in Nat /\ Len(s) \in Nat \ {0} BY StopShape DEF Texts
<1>2. i + Len(s) - 1 <= Len(z) /\ \A k \in 1..Len(s) : z[i + k - 1] = s[k] BY OccursPointwise
<1>3. \A k \in 1..Len(s) : i + k - 1 \in 1..Len(z) BY <1>1, <1>2
<1>4. \A k \in 1..Len(s) : y[i + k - 1] = s[k] BY <1>2, <1>3 DEF Begins
<1>5. i + Len(s) - 1 <= Len(y) BY <1>1, <1>2 DEF Begins
<1>6. OccursAt(s, y, i) <=>
        i + Len(s) - 1 <= Len(y) /\ \A k \in 1..Len(s) : y[i + k - 1] = s[k]
  BY OccursPointwise
<1> QED BY <1>2, <1>4, <1>5, <1>6

\* Membership in the occurrences of a text.
LEMMA OccurrenceIs ==
  ASSUME NEW x
  PROVE  Occurrences(x) = {} <=> \A i \in 1..Len(x), s \in StopSequences : ~OccursAt(s, x, i)
<1>1. ASSUME NEW i \in 1..Len(x), NEW s \in StopSequences, OccursAt(s, x, i)
      PROVE  Occurrences(x) # {}
  <2>1. <<i, s>> \in (1..Len(x)) \X StopSequences OBVIOUS
  <2>2. <<i, s>>[1] = i /\ <<i, s>>[2] = s OBVIOUS
  <2>3. <<i, s>> \in Occurrences(x) BY <1>1, <2>1, <2>2 DEF Occurrences
  <2> QED BY <2>3
<1>2. ASSUME NEW m \in Occurrences(x)
      PROVE  \E i \in 1..Len(x), s \in StopSequences : OccursAt(s, x, i)
  BY DEF Occurrences
<1> QED BY <1>1, <1>2

\* Behind given, held back is all that is left of the text whole.
HeldBack(given, held, whole) ==
  given \o held = whole /\ Occurrences(whole) = {} /\ Settled(given, whole)

\* Nothing matches: all of the text is there, and nothing handed out can be the start of a
\* stop sequence.
LEMMA PushHoldsBack ==
  ASSUME NEW a \in Texts, NEW p \in Texts, NEW c \in Texts,
         Settled(a, a \o p), Occurrences(a \o p) = {}, Occurrences(p \o c) = {},
         NEW out, out = Push(p, c)
  PROVE  /\ out.matched = NoMatch /\ out.text \in Texts /\ out.pending \in Texts
         /\ HeldBack(a \o out.text, out.pending, (a \o p) \o c)
<1> DEFINE t == p \o c
           y == (a \o p) \o c
           h == Holdback(t)
           n == Len(t)
           g == SubSeq(t, 1, n - h)
           r == SubSeq(t, n - h + 1, n)
<1>1. t \in Texts /\ n \in Nat BY Joined DEF Texts
<1>2. /\ h \in 0..n
      /\ \A k \in 1..n : k > h => \A s \in StopSequences : ~StartsWith(s, Suffix(t, k))
  <2> HIDE DEF t
  <2> QED BY <1>1, HoldbackLongest
<1>3. out.matched = NoMatch /\ out.text = g /\ out.pending = r BY DEF Push, Suffix
<1>4. y = a \o t BY Regrouped
<1>5. y \in Texts /\ Len(y) = Len(a) + n /\ Len(a) \in Nat
      /\ \A k \in 1..n : y[Len(a) + k] = t[k]
  <2> HIDE DEF t, y
  <2>1. /\ a \o t \in Texts /\ Len(a \o t) = Len(a) + Len(t) /\ Len(a) \in Nat
        /\ \A k \in 1..Len(t) : (a \o t)[Len(a) + k] = t[k]
    BY <1>1, Joined
  <2> QED BY <1>4, <2>1
<1>6. Occurrences(y) = {}
  <2> SUFFICES ASSUME NEW i \in 1..Len(y), NEW s \in StopSequences, OccursAt(s, y, i) PROVE FALSE
    BY OccurrenceIs
  <2>1. i - Len(a) \in 1..Len(t) /\ OccursAt(s, t, i - Len(a)) BY BufferSeesAll
  <2> HIDE DEF t
  <2> QED BY <2>1, OccurrenceIs DEF t
<1>7. ASSUME NEW i \in 1..Len(a), NEW s \in StopSequences
      PROVE  ~StartsWith(s, SubSeq(y, i, Len(y)))
  BY NothingReopens
<1> HIDE DEF t, h, n, y
<1>8. g \in Texts /\ Len(g) = n - h BY <1>1, <1>2, Part DEF n
<1>9. r \in Texts /\ Len(r) = h BY <1>1, <1>2, Part DEF n
<1>10. g \o r = t
  <2>1. /\ Len(g \o r) = n /\ g \o r \in Texts
        /\ \A k \in 1..(n - h) : (g \o r)[k] = g[k]
        /\ \A k \in 1..n : k > n - h => (g \o r)[k] = r[k - (n - h)]
    <3> HIDE DEF g, r
    <3>1. /\ g \o r \in Texts /\ Len(g \o r) = Len(g) + Len(r)
          /\ \A k \in 1..Len(g) : (g \o r)[k] = g[k]
          /\ \A k \in 1..(Len(g) + Len(r)) : k > Len(g) => (g \o r)[k] = r[k - Len(g)]
      BY <1>8, <1>9, Joined
    <3>2. Len(g) + Len(r) = n BY <1>1, <1>2, <1>8, <1>9
    <3> QED BY <1>8, <3>1, <3>2
  <2>2. \A k \in 1..(n - h) : g[k] = t[k] BY <1>1, <1>2, Part DEF n
  <2>3. \A k \in 1..h : r[k] = t[(n - h + 1) + k - 1] BY <1>1, <1>2, Part DEF n
  <2> HIDE DEF g, r
  <2>4. ASSUME NEW k \in 1..n PROVE (g \o r)[k] = t[k]
    <3>1. CASE k <= n - h BY <1>1, <1>2, <2>1, <2>2, <3>1
    <3>2. CASE k > n - h
      <4> DEFINE m == k - (n - h)
      <4>1. m \in 1..h /\ (n - h + 1) + m - 1 = k BY <1>1, <1>2, <3>2
      <4>2. (g \o r)[k] = r[m] BY <2>1, <3>2
      <4> HIDE DEF m
      <4>3. r[m] = t[(n - h + 1) + m - 1] BY <2>3, <4>1
      <4> QED BY <4>1, <4>2, <4>3
    <3>3. k <= n - h \/ k > n - h BY <1>1, <1>2
    <3> QED BY <3>1, <3>2, <3>3
  <2> QED BY <1>1, <2>1, <2>4, SeqEqual DEF Texts, n
<1> HIDE DEF g, r
<1>11. (a \o g) \o r = y BY <1>4, <1>8, <1>9, <1>10, Regrouped
<1>12. Settled(a \o g, y)
  <2> SUFFICES ASSUME NEW i \in 1..Len(a \o g), NEW s \in StopSequences
               PROVE  ~StartsWith(s, SubSeq(y, i, Len(y)))
    BY DEF Settled
  <2>1. CASE i \in 1..Len(a) BY <1>7, <2>1
  <2>2. CASE i \notin 1..Len(a)
    <3> DEFINE k == Len(y) - i + 1
               u == SubSeq(y, i, Len(y))
               v == SubSeq(t, n - k + 1, n)
    <3>1. Len(a \o g) = Len(a) + (n - h)
      <4>1. Len(a \o g) = Len(a) + Len(g) BY <1>8, Joined
      <4> QED BY <1>8, <4>1
    <3>2. k \in 1..n /\ k > h /\ i = Len(a) + (n - k + 1) /\ n - k + 1 \in 1..n
      BY <1>1, <1>2, <1>5, <2>2, <3>1
    <3>3. u \in Texts /\ Len(u) = k /\ \A j \in 1..k : u[j] = y[i + j - 1]
      BY <1>1, <1>5, <3>2, Part
    <3>4. v \in Texts /\ Len(v) = k /\ \A j \in 1..k : v[j] = t[(n - k + 1) + j - 1]
      <4> DEFINE m == n - k + 1
      <4>1. m \in Nat \ {0} /\ n \in Nat /\ n <= Len(t) /\ m <= n + 1 /\ n - m + 1 = k
        BY <1>1, <3>2 DEF n
      <4> HIDE DEF m, k, n
      <4>2. SubSeq(t, m, n) \in Texts /\ Len(SubSeq(t, m, n)) = k
            /\ \A j \in 1..k : SubSeq(t, m, n)[j] = t[m + j - 1]
        BY <1>1, <4>1, Part
      <4> QED BY <4>2 DEF m
    <3>5. \A j \in 1..k : y[i + j - 1] = t[(n - k + 1) + j - 1]
      <4> SUFFICES ASSUME NEW j \in 1..k PROVE y[i + j - 1] = t[(n - k + 1) + j - 1] OBVIOUS
      <4> DEFINE l == (n - k + 1) + j - 1
      <4>1. l \in 1..n /\ i + j - 1 = Len(a) + l BY <1>1, <1>5, <3>2
      <4> HIDE DEF l
      <4>2. y[Len(a) + l] = t[l] BY <1>5, <4>1
      <4> QED BY <4>1, <4>2 DEF l
    <3>6. ~StartsWith(s, v)
      <4>1. v = Suffix(t, k) BY DEF Suffix, n
      <4> HIDE DEF k, v
      <4> QED BY <1>2, <3>2, <4>1
    <3> HIDE DEF u, v, k
    <3>7. u = v BY <3>3, <3>4, <3>5, SeqEqual DEF Texts
    <3> QED BY <3>6, <3>7 DEF u
  <2> QED BY <2>1, <2>2
<1>13. HeldBack(a \o g, r, y) BY <1>6, <1>11, <1>12 DEF HeldBack
<1> QED BY <1>3, <1>8, <1>9, <1>13 DEF y

\* A text given, cut in front of the stop sequence s of the text whole: the earliest, and
\* the longest of those that occur there.
Cut(given, s, whole) ==
  /\ IsPrefix(given \o s, whole)
  /\ Occurrences(given) = {} /\ Occurrences(given \o s) # {}
  /\ \A u \in StopSequences : OccursAt(u, whole, Len(given) + 1) => Len(u) <= Len(s)

\* A match cuts the whole text, not only what the buffer holds of it.
LEMMA PushCuts ==
  ASSUME NEW a \in Texts, NEW p \in Texts, NEW c \in Texts,
         Settled(a, a \o p), Occurrences(a \o p) = {}, Occurrences(p \o c) # {},
         NEW out, out = Push(p, c)
  PROVE  /\ out.matched \in StopSequences /\ out.text \in Texts /\ out.pending = <<>>
         /\ Cut(a \o out.text, out.matched, (a \o p) \o c)
         /\ OccursAt(out.matched, (a \o p) \o c, Len(a \o out.text) + 1)
         /\ \A i \in 1..Len((a \o p) \o c), u \in StopSequences :
              OccursAt(u, (a \o p) \o c, i) => Len(a \o out.text) < i
<1> DEFINE t == p \o c
           y == (a \o p) \o c
           m == EarliestMatch(t)
           k == m[1]
           s == m[2]
           n == Len(t)
           g == SubSeq(t, 1, k - 1)
           z == a \o g
           w == z \o s
<1>1. t \in Texts /\ n \in Nat BY Joined DEF Texts
<1>2. out.matched = s /\ out.text = g /\ out.pending = <<>> BY DEF Push
<1>3. y = a \o t BY Regrouped
<1>4. ASSUME NEW i \in 1..Len(y), NEW u \in StopSequences, OccursAt(u, y, i)
      PROVE  i - Len(a) \in 1..n /\ OccursAt(u, t, i - Len(a))
  BY <1>4, BufferSeesAll
<1>0. Occurrences(t) # {} OBVIOUS
<1> HIDE DEF t, y
<1>5. /\ k \in 1..n /\ s \in StopSequences /\ OccursAt(s, t, k)
      /\ \A i \in 1..n, u \in StopSequences : OccursAt(u, t, i) =>
           k < i \/ (k = i /\ Len(s) >= Len(u))
  BY <1>0, <1>1, EarliestExists
<1>6. /\ y \in Texts /\ Len(y) = Len(a) + n /\ Len(a) \in Nat
      /\ \A i \in 1..Len(a) : y[i] = a[i]
      /\ \A i \in 1..n : y[Len(a) + i] = t[i]
  <2>1. /\ a \o t \in Texts /\ Len(a \o t) = Len(a) + Len(t) /\ Len(a) \in Nat
        /\ \A i \in 1..Len(a) : (a \o t)[i] = a[i]
        /\ \A i \in 1..Len(t) : (a \o t)[Len(a) + i] = t[i]
    BY <1>1, Joined
  <2> QED BY <1>3, <2>1
<1> HIDE DEF m, k, s
<1>7. s \in Texts /\ Len(s) \in Nat \ {0} BY <1>5, StopShape
<1>8. k + Len(s) - 1 <= n /\ \A i \in 1..Len(s) : t[k + i - 1] = s[i]
  BY <1>1, <1>5, OccursPointwise
<1>9. g \in Texts /\ Len(g) = k - 1 /\ \A i \in 1..(k - 1) : g[i] = t[i]
  BY <1>1, <1>5, Part
<1> HIDE DEF n, g
<1>10. /\ z \in Texts /\ Len(z) = Len(a) + (k - 1)
       /\ \A i \in 1..Len(a) : z[i] = a[i]
       /\ \A i \in 1..(k - 1) : z[Len(a) + i] = g[i]
  <2>1. /\ z \in Texts /\ Len(z) = Len(a) + Len(g)
        /\ \A i \in 1..Len(a) : z[i] = a[i]
        /\ \A i \in 1..Len(g) : z[Len(a) + i] = g[i]
    BY <1>9, Joined
  <2> HIDE DEF z
  <2> QED BY <1>9, <2>1
<1> HIDE DEF z
<1>11. Begins(z, y)
  <2>1. Len(z) <= Len(y) BY <1>1, <1>5, <1>6, <1>10
  <2>2. ASSUME NEW i \in 1..Len(z) PROVE z[i] = y[i]
    <3>1. CASE i \in 1..Len(a) BY <1>6, <1>10, <3>1
    <3>2. CASE i \notin 1..Len(a)
      <4> DEFINE j == i - Len(a)
      <4>1. j \in 1..(k - 1) /\ j \in 1..n /\ i = Len(a) + j BY <1>1, <1>5, <1>6, <1>10, <3>2
      <4> HIDE DEF j
      <4>2. z[Len(a) + j] = g[j] /\ g[j] = t[j] BY <1>9, <1>10, <4>1
      <4>3. y[Len(a) + j] = t[j] BY <1>6, <4>1
      <4> QED BY <4>1, <4>2, <4>3
    <3> QED BY <3>1, <3>2
  <2> QED BY <2>1, <2>2 DEF Begins
<1>12. /\ w \in Texts /\ Len(w) = Len(z) + Len(s)
       /\ \A i \in 1..Len(z) : w[i] = z[i]
       /\ \A i \in 1..Len(s) : w[Len(z) + i] = s[i]
  BY <1>7, <1>10, Joined
<1> HIDE DEF w
<1>13. Begins(w, y)
  <2>1. Len(w) <= Len(y) BY <1>1, <1>5, <1>6, <1>7, <1>8, <1>10, <1>12
  <2>2. ASSUME NEW i \in 1..Len(w) PROVE w[i] = y[i]
    <3>1. CASE i \in 1..Len(z) BY <1>11, <1>12, <3>1 DEF Begins
    <3>2. CASE i \notin 1..Len(z)
      <4> DEFINE j == i - Len(z)
                 l == k + j - 1
      <4>1. /\ j \in 1..Len(s) /\ i = Len(z) + j /\ i = Len(a) + l /\ l \in 1..n
        BY <1>1, <1>5, <1>6, <1>7, <1>8, <1>10, <1>12, <3>2
      <4>2. t[l] = s[j] BY <1>8, <4>1
      <4> HIDE DEF j, l
      <4>3. w[Len(z) + j] = s[j] BY <1>12, <4>1
      <4>4. y[Len(a) + l] = t[l] BY <1>6, <4>1
      <4> QED BY <4>1, <4>2, <4>3, <4>4
    <3> QED BY <3>1, <3>2
  <2> QED BY <2>1, <2>2 DEF Begins
<1>14. IsPrefix(w, y) BY <1>6, <1>12, <1>13, BeginsIsPrefix
<1>15. Occurrences(z) = {}
  <2> SUFFICES ASSUME NEW i \in 1..Len(z), NEW u \in StopSequences, OccursAt(u, z, i) PROVE FALSE
    BY OccurrenceIs
  <2>1. Len(u) \in Nat \ {0} BY StopShape
  <2>2. i \in Nat \ {0} OBVIOUS
  <2>3. OccursAt(u, y, i) /\ i + Len(u) - 1 <= Len(z)
    BY <1>6, <1>10, <1>11, <2>2, OccursLater
  <2>4. i \in 1..Len(y) BY <1>6, <1>10, <1>11 DEF Begins
  <2> DEFINE j == i - Len(a)
  <2>5. j \in 1..n /\ OccursAt(u, t, j) BY <1>4, <2>3, <2>4
  <2>6. j <= k - 1 BY <1>1, <1>5, <1>6, <1>10, <2>1, <2>3
  <2> HIDE DEF j
  <2>7. k < j \/ k = j BY <1>5, <2>5
  <2> QED BY <1>1, <1>5, <2>5, <2>6, <2>7
<1>16. Occurrences(w) # {}
  <2> DEFINE i == Len(z) + 1
  <2>1. i \in 1..Len(w) /\ i \in Nat \ {0} BY <1>1, <1>5, <1>6, <1>7, <1>10, <1>12
  <2>2. i + Len(s) - 1 <= Len(w) BY <1>1, <1>5, <1>6, <1>7, <1>10, <1>12
  <2>3. ASSUME NEW j \in 1..Len(s) PROVE w[i + j - 1] = s[j]
    <3>1. i + j - 1 = Len(z) + j BY <1>1, <1>5, <1>6, <1>7, <1>10
    <3> QED BY <1>12, <3>1
  <2> HIDE DEF i
  <2>4. OccursAt(s, w, i) <=>
          i + Len(s) - 1 <= Len(w) /\ \A j \in 1..Len(s) : w[i + j - 1] = s[j]
    BY <1>5, <1>12, <2>1, OccursPointwise
  <2> QED BY <1>5, <2>1, <2>2, <2>3, <2>4, OccurrenceIs
<1>17. ASSUME NEW u \in StopSequences, OccursAt(u, y, Len(z) + 1) PROVE Len(u) <= Len(s)
  <2> DEFINE i == Len(z) + 1
  <2>1. i - Len(a) = k BY <1>1, <1>5, <1>6, <1>10
  <2>2. i \in 1..Len(y) BY <1>1, <1>5, <1>6, <1>10
  <2>3. OccursAt(u, t, k) BY <1>4, <1>17, <2>1, <2>2
  <2>4. k < k \/ Len(s) >= Len(u) BY <1>5, <2>3
  <2>5. Len(u) \in Nat BY StopShape
  <2> QED BY <1>1, <1>5, <1>7, <2>4, <2>5
<1>18. Cut(z, s, y) BY <1>14, <1>15, <1>16, <1>17 DEF Cut, w
<1>19. OccursAt(s, y, Len(z) + 1)
  <2>1. Len(z) + 1 = Len(a) + k /\ k \in Nat \ {0} BY <1>1, <1>5, <1>6, <1>10
  <2>2. OccursAt(s, a \o t, Len(a) + k) BY <1>1, <1>5, <2>1, OccursBehind
  <2> QED BY <1>3, <2>1, <2>2
<1>20. ASSUME NEW i \in 1..Len(y), NEW u \in StopSequences, OccursAt(u, y, i)
       PROVE  Len(z) < i
  <2> DEFINE j == i - Len(a)
  <2>1. j \in 1..n /\ OccursAt(u, t, j) BY <1>4, <1>20
  <2>2. i = Len(a) + j BY <1>6
  <2> HIDE DEF j
  <2>3. k < j \/ k = j BY <1>5, <2>1
  <2> QED BY <1>1, <1>5, <1>6, <1>10, <2>1, <2>2, <2>3
<1> HIDE DEF Cut
<1> QED BY <1>2, <1>5, <1>9, <1>18, <1>19, <1>20 DEF y, z

-----------------------------------------------------------------------------
(***************************************************************************)
(* The sessions.                                                           *)
(***************************************************************************)

\* Neither property is inductive: that no stop sequence is missed rests on what was handed
\* out not being the start of one (Settled).
SessionInv ==
  /\ decoded \in Texts /\ pending \in Texts /\ text \in Texts
  /\ \/ /\ finish_reason = None
        /\ text \o pending = decoded /\ Occurrences(decoded) = {} /\ Settled(text, decoded)
     \/ /\ finish_reason \in {Eos, Length}
        /\ text = decoded /\ pending = <<>> /\ Occurrences(decoded) = {}
     \/ \E s \in StopSequences : finish_reason = StopSequence(s) /\ Cut(text, s, decoded)

\* The reasons differ.
LEMMA ReasonsDiffer ==
  /\ None[1] = "None" /\ Eos[1] = "Eos" /\ Length[1] = "Length"
  /\ \A s : StopSequence(s)[1] = "StopSequence" /\ StopSequence(s)[2] = s
  /\ None \notin {Eos, Length}
  /\ \A s : StopSequence(s) \notin {None, Eos, Length}
BY DEF None, Eos, Length, StopSequence

\* The empty text.
LEMMA EmptyText ==
  <<>> \in Texts /\ Len(<<>>) = 0 /\ \A x \in Texts : x \o <<>> = x /\ <<>> \o x = x
<1>1. <<>> \in Seq(Nat) OBVIOUS
<1> QED BY <1>1, ConcatEmptySeq DEF Texts

\* No stop sequence occurs in the empty text.
LEMMA NothingYet == Occurrences(<<>>) = {} /\ \A x : Settled(<<>>, x)
BY OccurrenceIs, EmptyText DEF Settled

\* A new session has decoded nothing.
LEMMA SessionStarts == SessionInit => SessionInv
<1> SUFFICES ASSUME SessionInit PROVE SessionInv OBVIOUS
<1>1. decoded = <<>> /\ pending = <<>> /\ text = <<>> /\ finish_reason \in {None, Length}
  BY DEF SessionInit
<1>2. text \o pending = decoded BY <1>1, EmptyText
<1> QED BY <1>1, <1>2, EmptyText, NothingYet DEF SessionInv

\* What a token that decodes to no text does.
LEMMA SilentToken ==
  ASSUME SessionInv, finish_reason = None, NEW why, why \in {None, Eos, Length},
         Emit([text |-> <<>>, matched |-> NoMatch, pending |-> pending], why),
         decoded' = decoded
  PROVE  SessionInv'
<1>1. /\ decoded \in Texts /\ pending \in Texts /\ text \in Texts /\ text \o pending = decoded
      /\ Occurrences(decoded) = {} /\ Settled(text, decoded)
  BY ReasonsDiffer DEF SessionInv
<1>2. text \o <<>> = text BY <1>1, EmptyText
<1>3. /\ finish_reason' = why
      /\ text' = text \o (IF why \in {Eos, Length} THEN pending ELSE <<>>)
      /\ pending' = IF why \in {Eos, Length} THEN <<>> ELSE pending
  BY <1>2 DEF Emit
<1>4. CASE why = None
  <2>1. text' = text /\ pending' = pending /\ finish_reason' = None
    BY <1>2, <1>3, <1>4, ReasonsDiffer
  <2> QED BY <1>1, <2>1 DEF SessionInv, Settled, Occurrences
<1>5. CASE why \in {Eos, Length}
  <2>1. text' = decoded /\ pending' = <<>> /\ finish_reason' \in {Eos, Length} BY <1>1, <1>3, <1>5
  <2> QED BY <1>1, <2>1, EmptyText DEF SessionInv, Occurrences
<1> QED BY <1>4, <1>5

\* What a token that decodes to a chunk does.
LEMMA ChunkToken ==
  ASSUME SessionInv, finish_reason = None, NEW chunk \in Texts, NEW pushed, NEW why,
         pushed = Push(pending, chunk),
         pushed.matched # NoMatch => why = StopSequence(pushed.matched),
         pushed.matched = NoMatch => why \in {None, Length},
         Emit(pushed, why), decoded' = decoded \o chunk
  PROVE  SessionInv'
<1>1. /\ decoded \in Texts /\ pending \in Texts /\ text \in Texts /\ text \o pending = decoded
      /\ Occurrences(text \o pending) = {} /\ Settled(text, text \o pending)
  BY ReasonsDiffer DEF SessionInv
<1>2. decoded' = (text \o pending) \o chunk /\ decoded' \in Texts BY <1>1, Joined
<1>3. CASE Occurrences(pending \o chunk) = {}
  <2>1. /\ pushed.matched = NoMatch /\ pushed.text \in Texts /\ pushed.pending \in Texts
        /\ HeldBack(text \o pushed.text, pushed.pending, decoded')
    <3>1. /\ pushed.matched = NoMatch /\ pushed.text \in Texts /\ pushed.pending \in Texts
          /\ HeldBack(text \o pushed.text, pushed.pending, (text \o pending) \o chunk)
      BY <1>1, <1>3, PushHoldsBack
    <3> QED BY <1>2, <3>1
  <2> DEFINE z == text \o pushed.text
  <2>2. z \in Texts /\ z \o <<>> = z BY <1>1, <2>1, Joined, EmptyText
  <2>3. /\ finish_reason' = why
        /\ text' = z \o (IF why \in {Eos, Length} THEN pushed.pending ELSE <<>>)
        /\ pending' = IF why \in {Eos, Length} THEN <<>> ELSE pushed.pending
    BY DEF Emit
  <2> HIDE DEF z
  <2>4. CASE why = None
    <3>1. text' = z /\ pending' = pushed.pending /\ finish_reason' = None
      BY <2>2, <2>3, <2>4, ReasonsDiffer
    <3>2. text' \o pending' = decoded' /\ Settled(text', decoded') BY <2>1, <3>1 DEF z, HeldBack
    <3>3. Occurrences(decoded)' = {} /\ Settled(text, decoded)'
      BY <2>1, <3>2 DEF HeldBack, Occurrences, Settled
    <3> QED BY <1>2, <2>1, <2>2, <3>1, <3>2, <3>3 DEF SessionInv
  <2>5. CASE why = Length
    <3>1. text' = decoded' /\ pending' = <<>> /\ finish_reason' = Length
      BY <2>1, <2>3, <2>5 DEF z, HeldBack
    <3>2. Occurrences(decoded)' = {} BY <2>1 DEF HeldBack, Occurrences
    <3> QED BY <1>2, <3>1, <3>2, EmptyText DEF SessionInv
  <2> QED BY <2>1, <2>4, <2>5
<1>4. CASE Occurrences(pending \o chunk) # {}
  <2>1. /\ pushed.matched \in StopSequences /\ pushed.text \in Texts /\ pushed.pending = <<>>
        /\ Cut(text \o pushed.text, pushed.matched, decoded')
    <3>1. /\ pushed.matched \in StopSequences /\ pushed.text \in Texts /\ pushed.pending = <<>>
          /\ Cut(text \o pushed.text, pushed.matched, (text \o pending) \o chunk)
      BY <1>1, <1>4, PushCuts
    <3> QED BY <1>2, <3>1
  <2>2. pushed.matched # NoMatch BY <2>1, StopShape DEF NoMatch
  <2>3. why = StopSequence(pushed.matched) /\ why \notin {Eos, Length}
    BY <2>2, ReasonsDiffer
  <2> DEFINE z == text \o pushed.text
  <2>4. z \in Texts /\ z \o <<>> = z BY <1>1, <2>1, Joined, EmptyText
  <2>5. text' = z /\ pending' = <<>> /\ finish_reason' = why
    BY <2>1, <2>3, <2>4 DEF Emit
  <2> QED BY <1>2, <2>1, <2>3, <2>4, <2>5, EmptyText DEF SessionInv
<1> QED BY <1>3, <1>4

\* Every step of a session keeps the invariant.
LEMMA SessionStep == SessionInv /\ [SessionNext]_sessionVars => SessionInv'
<1> SUFFICES ASSUME SessionInv, [SessionNext]_sessionVars PROVE SessionInv'
  OBVIOUS
<1>1. CASE UNCHANGED <<decoded, pending, text, finish_reason>>
  BY <1>1 DEF SessionInv, Cut, Occurrences, Settled
<1>2. ASSUME NEW eos \in BOOLEAN, NEW chunk \in Chunks \cup {<<>>}, NextToken(eos, chunk)
      PROVE  SessionInv'
  <2> DEFINE silent == [text |-> <<>>, matched |-> NoMatch, pending |-> pending]
             pushed == IF eos \/ chunk = <<>> THEN silent ELSE Push(pending, chunk)
             kept == IF eos \/ chunk = <<>> THEN SampledReason(eos) ELSE MatchReason(pushed)
             why == IF session = "Qwen36" THEN kept
                       ELSE LimitReason(IF eos THEN Eos ELSE MatchReason(pushed))
  <2>1. /\ finish_reason = None /\ Emit(pushed, why)
        /\ decoded' = IF eos THEN decoded ELSE decoded \o chunk
    BY <1>2 DEF NextToken
  <2>2. chunk \in Texts BY SessionAssumption, EmptyText DEF Texts
  <2>3. CASE eos \/ chunk = <<>>
    <3>1. pushed = silent BY <2>3
    <3>2. decoded' = decoded
      <4>1. decoded \o <<>> = decoded BY EmptyText DEF SessionInv
      <4> QED BY <2>1, <2>3, <4>1
    <3>3. silent.matched = NoMatch OBVIOUS
    <3> HIDE DEF silent
    <3>4. why \in {None, Eos, Length}
      BY <2>3, <3>1, <3>3 DEF SampledReason, LimitReason, MatchReason
    <3>5. Emit(silent, why) BY <2>1, <3>1
    <3> HIDE DEF why, pushed
    <3> QED BY <2>1, <3>2, <3>4, <3>5, SilentToken DEF silent
  <2>4. CASE ~eos /\ chunk # <<>>
    <3>1. pushed = Push(pending, chunk) /\ decoded' = decoded \o chunk BY <2>1, <2>4
    <3>2. pushed.matched # NoMatch => why = StopSequence(pushed.matched)
      <4>1. \A s : StopSequence(s) # None BY ReasonsDiffer
      <4> HIDE DEF pushed
      <4> QED BY <2>4, <4>1 DEF LimitReason, MatchReason
    <3>3. pushed.matched = NoMatch => why \in {None, Length}
      <4> HIDE DEF pushed
      <4> QED BY <2>4 DEF LimitReason, MatchReason
    <3> HIDE DEF pushed, why
    <3> QED BY <2>1, <2>2, <3>1, <3>2, <3>3, ChunkToken
  <2> QED BY <2>3, <2>4
<1>3. CASE NextTokenDone \/ EmptyTick \/ UNCHANGED sessionVars
  BY <1>1, <1>3 DEF NextTokenDone, EmptyTick, sessionVars
<1> QED BY <1>2, <1>3 DEF SessionNext

\* The invariant gives both properties.
LEMMA SessionInvGives == SessionInv => TextAccounted /\ StopNeverMissed
<1> SUFFICES ASSUME SessionInv PROVE TextAccounted /\ StopNeverMissed
  OBVIOUS
<1>1. decoded \in Texts /\ pending \in Texts /\ text \in Texts BY DEF SessionInv
<1>2. CASE finish_reason = None
  <2>1. text \o pending = decoded /\ Occurrences(decoded) = {} BY <1>2, ReasonsDiffer DEF SessionInv
  <2>2. Len(text) \in Nat /\ Begins(text, decoded)
    <3>1. /\ Len(text \o pending) = Len(text) + Len(pending)
          /\ Len(text) \in Nat /\ Len(pending) \in Nat
          /\ \A k \in 1..Len(text) : (text \o pending)[k] = text[k]
      BY <1>1, Joined
    <3>2. Len(text) <= Len(decoded) BY <2>1, <3>1
    <3> QED BY <2>1, <3>1, <3>2 DEF Begins
  <2>3. Occurrences(text) = {}
    <3> SUFFICES ASSUME NEW i \in 1..Len(text), NEW s \in StopSequences, OccursAt(s, text, i)
                 PROVE  FALSE
      BY OccurrenceIs
    <3>1. i \in Nat \ {0} /\ i \in 1..Len(decoded)
      <4>1. Len(decoded) \in Nat BY <1>1 DEF Texts
      <4> QED BY <2>2, <4>1 DEF Begins
    <3>2. OccursAt(s, decoded, i) BY <1>1, <2>2, <3>1, OccursLater
    <3> QED BY <2>1, <3>1, <3>2, OccurrenceIs
  <2> QED BY <1>2, <2>1, <2>3, ReasonsDiffer DEF TextAccounted, StopNeverMissed
<1>3. CASE finish_reason \in {Eos, Length}
  <2>1. text = decoded /\ pending = <<>> /\ Occurrences(decoded) = {}
    BY <1>3, ReasonsDiffer DEF SessionInv
  <2> QED BY <1>3, <2>1, ReasonsDiffer DEF TextAccounted, StopNeverMissed
<1>4. ASSUME NEW s \in StopSequences, finish_reason = StopSequence(s), Cut(text, s, decoded)
      PROVE  TextAccounted /\ StopNeverMissed
  <2>1. /\ finish_reason[1] = "StopSequence" /\ finish_reason[2] = s
        /\ finish_reason \notin {None, Eos, Length}
    BY <1>4, ReasonsDiffer
  <2> QED BY <1>4, <2>1 DEF TextAccounted, StopNeverMissed, Cut
<1> QED BY <1>2, <1>3, <1>4 DEF SessionInv

\* However the text is split into tokens, what a session has handed out and holds back is
\* what was decoded, to the character, until a stop sequence cuts it (next_token of both
\* sessions, StopBuffer::push).
THEOREM NoTextIsLost == SessionSpec => []TextAccounted
<1>1. SessionInv => TextAccounted BY SessionInvGives
<1> QED BY SessionStarts, SessionStep, <1>1, PTL DEF SessionSpec

\* No stop sequence is handed out, also not in pieces, and none is missed: the session ends
\* with the first token that completes one and reports the longest at the earliest place
\* (StopBuffer::push and earliest_match).
THEOREM NoStopIsMissed == SessionSpec => []StopNeverMissed
<1>1. SessionInv => StopNeverMissed BY SessionInvGives
<1> QED BY SessionStarts, SessionStep, <1>1, PTL DEF SessionSpec

-----------------------------------------------------------------------------
(***************************************************************************)
(* The chat service: the text of a sequence of events.                     *)
(***************************************************************************)

\* The characters an event brings.
Chars(event) == IF event[1] = "Text" THEN event[2] ELSE <<>>

\* The three kinds of event and the characters they bring.
LEMMA EventShape ==
  /\ Reasoning \in Events /\ ToolCall \in Events /\ Chars(Reasoning) = <<>> /\ Chars(ToolCall) = <<>>
  /\ \A c \in Texts : Text(c) \in Events /\ Chars(Text(c)) = c
  /\ \A e \in Events : Chars(e) \in Texts
  /\ \A e \in Events : e[1] # "Text" => e = Reasoning \/ e = ToolCall
  /\ \A e \in Events : e[1] = "Text" => e # ToolCall /\ e[2] \in Texts /\ Chars(e) = e[2]
  /\ Reasoning # ToolCall /\ Reasoning[1] # "Text" /\ ToolCall[1] # "Text"
<1>1. <<>> \in Texts BY EmptyText
<1>2. Reasoning[1] = "Reasoning" /\ ToolCall[1] = "ToolCall" BY DEF Reasoning, ToolCall
<1>3. \A c : Text(c)[1] = "Text" /\ Text(c)[2] = c BY DEF Text
<1>4. \A e \in {"Text"} \X Seq(Nat) : e[1] = "Text" /\ e[2] \in Texts BY DEF Texts
<1>5. \A c \in Texts : Text(c) \in {"Text"} \X Seq(Nat) BY DEF Texts, Text
<1> QED BY <1>1, <1>2, <1>3, <1>4, <1>5 DEF Events, Chars

\* The text of the events with one more at their end.
LEMMA TextOfFacts ==
  ASSUME NEW d \in Seq(Events), NEW e \in Events
  PROVE  /\ TextOf(d) \in Texts /\ TextOf(<<>>) = <<>>
         /\ TextOf(Append(d, e)) = TextOf(d) \o Chars(e)
<1> DEFINE M(q) == [i \in DOMAIN q |-> Chars(q[i])]
<1>1. \A q : TextOf(q) = FlattenSeq(M(q)) BY Zenon DEF TextOf, Chars
<1>2. M(d) \in Seq(Texts) /\ \A i \in DOMAIN d : d[i] \in Events
  <2>1. \A i \in 1..Len(d) : d[i] \in Events OBVIOUS
  <2>2. \A i \in 1..Len(d) : Chars(d[i]) \in Texts BY <2>1, EventShape
  <2> QED BY <2>1, <2>2
<1>3. M(<<>>) = <<>> OBVIOUS
<1>4. M(Append(d, e)) = Append(M(d), Chars(e))
  <2> DEFINE n == Len(d)
  <2>1. Chars(e) \in Texts BY EventShape
  <2>2. M(d) \in Seq(Texts) /\ Len(M(d)) = n /\ n \in Nat
    BY <1>2
  <2>3. Append(d, e) \in Seq(Events) /\ DOMAIN Append(d, e) = 1..(n + 1)
    /\ \A i \in 1..(n + 1) : Append(d, e)[i] = IF i = n + 1 THEN e ELSE d[i]
    OBVIOUS
  <2>4. Append(M(d), Chars(e)) \in Seq(Texts) /\ DOMAIN Append(M(d), Chars(e)) = 1..(n + 1)
    /\ \A i \in 1..(n + 1) : Append(M(d), Chars(e))[i] = IF i = n + 1 THEN Chars(e) ELSE M(d)[i]
    <3> HIDE DEF M
    <3> QED BY <2>1, <2>2
  <2>5. \A i \in 1..(n + 1) : i # n + 1 => i \in DOMAIN d /\ M(d)[i] = Chars(d[i])
    BY <2>2
  <2> HIDE DEF n
  <2>6. \A i \in 1..(n + 1) : Chars(Append(d, e)[i]) = Append(M(d), Chars(e))[i]
    <3> HIDE DEF M
    <3> QED BY <2>3, <2>4, <2>5
  <2>7. Append(M(d), Chars(e)) = [i \in 1..(n + 1) |-> Append(M(d), Chars(e))[i]]
    <3> DEFINE r == Append(M(d), Chars(e))
    <3>1. r \in Seq(Texts) /\ DOMAIN r = 1..(n + 1) BY <2>4
    <3> HIDE DEF r
    <3>2. r = [i \in 1..(n + 1) |-> r[i]] BY <3>1
    <3> QED BY <3>2 DEF r
  <2> QED BY <2>3, <2>6, <2>7
<1>5. Chars(e) \in Seq(Nat) /\ M(d) \in Seq(Seq(Nat)) BY <1>2, EventShape DEF Texts
<1> HIDE DEF M
<1>6. /\ FlattenSeq(M(d)) \in Seq(Nat)
      /\ FlattenSeq(Append(M(d), Chars(e))) = FlattenSeq(M(d)) \o Chars(e)
  BY <1>5, FlattenFacts
<1>7. FlattenSeq(<<>>) = <<>>
  <2>1. <<>> \in Seq(Seq(Nat)) /\ <<>> \in Seq(Nat) OBVIOUS
  <2> QED BY <2>1, FlattenFacts
<1> QED BY <1>1, <1>3, <1>4, <1>6, <1>7 DEF Texts

\* The text in front of the first tool call.
Response(d) == TextOf(Before(d, ToolCall))

\* SelectInSeq finds the first tool call.
LEMMA FirstCall ==
  ASSUME NEW d \in Seq(Events), ToolCall \in ToSet(d)
  PROVE  LET k == SelectInSeq(d, LAMBDA e : e = ToolCall) IN
         k \in 1..Len(d) /\ d[k] = ToolCall /\ \A i \in 1..Len(d) : d[i] = ToolCall => k <= i
<1> DEFINE I == {i \in 1..Len(d) : d[i] = ToolCall}
           k == SelectInSeq(d, LAMBDA e : e = ToolCall)
<1>1. Len(d) \in Nat OBVIOUS
<1>2. I \in SUBSET Nat /\ I # {}
  <2>1. PICK i \in 1..Len(d) : d[i] = ToolCall BY DEF ToSet
  <2> QED BY <1>1, <2>1
<1>3. k = CHOOSE x \in I : \A y \in I : x =< y
  <2>1. k = IF I # {} THEN Min(I) ELSE 0 BY DEF SelectInSeq
  <2> QED BY <1>2, <2>1 DEF Min
<1>4. \E x \in I : \A y \in I : x =< y
  <2> HIDE DEF I
  <2> QED BY <1>2, LeastNat
<1> HIDE DEF k
<1>5. k \in I /\ \A y \in I : k =< y
  <2> HIDE DEF I
  <2> QED BY <1>3, <1>4
<1>6. k \in 1..Len(d) /\ d[k] = ToolCall /\ \A i \in 1..Len(d) : d[i] = ToolCall => k <= i
  BY <1>5
<1> QED BY <1>6 DEF k

\* What is in front of the first tool call.
LEMMA FirstCallIs ==
  ASSUME NEW d \in Seq(Events), ToolCall \in ToSet(d), NEW k \in 1..Len(d), d[k] = ToolCall,
         \A i \in 1..Len(d) : d[i] = ToolCall => k <= i
  PROVE  Before(d, ToolCall) = SubSeq(d, 1, k - 1)
<1> DEFINE j == SelectInSeq(d, LAMBDA e : e = ToolCall)
<1>1. j \in 1..Len(d) /\ d[j] = ToolCall /\ \A i \in 1..Len(d) : d[i] = ToolCall => j <= i
  BY FirstCall
<1>2. Before(d, ToolCall) = SubSeq(d, 1, j - 1) BY DEF Before
<1> HIDE DEF j
<1>3. j <= k /\ k <= j BY <1>1
<1>4. j = k
  <2>1. Len(d) \in Nat OBVIOUS
  <2> QED BY <1>1, <1>3, <2>1
<1> QED BY <1>2, <1>4

\* What a further event changes in front of the first tool call.
LEMMA BeforeAppend ==
  ASSUME NEW d \in Seq(Events), NEW e \in Events
  PROVE  /\ Before(d, ToolCall) \in Seq(Events) /\ ToSet(Append(d, e)) = ToSet(d) \cup {e}
         /\ ToolCall \notin ToSet(d) => Before(d, ToolCall) = d
         /\ ToolCall \in ToSet(d) => Before(Append(d, e), ToolCall) = Before(d, ToolCall)
         /\ ToolCall \notin ToSet(d) /\ e = ToolCall => Before(Append(d, e), ToolCall) = d
<1> DEFINE r == Append(d, e)
           n == Len(d)
<1>1. /\ r \in Seq(Events) /\ Len(r) = n + 1 /\ n \in Nat /\ r[n + 1] = e
      /\ \A i \in 1..n : r[i] = d[i]
  OBVIOUS
<1>2. ToSet(r) = ToSet(d) \cup {e} BY ToSetAppend
<1> HIDE DEF r
<1>3. ASSUME ToolCall \in ToSet(d)
      PROVE  Before(d, ToolCall) \in Seq(Events) /\ Before(r, ToolCall) = Before(d, ToolCall)
  <2> DEFINE k == SelectInSeq(d, LAMBDA x : x = ToolCall)
  <2>1. k \in 1..n /\ d[k] = ToolCall /\ \A i \in 1..n : d[i] = ToolCall => k <= i
    BY <1>3, FirstCall
  <2> HIDE DEF k
  <2>2. k \in 1..(n + 1) /\ r[k] = ToolCall BY <1>1, <2>1
  <2>3. ASSUME NEW i \in 1..(n + 1), r[i] = ToolCall PROVE k <= i
    <3>1. CASE i \in 1..n BY <1>1, <2>1, <2>3, <3>1
    <3>2. CASE i \notin 1..n BY <1>1, <2>1, <3>2
    <3> QED BY <3>1, <3>2
  <2>4. Before(r, ToolCall) = SubSeq(r, 1, k - 1)
    BY <1>1, <1>2, <1>3, <2>2, <2>3, FirstCallIs
  <2>5. Before(d, ToolCall) = SubSeq(d, 1, k - 1) BY <1>3, <2>1, FirstCallIs
  <2>6. SubSeq(d, 1, k - 1) \in Seq(Events)
    <3>1. \A i \in 1..(k - 1) : d[i] \in Events BY <1>1, <2>1
    <3> QED BY <1>1, <2>1, <3>1, SubSeqProperties
  <2>7. SubSeq(r, 1, k - 1) = SubSeq(d, 1, k - 1)
    <3>1. /\ Len(SubSeq(d, 1, k - 1)) = k - 1 /\ \A i \in 1..(k - 1) : SubSeq(d, 1, k - 1)[i] = d[i]
          /\ Len(SubSeq(r, 1, k - 1)) = k - 1 /\ \A i \in 1..(k - 1) : SubSeq(r, 1, k - 1)[i] = r[i]
      BY <1>1, <2>1
    <3>2. SubSeq(r, 1, k - 1) \in Seq(Events)
      <4>1. \A i \in 1..(k - 1) : r[i] \in Events BY <1>1, <2>1
      <4> QED BY <1>1, <2>1, <4>1, SubSeqProperties
    <3>3. \A i \in 1..(k - 1) : r[i] = d[i] BY <1>1, <2>1
    <3> QED BY <2>1, <2>6, <3>1, <3>2, <3>3, SeqEqual
  <2> QED BY <2>4, <2>5, <2>6, <2>7
<1>4. ASSUME ToolCall \notin ToSet(d), e = ToolCall PROVE Before(r, ToolCall) = d
  <2>1. n + 1 \in 1..Len(r) /\ r[n + 1] = ToolCall BY <1>1, <1>4
  <2>2. ASSUME NEW i \in 1..Len(r), r[i] = ToolCall PROVE n + 1 <= i
    <3>1. CASE i \in 1..n
      <4>1. d[i] = ToolCall BY <1>1, <2>2, <3>1
      <4> QED BY <1>4, <3>1, <4>1 DEF ToSet
    <3>2. CASE i \notin 1..n BY <1>1, <3>2
    <3> QED BY <3>1, <3>2
  <2>3. ToolCall \in ToSet(r) BY <1>2, <1>4
  <2>4. Before(r, ToolCall) = SubSeq(r, 1, (n + 1) - 1)
    BY <1>1, <2>1, <2>2, <2>3, FirstCallIs
  <2>5. SubSeq(r, 1, n) = d BY <1>1 DEF r
  <2>6. (n + 1) - 1 = n BY <1>1
  <2> QED BY <2>4, <2>5, <2>6
<1>5. ToolCall \notin ToSet(d) => Before(d, ToolCall) = d BY DEF Before
<1> QED BY <1>2, <1>3, <1>4, <1>5 DEF r

\* The response grows with every event up to the first tool call, and not any more.
LEMMA ResponseGrows ==
  ASSUME NEW d \in Seq(Events), NEW e \in Events
  PROVE  /\ Response(d) \in Texts
         /\ ToolCall \in ToSet(d) \/ e = ToolCall => Response(Append(d, e)) = Response(d)
         /\ ToolCall \notin ToSet(d) /\ e # ToolCall =>
              Response(Append(d, e)) = Response(d) \o Chars(e)
         /\ ToolCall \in ToSet(Append(d, e)) <=> ToolCall \in ToSet(d) \/ e = ToolCall
<1>1. Append(d, e) \in Seq(Events) OBVIOUS
<1>2. Response(d) \in Texts BY BeforeAppend, TextOfFacts DEF Response
<1>3. ToSet(Append(d, e)) = ToSet(d) \cup {e} BY BeforeAppend
<1>4. ASSUME ToolCall \in ToSet(d) \/ e = ToolCall PROVE Response(Append(d, e)) = Response(d)
  <2>1. Before(Append(d, e), ToolCall) = Before(d, ToolCall) BY <1>4, BeforeAppend
  <2> QED BY <2>1 DEF Response
<1>5. ASSUME ToolCall \notin ToSet(d), e # ToolCall
      PROVE  Response(Append(d, e)) = Response(d) \o Chars(e)
  <2>1. Before(d, ToolCall) = d BY <1>5, BeforeAppend
  <2>2. Before(Append(d, e), ToolCall) = Append(d, e) BY <1>3, <1>5 DEF Before
  <2>3. TextOf(Append(d, e)) = TextOf(d) \o Chars(e) BY TextOfFacts
  <2> QED BY <2>1, <2>2, <2>3 DEF Response
<1> QED BY <1>2, <1>3, <1>4, <1>5

-----------------------------------------------------------------------------
(***************************************************************************)
(* The response filter, behind the events d of a request.                  *)
(***************************************************************************)
Verdicts == {None, Eos, Length, ToolCalls} \cup {Stop(s) : s \in StopSequences}

Filters == [pending : Texts, saw_tool : BOOLEAN, output : Seq(Events),
            returned : Verdicts, terminal : Verdicts]

\* What was handed out ends in front of every stop sequence of a beginning y of the text
\* that has one.
StoppedAt(given, y, whole) ==
  /\ Begins(y, whole) /\ Occurrences(y) # {}
  /\ \A i \in 1..Len(y), s \in StopSequences : OccursAt(s, y, i) => Len(given) < i

Stopped(given, whole) == \E y \in Texts : StoppedAt(given, y, whole)

\* What was handed out is the beginning of the response, and nothing from a stop sequence on.
Clean(given, d) ==
  /\ given \in Texts /\ Begins(given, Response(d))
  /\ Occurrences(Response(d)) = {} \/ Stopped(given, Response(d))

\* All of the response was handed out, and no stop sequence is in it.
Whole(given, d) == given = Response(d) /\ Occurrences(given) = {}

\* The filter takes text; it has passed a tool call; a stop sequence has ended it.
Open(f, d) ==
  /\ f.returned = None /\ ~f.saw_tool /\ ToolCall \notin ToSet(d)
  /\ HeldBack(TextOf(f.output), f.pending, Response(d))

Called(f, d) ==
  /\ f.returned \in {None, ToolCalls} /\ f.saw_tool /\ ToolCall \in ToSet(d)
  /\ f.pending = <<>> /\ Whole(TextOf(f.output), d)

Matched(f, d) ==
  /\ \E s \in StopSequences : f.returned = Stop(s)
  /\ TextOf(f.output) \in Texts /\ Begins(TextOf(f.output), Response(d))
  /\ Stopped(TextOf(f.output), Response(d))

FilterInv(f, d) == Open(f, d) \/ Called(f, d) \/ Matched(f, d)

\* The reasons for the end of a response differ.
LEMMA VerdictsDiffer ==
  /\ None[1] = "None" /\ Eos[1] = "Eos" /\ Length[1] = "Length" /\ ToolCalls[1] = "ToolCalls"
  /\ \A s : Stop(s)[1] = "Stop" /\ Stop(s) \notin {None, Eos, Length, ToolCalls, Cancelled}
  /\ Cancelled[1] = "Cancelled" /\ Cancelled \notin {None, Eos, Length, ToolCalls}
  /\ None \notin {Eos, Length, ToolCalls} /\ Length # Eos /\ Length # ToolCalls
BY DEF None, Eos, Length, ToolCalls, Stop, Cancelled

\* The types of what a push returns.
LEMMA PushType ==
  ASSUME NEW p \in Texts, NEW c \in Texts
  PROVE  LET out == Push(p, c) IN
         /\ out.text \in Texts /\ out.pending \in Texts
         /\ out.matched = NoMatch \/ out.matched \in StopSequences
<1> DEFINE t == p \o c
<1>1. t \in Texts /\ Len(t) \in Nat BY Joined DEF Texts
<1>2. CASE Occurrences(t) # {}
  <2> DEFINE m == EarliestMatch(t)
  <2>1. m[1] \in 1..Len(t) /\ m[2] \in StopSequences
    <3> HIDE DEF t
    <3> QED BY <1>1, <1>2, EarliestExists
  <2>2. SubSeq(t, 1, m[1] - 1) \in Texts
    <3> HIDE DEF t, m
    <3> QED BY <1>1, <2>1, Part
  <2>3. Push(p, c) = [text |-> SubSeq(t, 1, m[1] - 1), matched |-> m[2], pending |-> <<>>]
    BY <1>2 DEF Push
  <2> QED BY <2>1, <2>2, <2>3, EmptyText
<1>3. CASE Occurrences(t) = {}
  <2> DEFINE h == Holdback(t)
             n == Len(t)
  <2>1. h \in 0..n
    <3> HIDE DEF t
    <3> QED BY <1>1, HoldbackLongest
  <2>2. SubSeq(t, 1, n - h) \in Texts /\ SubSeq(t, n - h + 1, n) \in Texts
    <3> HIDE DEF t, h
    <3> QED BY <1>1, <2>1, Part
  <2>3. Push(p, c) = [text |-> SubSeq(t, 1, n - h), matched |-> NoMatch,
                      pending |-> SubSeq(t, n - h + 1, n)]
    BY <1>3 DEF Push, Suffix
  <2> QED BY <2>2, <2>3
<1> QED BY <1>2, <1>3

\* A delta adds its text, and an empty one is not sent.
LEMMA AppendTextFacts ==
  ASSUME NEW o \in Seq(Events), NEW c \in Texts
  PROVE  AppendText(o, c) \in Seq(Events) /\ TextOf(AppendText(o, c)) = TextOf(o) \o c
<1>1. Text(c) \in Events /\ Chars(Text(c)) = c BY EventShape
<1>2. TextOf(o) \in Texts /\ TextOf(Append(o, Text(c))) = TextOf(o) \o c BY <1>1, TextOfFacts
<1>3. TextOf(o) \o <<>> = TextOf(o) BY <1>2, EmptyText
<1>4. Append(o, Text(c)) \in Seq(Events) BY <1>1
<1> QED BY <1>2, <1>3, <1>4 DEF AppendText

\* What the filter makes of one event, field by field.
LEMMA FlushIs ==
  ASSUME NEW f \in Filters
  PROVE  /\ Flush(f) \in Filters /\ Flush(f).pending = <<>> /\ Flush(f).saw_tool = f.saw_tool
         /\ Flush(f).returned = f.returned /\ Flush(f).terminal = f.terminal
         /\ TextOf(Flush(f).output) = TextOf(f.output) \o f.pending
<1>1. f.output \in Seq(Events) /\ f.pending \in Texts BY DEF Filters
<1> DEFINE o == AppendText(f.output, f.pending)
<1>2. o \in Seq(Events) /\ TextOf(o) = TextOf(f.output) \o f.pending BY <1>1, AppendTextFacts
<1>3. Flush(f) = [f EXCEPT !.output = o, !.pending = <<>>] BY DEF Flush
<1> HIDE DEF o
<1> QED BY <1>2, <1>3, EmptyText DEF Filters

\* A text goes through the stop buffer, unless a tool call came before it.
LEMMA PushTextIs ==
  ASSUME NEW f \in Filters, NEW c \in Texts
  PROVE  LET g == PushText(f, c)
             out == Push(f.pending, c)
         IN  /\ g \in Filters /\ (f.saw_tool => g = f)
             /\ ~f.saw_tool =>
                  /\ g.saw_tool = f.saw_tool /\ g.pending = out.pending /\ g.terminal = f.terminal
                  /\ TextOf(g.output) = TextOf(f.output) \o out.text
                  /\ g.returned = IF out.matched = NoMatch THEN f.returned ELSE Stop(out.matched)
<1> DEFINE out == Push(f.pending, c)
           o == AppendText(f.output, out.text)
           v == IF out.matched = NoMatch THEN f.returned ELSE Stop(out.matched)
<1>1. f.output \in Seq(Events) /\ f.pending \in Texts /\ f.returned \in Verdicts BY DEF Filters
<1>2. /\ out.text \in Texts /\ out.pending \in Texts
      /\ out.matched = NoMatch \/ out.matched \in StopSequences
  BY <1>1, PushType
<1>3. PushText(f, c) = IF f.saw_tool THEN f
        ELSE [f EXCEPT !.output = o, !.pending = out.pending, !.returned = v]
  BY DEF PushText
<1> HIDE DEF out
<1>4. o \in Seq(Events) /\ TextOf(o) = TextOf(f.output) \o out.text BY <1>1, <1>2, AppendTextFacts
<1>5. v \in Verdicts BY <1>1, <1>2 DEF Verdicts
<1>6. v = IF out.matched = NoMatch THEN f.returned ELSE Stop(out.matched) OBVIOUS
<1> HIDE DEF o, v
<1>7. /\ PushText(f, c) \in Filters
      /\ f.saw_tool => PushText(f, c) = f
      /\ ~f.saw_tool => /\ PushText(f, c).output = o /\ PushText(f, c).pending = out.pending
                        /\ PushText(f, c).returned = v /\ PushText(f, c).saw_tool = f.saw_tool
                        /\ PushText(f, c).terminal = f.terminal
  BY <1>2, <1>3, <1>4, <1>5 DEF Filters
<1> QED BY <1>4, <1>6, <1>7 DEF out

\* A tool call flushes the buffer and closes the filter.
LEMMA PushToolCallIs ==
  ASSUME NEW f \in Filters
  PROVE  LET g == PushToolCall(f)
         IN  /\ g \in Filters /\ g.saw_tool /\ g.pending = <<>> /\ g.returned = ToolCalls
             /\ g.terminal = f.terminal
             /\ TextOf(g.output) = TextOf(f.output) \o f.pending
<1> DEFINE h == Flush(f)
           o == Append(h.output, ToolCall)
<1>1. /\ h \in Filters /\ h.pending = <<>> /\ TextOf(h.output) = TextOf(f.output) \o f.pending
      /\ h.terminal = f.terminal
  BY FlushIs
<1>2. PushToolCall(f) = [h EXCEPT !.output = o, !.saw_tool = TRUE, !.returned = ToolCalls]
  BY DEF PushToolCall
<1> HIDE DEF h
<1>3. h.output \in Seq(Events) BY <1>1 DEF Filters
<1>4. TextOf(o) = TextOf(h.output) \o <<>> /\ o \in Seq(Events)
  <2>1. ToolCall \in Events /\ Chars(ToolCall) = <<>> BY EventShape
  <2>2. TextOf(o) = TextOf(h.output) \o Chars(ToolCall) BY <1>3, <2>1, TextOfFacts
  <2> QED BY <1>3, <2>1, <2>2
<1>5. TextOf(h.output) \o <<>> = TextOf(h.output) BY <1>3, EventShape, TextOfFacts, EmptyText
<1>6. ToolCalls \in Verdicts BY DEF Verdicts
<1> HIDE DEF o
<1>7. /\ PushToolCall(f) \in Filters /\ PushToolCall(f).saw_tool /\ PushToolCall(f).pending = <<>>
      /\ PushToolCall(f).returned = ToolCalls /\ PushToolCall(f).output = o
      /\ PushToolCall(f).terminal = f.terminal
  BY <1>1, <1>2, <1>4, <1>6 DEF Filters
<1> QED BY <1>1, <1>4, <1>5, <1>7

\* An event leaves a filter, and the verdict of the tick alone.
LEMMA ApplyEventType ==
  ASSUME NEW f \in Filters, NEW e \in Events
  PROVE  ApplyEvent(f, e) \in Filters /\ ApplyEvent(f, e).terminal = f.terminal
<1>1. ASSUME e[1] = "Text"
      PROVE  PushText(f, e[2]) \in Filters /\ PushText(f, e[2]).terminal = f.terminal
  <2>1. e[2] \in Texts BY <1>1, EventShape
  <2>2. /\ PushText(f, e[2]) \in Filters /\ (f.saw_tool => PushText(f, e[2]) = f)
        /\ ~f.saw_tool => PushText(f, e[2]).terminal = f.terminal
    BY <2>1, PushTextIs
  <2> QED BY <2>2
<1>2. PushToolCall(f) \in Filters /\ PushToolCall(f).terminal = f.terminal BY PushToolCallIs
<1>3. LET g == [f EXCEPT !.output = Append(@, Reasoning)]
      IN  g \in Filters /\ g.terminal = f.terminal
  <2>1. Append(f.output, Reasoning) \in Seq(Events) BY EventShape DEF Filters
  <2> QED BY <2>1 DEF Filters
<1> QED BY <1>1, <1>2, <1>3 DEF ApplyEvent

\* The beginning of a text without a stop sequence has none.
LEMMA BeginningIsClean ==
  ASSUME NEW z \in Texts, NEW y \in Texts, Begins(z, y), Occurrences(y) = {}
  PROVE  Occurrences(z) = {}
<1> SUFFICES ASSUME NEW i \in 1..Len(z), NEW s \in StopSequences, OccursAt(s, z, i) PROVE FALSE
  BY OccurrenceIs
<1>1. i \in Nat \ {0} /\ i \in 1..Len(y)
  <2>1. Len(y) \in Nat BY DEF Texts
  <2> QED BY <2>1 DEF Begins
<1>2. OccursAt(s, y, i) BY <1>1, OccursLater
<1> QED BY <1>1, <1>2, OccurrenceIs

\* The beginning of a text is one of any text that goes on from it.
LEMMA BeginsJoined ==
  ASSUME NEW z \in Texts, NEW y \in Texts, NEW c \in Texts
  PROVE  Begins(y, y \o c) /\ Begins(y, y) /\ (Begins(z, y) => Begins(z, y \o c))
<1> DEFINE x == y \o c
<1>1. x \in Texts /\ Len(x) = Len(y) + Len(c) /\ Len(y) \in Nat /\ Len(c) \in Nat
      /\ \A k \in 1..Len(y) : x[k] = y[k]
  BY Joined
<1>2. Len(z) \in Nat BY DEF Texts
<1> HIDE DEF x
<1> QED BY <1>1, <1>2 DEF x, Begins

\* The text behind a stop sequence changes nothing.
LEMMA StoppedStays ==
  ASSUME NEW z, NEW x \in Texts, NEW c \in Texts, Stopped(z, x)
  PROVE  Stopped(z, x \o c)
<1>1. PICK y \in Texts : StoppedAt(z, y, x) BY DEF Stopped
<1>2. Begins(y, x \o c) BY <1>1, BeginsJoined DEF StoppedAt
<1>3. StoppedAt(z, y, x \o c) BY <1>1, <1>2 DEF StoppedAt
<1> QED BY <1>3 DEF Stopped

\* Until a stop sequence ends it, what was handed out is clean.
LEMMA HeldBackIsClean ==
  ASSUME NEW d \in Seq(Events), NEW z \in Texts, NEW p \in Texts
  PROVE  HeldBack(z, p, Response(d)) \/ Whole(z, d) => Clean(z, d)
<1>1. Response(d) \in Texts BY ResponseGrows, EventShape
<1>2. CASE HeldBack(z, p, Response(d))
  <2>1. Begins(z, Response(d)) BY <1>2, BeginsJoined DEF HeldBack
  <2> QED BY <1>2, <2>1 DEF Clean, HeldBack
<1>3. CASE Whole(z, d) BY <1>1, <1>3, BeginsJoined DEF Whole, Clean
<1> QED BY <1>2, <1>3

\* A text that an open filter takes leaves it open, or a stop sequence ends it.
LEMMA OpenTakesText ==
  ASSUME NEW f \in Filters, NEW d \in Seq(Events), NEW e \in Events, e[1] = "Text", Open(f, d)
  PROVE  FilterInv(PushText(f, e[2]), Append(d, e))
<1> DEFINE c == e[2]
           z == TextOf(f.output)
           p == f.pending
           W == Response(d)
           V == Response(Append(d, e))
           g == PushText(f, c)
           out == Push(p, c)
<1>1. c \in Texts /\ e # ToolCall /\ Chars(e) = c BY EventShape
<1>2. z \in Texts /\ p \in Texts BY EventShape, TextOfFacts DEF Filters
<1>3. /\ W = z \o p /\ Occurrences(z \o p) = {} /\ Settled(z, z \o p)
      /\ ~f.saw_tool /\ f.returned = None /\ ToolCall \notin ToSet(d)
  BY DEF Open, HeldBack
<1>4. V = (z \o p) \o c /\ ToolCall \notin ToSet(Append(d, e))
  BY <1>1, <1>3, ResponseGrows
<1>5. /\ g.saw_tool = f.saw_tool /\ g.pending = out.pending
      /\ TextOf(g.output) = z \o out.text
      /\ g.returned = IF out.matched = NoMatch THEN f.returned ELSE Stop(out.matched)
  BY <1>1, <1>3, PushTextIs
<1>6. V \in Texts
  <2>1. z \o p \in Texts BY <1>2, Joined
  <2> HIDE DEF z, p, V
  <2> QED BY <1>1, <1>4, <2>1, Joined
<1> HIDE DEF z, p, W, V, g, out
<1>7. CASE Occurrences(p \o c) = {}
  <2>1. /\ out.matched = NoMatch /\ HeldBack(z \o out.text, out.pending, (z \o p) \o c)
    BY <1>1, <1>2, <1>3, <1>7, PushHoldsBack DEF out
  <2>2. Open(g, Append(d, e)) BY <1>3, <1>4, <1>5, <2>1 DEF Open, V
  <2> QED BY <2>2 DEF FilterInv, g
<1>8. CASE Occurrences(p \o c) # {}
  <2>1. /\ out.matched \in StopSequences /\ out.text \in Texts
        /\ Cut(z \o out.text, out.matched, (z \o p) \o c)
        /\ OccursAt(out.matched, (z \o p) \o c, Len(z \o out.text) + 1)
        /\ \A i \in 1..Len((z \o p) \o c), u \in StopSequences :
             OccursAt(u, (z \o p) \o c, i) => Len(z \o out.text) < i
    <3> HIDE DEF Cut
    <3> QED BY <1>1, <1>2, <1>3, <1>8, PushCuts DEF out
  <2> DEFINE y == z \o out.text
             s == out.matched
             w == y \o s
  <2>2. y \in Texts /\ s \in Texts /\ s # <<>> BY <1>2, <2>1, Joined, StopShape
  <2>3. IsPrefix(w, V) /\ Occurrences(y) = {} BY <1>4, <2>1 DEF Cut
  <2> HIDE DEF y, s
  <2>4. w \in Texts /\ Begins(y, w) /\ Len(w) \in Nat BY <2>2, Joined, BeginsJoined DEF Texts
  <2> HIDE DEF w
  <2>5. Begins(w, V)
    <3> DEFINE n == Len(w)
    <3>1. n <= Len(V) /\ SubSeq(w, 1, n) = SubSeq(V, 1, n) BY <2>3 DEF IsPrefix
    <3>2. \A k \in 1..n : SubSeq(w, 1, n)[k] = w[k] BY <2>4, Part
    <3>3. \A k \in 1..n : SubSeq(V, 1, n)[k] = V[k]
      <4>1. n \in Nat BY <2>4
      <4> HIDE DEF n
      <4> QED BY <1>6, <3>1, <4>1, Part
    <3> QED BY <3>1, <3>2, <3>3 DEF Begins
  <2>6. Begins(y, V)
    <3>1. Len(y) \in Nat /\ Len(V) \in Nat BY <1>6, <2>2 DEF Texts
    <3> QED BY <2>4, <2>5, <3>1 DEF Begins
  <2>7. g.returned = Stop(s) /\ TextOf(g.output) = y /\ s \in StopSequences
    BY <1>5, <2>1, <2>2 DEF s, y, NoMatch
  <2>8. Stopped(y, V)
    <3>1. OccursAt(s, V, Len(y) + 1) BY <1>4, <2>1 DEF y, s
    <3>2. Len(y) + 1 \in 1..Len(V)
      <4>1. Len(w) = Len(y) + Len(s) /\ Len(y) \in Nat BY <2>2, Joined DEF w
      <4>2. Len(s) \in Nat \ {0} BY <2>7, StopShape
      <4>3. Len(w) <= Len(V) /\ Len(V) \in Nat BY <1>6, <2>5 DEF Begins, Texts
      <4> QED BY <4>1, <4>2, <4>3
    <3>3. Occurrences(V) # {} BY <2>7, <3>1, <3>2, OccurrenceIs
    <3>4. Begins(V, V) BY <1>6, BeginsJoined
    <3>5. \A i \in 1..Len(V), u \in StopSequences : OccursAt(u, V, i) => Len(y) < i
      BY <1>4, <2>1 DEF y
    <3>6. StoppedAt(y, V, V) BY <3>3, <3>4, <3>5 DEF StoppedAt
    <3> QED BY <1>6, <3>6 DEF Stopped
  <2>9. Matched(g, Append(d, e)) BY <2>2, <2>6, <2>7, <2>8 DEF Matched, V
  <2> QED BY <2>9 DEF FilterInv, g
<1> QED BY <1>7, <1>8

\* apply keeps the invariant of the filter, event by event.
LEMMA ApplyEventKeeps ==
  ASSUME NEW f \in Filters, NEW d \in Seq(Events), NEW e \in Events, FilterInv(f, d)
  PROVE  FilterInv(ApplyEvent(f, e), Append(d, e))
<1> DEFINE g == ApplyEvent(f, e)
           z == TextOf(f.output)
           W == Response(d)
           V == Response(Append(d, e))
<1>1. /\ W \in Texts /\ Chars(e) \in Texts
      /\ ToolCall \in ToSet(d) \/ e = ToolCall => V = W
      /\ ToolCall \notin ToSet(d) /\ e # ToolCall => V = W \o Chars(e)
      /\ ToolCall \in ToSet(Append(d, e)) <=> ToolCall \in ToSet(d) \/ e = ToolCall
  BY ResponseGrows, EventShape
<1>2. z \in Texts /\ f.output \in Seq(Events) /\ f.pending \in Texts
  BY EventShape, TextOfFacts DEF Filters
<1>3. \/ e[1] = "Text" /\ e # ToolCall
      \/ e = ToolCall /\ e[1] # "Text"
      \/ e = Reasoning /\ e # ToolCall /\ e[1] # "Text" /\ Chars(e) = <<>>
  BY EventShape
<1>4. CASE Matched(f, d)
  <2>1. g = f BY <1>4, VerdictsDiffer DEF Matched, ApplyEvent
  <2>2. Begins(z, V) BY <1>1, <1>2, <1>4, BeginsJoined DEF Matched
  <2>3. Stopped(z, V) BY <1>1, <1>4, StoppedStays DEF Matched
  <2>4. Matched(f, Append(d, e)) BY <1>4, <2>2, <2>3 DEF Matched
  <2> QED BY <2>1, <2>4 DEF FilterInv
<1>5. CASE Called(f, d)
  <2>0. V = W /\ ToolCall \in ToSet(Append(d, e)) BY <1>1, <1>5 DEF Called
  <2>1. CASE f.returned # None \/ e # ToolCall
    <3>1. g = f
      <4>1. e[1] = "Text" => PushText(f, e[2]) = f BY <1>5 DEF Called, PushText
      <4> QED BY <1>3, <1>5, <2>1, <4>1 DEF Called, ApplyEvent
    <3>2. Called(f, Append(d, e)) BY <1>5, <2>0 DEF Called, Whole
    <3> QED BY <3>1, <3>2 DEF FilterInv
  <2>2. CASE f.returned = None /\ e = ToolCall
    <3>1. g = PushToolCall(f) BY <1>3, <2>2 DEF ApplyEvent
    <3>2. TextOf(g.output) = z \o f.pending /\ g.saw_tool /\ g.pending = <<>> /\ g.returned = ToolCalls
      BY <3>1, PushToolCallIs
    <3>3. z \o f.pending = z BY <1>2, <1>5, EmptyText DEF Called
    <3> HIDE DEF g
    <3>4. Called(g, Append(d, e)) BY <1>5, <2>0, <3>2, <3>3 DEF Called, Whole
    <3> QED BY <3>4 DEF FilterInv, g
  <2> QED BY <2>1, <2>2
<1>6. CASE Open(f, d)
  <2>0. f.returned = None /\ ~f.saw_tool /\ ToolCall \notin ToSet(d) BY <1>6 DEF Open
  <2>1. CASE e[1] = "Text"
    <3>1. g = PushText(f, e[2]) BY <2>0, <2>1 DEF ApplyEvent
    <3>2. FilterInv(PushText(f, e[2]), Append(d, e)) BY <1>6, <2>1, OpenTakesText
    <3> QED BY <3>1, <3>2
  <2>2. CASE e = ToolCall
    <3>1. g = PushToolCall(f) BY <1>3, <2>0, <2>2 DEF ApplyEvent
    <3>2. TextOf(g.output) = z \o f.pending /\ g.saw_tool /\ g.pending = <<>> /\ g.returned = ToolCalls
      BY <3>1, PushToolCallIs
    <3>3. z \o f.pending = V /\ Occurrences(V) = {} BY <1>1, <1>6, <2>2 DEF Open, HeldBack
    <3> HIDE DEF g
    <3>4. Called(g, Append(d, e)) BY <1>1, <2>2, <3>2, <3>3 DEF Called, Whole
    <3> QED BY <3>4 DEF FilterInv, g
  <2>3. CASE e = Reasoning /\ e # ToolCall /\ e[1] # "Text" /\ Chars(e) = <<>>
    <3> DEFINE o == Append(f.output, Reasoning)
    <3>1. g = [f EXCEPT !.output = o] BY <2>0, <2>3 DEF ApplyEvent
    <3>2. TextOf(o) = z
      <4>1. TextOf(Append(f.output, e)) = z \o Chars(e) BY <1>2, TextOfFacts
      <4> QED BY <1>2, <2>3, <4>1, EmptyText
    <3>3. V = W
      <4>1. W \o <<>> = W BY <1>1, EmptyText
      <4> QED BY <1>1, <2>0, <2>3, <4>1
    <3> HIDE DEF o
    <3>4. /\ g.output = o /\ g.pending = f.pending /\ g.returned = f.returned
          /\ g.saw_tool = f.saw_tool
      BY <3>1 DEF Filters
    <3> HIDE DEF g
    <3>5. Open(g, Append(d, e)) BY <1>1, <1>6, <2>3, <3>2, <3>3, <3>4 DEF Open
    <3> QED BY <3>5 DEF FilterInv, g
  <2> QED BY <1>3, <2>1, <2>2, <2>3
<1> QED BY <1>4, <1>5, <1>6 DEF FilterInv

\* The largest member, as a fold from the left takes it out.
LEMMA LargestMember ==
  ASSUME NEW n \in Nat
  PROVE  /\ \A s \in SUBSET (1..n) : s # {} => Max(s) \in s
         /\ \A i \in 1..n : Max(1..i) = i /\ (1..i) \ {i} = 1..(i - 1)
<1>1. ASSUME NEW s \in SUBSET (1..n), s # {} PROVE Max(s) \in s
  <2> DEFINE T == {d \in 0..n : n - d \in s}
  <2>1. T \in SUBSET Nat /\ T # {}
    <3>1. PICK x \in s : TRUE BY <1>1
    <3>2. x \in 1..n /\ n - x \in 0..n /\ n - (n - x) = x OBVIOUS
    <3>3. n - x \in T BY <3>2
    <3>4. T \in SUBSET Nat OBVIOUS
    <3> HIDE DEF T
    <3> QED BY <3>3, <3>4
  <2>2. PICK d \in T : \A k \in T : d <= k
    <3> HIDE DEF T
    <3> QED BY <2>1, LeastNat
  <2>3. n - d \in s /\ d \in 0..n OBVIOUS
  <2>4. ASSUME NEW y \in s PROVE n - d >= y
    <3>1. y \in 1..n /\ n - y \in 0..n /\ n - (n - y) = y OBVIOUS
    <3>2. n - y \in T BY <3>1
    <3>3. d <= n - y BY <2>2, <3>2
    <3> QED BY <2>3, <3>1, <3>3
  <2>5. \E x \in s : \A y \in s : x >= y BY <2>3, <2>4
  <2> QED BY <2>5 DEF Max
<1>2. ASSUME NEW i \in 1..n PROVE Max(1..i) = i /\ (1..i) \ {i} = 1..(i - 1)
  <2>1. i \in 1..i /\ \A y \in 1..i : i >= y OBVIOUS
  <2>2. \A x \in 1..i : (\A y \in 1..i : x >= y) => x = i BY <2>1
  <2>3. Max(1..i) = CHOOSE x \in 1..i : \A y \in 1..i : x >= y BY DEF Max
  <2>4. Max(1..i) = i BY <2>1, <2>2, <2>3
  <2>5. (1..i) \ {i} = 1..(i - 1) OBVIOUS
  <2> QED BY <2>4, <2>5
<1> QED BY <1>1, <1>2

\* g are the filters behind each event of q.
Filtering(g, b, q) ==
  /\ g \in [0..Len(q) -> Filters] /\ g[0] = b
  /\ \A i \in 1..Len(q) : g[i] = ApplyEvent(g[i - 1], q[i])

\* apply takes the events one by one: the fold that defines it has a solution.
LEMMA ApplyFolds ==
  ASSUME NEW b \in Filters, NEW q \in Seq(Events)
  PROVE  \E g : Filtering(g, b, q) /\ FoldLeft(ApplyEvent, b, q) = g[Len(q)]
<1> DEFINE n == Len(q)
           S == 1..n
           D == [i \in S |-> [f \in Filters |-> ApplyEvent(f, q[i])]]
           c == [s \in SUBSET S |-> Max(s)]
           Def(h) == [s \in SUBSET S |-> IF s = {} THEN b
                                         ELSE ApplyEvent(h[s \ {Max(s)}], q[Max(s)])]
           K == CHOOSE h : h = Def(h)
<1>1. n \in Nat /\ DOMAIN q = S /\ \A i \in S : q[i] \in Events OBVIOUS
<1>2. FoldLeft(ApplyEvent, b, q) = K[S]
  <2>1. FoldLeft(ApplyEvent, b, q) =
          (CHOOSE h : h = [s \in SUBSET (DOMAIN q) |-> IF s = {} THEN b
              ELSE ApplyEvent(h[s \ {Max(s)}], q[Max(s)])])[DOMAIN q]
    BY Zenon DEF FoldLeft, MapThenFoldSet
  <2> QED BY <1>1, <2>1, Zenon
<1>3. D \in [S -> [Filters -> Filters]]
  <2>1. \A i \in S : \A f \in Filters : ApplyEvent(f, q[i]) \in Filters BY <1>1, ApplyEventType
  <2> QED BY <2>1
<1>4. \A s \in SUBSET S : s # {} => Max(s) \in s BY <1>1, LargestMember
<1>5. IsFiniteSet(S) BY <1>1, FS_Interval
<1>6. \E R : R = Def(R)
  <2>1. \A s \in SUBSET S : s # {} => c[s] \in s BY <1>4
  <2>2. PICK R : FoldsOver(R, S, Filters, b, D, c)
    <3> HIDE DEF D, c, S
    <3> QED BY <1>3, <1>5, <2>1, FoldExists
  <2>3. /\ R \in [SUBSET S -> Filters]
        /\ R = [s \in SUBSET S |-> IF s = {} THEN b ELSE D[c[s]][R[s \ {c[s]}]]]
    BY <2>2, Zenon DEF FoldsOver
  <2>4. ASSUME NEW s \in SUBSET S, s # {}
        PROVE  D[c[s]][R[s \ {c[s]}]] = ApplyEvent(R[s \ {Max(s)}], q[Max(s)])
    <3>1. c[s] = Max(s) /\ Max(s) \in S BY <1>4, <2>4
    <3>2. s \ {Max(s)} \in SUBSET S OBVIOUS
    <3>3. R[s \ {Max(s)}] \in Filters BY <2>3, <3>2
    <3> HIDE DEF c, S
    <3> QED BY <3>1, <3>3
  <2> HIDE DEF D, c, S
  <2>5. R = Def(R) BY <2>3, <2>4
  <2> QED BY <2>5
<1>7. K = Def(K)
  <2> HIDE DEF Def
  <2> QED BY <1>6, Zenon
<1> HIDE DEF K
<1>8. K[{}] = b /\ \A s \in SUBSET S : s # {} => K[s] = ApplyEvent(K[s \ {Max(s)}], q[Max(s)])
  <2> HIDE DEF S
  <2> QED BY <1>7
<1>9. \E g : Iterates(g, n, Filters, b, D)
  <2> HIDE DEF D, n
  <2> QED BY <1>1, <1>3, RecursionExists DEF S
<1>10. PICK g : Iterates(g, n, Filters, b, D) BY <1>9
<1>11. g \in [0..n -> Filters] /\ g[0] = b /\ \A i \in 1..n : g[i] = D[i][g[i - 1]]
  BY <1>10, Zenon DEF Iterates
<1>12. ASSUME NEW i \in 1..n PROVE g[i] = ApplyEvent(g[i - 1], q[i])
  <2>1. i - 1 \in 0..n BY <1>1
  <2>2. g[i - 1] \in Filters BY <1>11, <2>1
  <2> QED BY <1>11, <2>2
<1> DEFINE T == {i \in 0..n : K[1..i] = g[i]}
<1>13. 0 \in T
  <2>1. 1..0 = {} OBVIOUS
  <2>2. K[1..0] = g[0] BY <1>8, <1>11, <2>1
  <2> QED BY <1>1, <2>2
<1>14. ASSUME NEW i \in 1..n, i - 1 \in T PROVE i \in T
  <2>0. i \in 0..n /\ i \in 1..i BY <1>1
  <2>1. i \in 0..n /\ 1..i \in SUBSET S /\ 1..i # {}
    <3>1. \A k \in 1..i : k \in 1..n BY <1>1
    <3> QED BY <2>0, <3>1
  <2>2. Max(1..i) = i /\ (1..i) \ {i} = 1..(i - 1) BY <1>1, LargestMember
  <2>3. K[1..i] = ApplyEvent(K[1..(i - 1)], q[i]) BY <1>8, <2>1, <2>2, Zenon
  <2>4. K[1..(i - 1)] = g[i - 1] BY <1>14
  <2>5. K[1..i] = g[i] BY <1>12, <2>3, <2>4, Zenon
  <2> QED BY <2>1, <2>5
<1>15. \A i \in 0..n : i \in T
  <2> HIDE DEF T, n
  <2> QED BY <1>1, <1>13, <1>14, IntervalInduction
<1>16. K[S] = g[n] BY <1>1, <1>15
<1>17. Filtering(g, b, q) BY <1>11, <1>12 DEF Filtering
<1> QED BY <1>2, <1>16, <1>17

\* A member more at the end of a concatenation.
LEMMA ConcatAppend ==
  ASSUME NEW U, NEW d \in Seq(U), NEW a \in Seq(U), NEW e \in U
  PROVE  d \o Append(a, e) = Append(d \o a, e)
OBVIOUS

\* The events up to and with the next one.
LEMMA PrefixGrows ==
  ASSUME NEW U, NEW d \in Seq(U), NEW q \in Seq(U), NEW i \in 1..Len(q)
  PROVE  /\ d \o SubSeq(q, 1, i - 1) \in Seq(U) /\ q[i] \in U
         /\ d \o SubSeq(q, 1, i) = Append(d \o SubSeq(q, 1, i - 1), q[i])
<1> DEFINE a == SubSeq(q, 1, i - 1)
<1>1. Len(q) \in Nat /\ \A k \in 1..Len(q) : q[k] \in U OBVIOUS
<1>2. a \in Seq(U)
  <2>1. \A k \in 1..(i - 1) : q[k] \in U BY <1>1
  <2> QED BY <1>1, <2>1, SubSeqProperties
<1>3. q[i] \in U BY <1>1
<1>4. SubSeq(q, 1, i) = a \o <<q[i]>>
  <2>1. 1 \in 1..Len(q) /\ i \in 1..Len(q) BY <1>1
  <2> QED BY <2>1, SubSeqRecursiveSecond
<1> HIDE DEF a
<1>5. Append(a, q[i]) = a \o <<q[i]>> BY <1>2, <1>3, AppendIsConcat
<1>6. d \o Append(a, q[i]) = Append(d \o a, q[i]) BY <1>2, <1>3, ConcatAppend
<1>7. d \o a \in Seq(U) BY <1>2
<1> QED BY <1>3, <1>4, <1>5, <1>6, <1>7 DEF a

\* apply keeps the invariant of the filter.
LEMMA ApplyKeeps ==
  ASSUME NEW f \in Filters, NEW d \in Seq(Events), NEW q \in Seq(Events),
         FilterInv([f EXCEPT !.returned = None], d)
  PROVE  /\ Apply(f, q) \in Filters /\ Apply(f, q).terminal = f.terminal
         /\ d \o q \in Seq(Events) /\ FilterInv(Apply(f, q), d \o q)
<1> DEFINE b == [f EXCEPT !.returned = None]
           n == Len(q)
<1>1. b \in Filters /\ b.terminal = f.terminal BY DEF Filters, Verdicts
<1>2. Apply(f, q) = FoldLeft(ApplyEvent, b, q) BY Zenon DEF Apply
<1>0. FilterInv(b, d) OBVIOUS
<1> HIDE DEF b
<1>3. PICK g : Filtering(g, b, q) /\ FoldLeft(ApplyEvent, b, q) = g[n] BY <1>1, ApplyFolds
<1>4. /\ g \in [0..n -> Filters] /\ g[0] = b /\ \A i \in 1..n : g[i] = ApplyEvent(g[i - 1], q[i])
  BY <1>3, Zenon DEF Filtering
<1>5. n \in Nat OBVIOUS
<1> DEFINE P(i) == d \o SubSeq(q, 1, i)
           T == {i \in 0..n : FilterInv(g[i], P(i)) /\ g[i].terminal = f.terminal}
<1>6. 0 \in T
  <2>1. P(0) = d
    <3>1. SubSeq(q, 1, 0) = <<>> OBVIOUS
    <3> QED BY <3>1
  <2> HIDE DEF P
  <2>2. 0 \in 0..n BY <1>5
  <2>3. FilterInv(g[0], P(0)) /\ g[0].terminal = f.terminal BY <1>0, <1>1, <1>4, <2>1, Zenon
  <2> QED BY <2>2, <2>3
<1>7. ASSUME NEW i \in 1..n, i - 1 \in T PROVE i \in T
  <2>1. P(i - 1) \in Seq(Events) /\ q[i] \in Events /\ P(i) = Append(P(i - 1), q[i])
    BY PrefixGrows
  <2> HIDE DEF P
  <2>2. i \in 0..n /\ i - 1 \in 0..n BY <1>5
  <2>3. g[i - 1] \in Filters BY <1>4, <2>2
  <2>4. FilterInv(g[i - 1], P(i - 1)) /\ g[i - 1].terminal = f.terminal BY <1>7
  <2>5. FilterInv(ApplyEvent(g[i - 1], q[i]), Append(P(i - 1), q[i]))
    BY <2>1, <2>3, <2>4, ApplyEventKeeps
  <2>6. ApplyEvent(g[i - 1], q[i]).terminal = f.terminal BY <2>1, <2>3, <2>4, ApplyEventType
  <2>7. FilterInv(g[i], P(i)) /\ g[i].terminal = f.terminal BY <1>4, <2>1, <2>5, <2>6, Zenon
  <2> QED BY <2>2, <2>7
<1>8. \A i \in 0..n : i \in T
  <2> HIDE DEF T, n
  <2> QED BY <1>5, <1>6, <1>7, IntervalInduction
<1>9. n \in 0..n BY <1>5
<1>10. FilterInv(g[n], P(n)) /\ g[n].terminal = f.terminal /\ g[n] \in Filters
  BY <1>4, <1>8, <1>9
<1>11. P(n) = d \o q
  <2>1. SubSeq(q, 1, n) = q OBVIOUS
  <2> QED BY <2>1
<1>12. d \o q \in Seq(Events) OBVIOUS
<1> HIDE DEF P, n
<1> QED BY <1>2, <1>3, <1>10, <1>11, <1>12, Zenon

-----------------------------------------------------------------------------
(***************************************************************************)
(* The chat service, one token to a tick.                                  *)
(***************************************************************************)

\* The filter at the start of a tick.
Filter == [pending |-> withheld, saw_tool |-> saw_tool, output |-> output,
           returned |-> None, terminal |-> None]

\* Neither property is inductive: what the filter holds back and has handed out makes up
\* the response only as long as it takes text, and a tool call closes it.
ChatInv ==
  ~speculative =>
    /\ tokens \in Nat /\ events \in Seq(Events) /\ Filter \in Filters
    /\ tokens = 0 => withheld = <<>>
    /\ reason = None => Open(Filter, events) \/ Called(Filter, events)
    /\ reason \in {Eos, Length, ToolCalls} => Whole(TextOf(output), events)
    /\ Clean(TextOf(output), events)

\* The filter holds the state of the request.
LEMMA FilterIs ==
  /\ Filter.pending = withheld /\ Filter.saw_tool = saw_tool /\ Filter.output = output
  /\ Filter.returned = None /\ Filter.terminal = None /\ [Filter EXCEPT !.returned = None] = Filter
BY DEF Filter

\* A new request has no text.
LEMMA ChatStarts == ChatInit => ChatInv
<1> SUFFICES ASSUME ChatInit, ~speculative PROVE ChatInv BY DEF ChatInv
<1>1. /\ tokens = 0 /\ events = <<>> /\ withheld = <<>>
      /\ saw_tool = FALSE /\ output = <<>> /\ reason = None
  BY DEF ChatInit
<1>2. <<>> \in Texts /\ <<>> \in Seq(Events) /\ <<>> \o <<>> = <<>> BY EmptyText
<1>3. Filter \in Filters BY <1>1, <1>2, FilterIs DEF Filter, Filters, Verdicts
<1>4. ToSet(<<>>) = {} BY DEF ToSet
<1>5. TextOf(<<>>) = <<>> /\ Response(<<>>) = <<>>
  <2>1. TextOf(<<>>) = <<>> BY <1>2, EventShape, TextOfFacts
  <2> QED BY <1>4, <2>1 DEF Response, Before
<1>6. HeldBack(<<>>, <<>>, <<>>) BY <1>2, NothingYet DEF HeldBack
<1>7. Open(Filter, events) BY <1>1, <1>4, <1>5, <1>6, FilterIs DEF Open
<1>8. Clean(TextOf(output), events) BY <1>1, <1>2, <1>5, <1>6, HeldBackIsClean
<1> QED BY <1>1, <1>2, <1>3, <1>7, <1>8, VerdictsDiffer DEF ChatInv

\* A token's events, then its verdict: the filter's before the scheduler's.
LEMMA ApplyTokenKeeps ==
  ASSUME NEW f \in Filters, NEW d \in Seq(Events), FilterInv([f EXCEPT !.returned = None], d),
         f.terminal = None,
         NEW t, t.events \in Seq(Events), t.finish \in {None, Eos, Length, ToolCalls}
  PROVE  LET g == ApplyToken(f, t) IN
         /\ g \in Filters /\ d \o t.events \in Seq(Events) /\ FilterInv(g, d \o t.events)
         /\ g.terminal = IF g.returned # None THEN g.returned ELSE t.finish
<1> DEFINE a == Apply(f, t.events)
           v == IF a.returned # None THEN a.returned ELSE t.finish
           g == ApplyToken(f, t)
<1>1. /\ a \in Filters /\ a.terminal = None
      /\ d \o t.events \in Seq(Events) /\ FilterInv(a, d \o t.events)
  BY ApplyKeeps
<1>2. g = [a EXCEPT !.terminal = IF a.returned # None THEN a.returned
                                 ELSE IF t.finish # None THEN t.finish ELSE @]
  BY Zenon DEF ApplyToken
<1> HIDE DEF a
<1>3. g = [a EXCEPT !.terminal = v] BY <1>1, <1>2
<1>4. v \in Verdicts BY <1>1 DEF Filters, Verdicts
<1> HIDE DEF v, g
<1>5. /\ g \in Filters /\ g.terminal = v /\ g.pending = a.pending /\ g.saw_tool = a.saw_tool
      /\ g.output = a.output /\ g.returned = a.returned
  BY <1>1, <1>3, <1>4 DEF Filters
<1>6. FilterInv(g, d \o t.events) BY <1>1, <1>5 DEF FilterInv, Open, Called, Matched
<1> QED BY <1>1, <1>5, <1>6 DEF v, g

\* The end of the stream: the codec's last events, then the text held back.
LEMMA FinishKeeps ==
  ASSUME NEW f \in Filters, NEW d \in Seq(Events), FilterInv(f, d),
         f.terminal # None, f.terminal[1] # "Stop", f.returned = None \/ f.returned = f.terminal,
         NEW final \in Seq(Events)
  PROVE  LET g == FinishTerminal(f, final) IN
         /\ g \in Filters /\ d \o final \in Seq(Events) /\ g.terminal # None
         /\ g.terminal \in {Eos, Length, ToolCalls} => Whole(TextOf(g.output), d \o final)
         /\ Clean(TextOf(g.output), d \o final)
<1> DEFINE b == [f EXCEPT !.returned = None]
           a == Apply(f, final)
           g == FinishTerminal(f, final)
           D == d \o final
<1>1. FilterInv(b, d)
  <2>1. b.pending = f.pending /\ b.saw_tool = f.saw_tool /\ b.output = f.output /\ b.returned = None
    BY DEF Filters
  <2>2. ~Matched(f, d) BY VerdictsDiffer DEF Matched
  <2> HIDE DEF b
  <2> QED BY <2>1, <2>2 DEF FilterInv, Open, Called
<1>2. a \in Filters /\ a.terminal = f.terminal /\ D \in Seq(Events) /\ FilterInv(a, D)
  BY <1>1, ApplyKeeps
<1>3. g = IF a.returned # None THEN [a EXCEPT !.terminal = a.returned]
          ELSE IF a.saw_tool THEN [a EXCEPT !.terminal = ToolCalls] ELSE Flush(a)
  BY DEF FinishTerminal
<1> HIDE DEF a, g, D
<1>4. TextOf(a.output) \in Texts /\ a.pending \in Texts /\ a.returned \in Verdicts
  BY <1>2, EventShape, TextOfFacts DEF Filters
<1>5. ASSUME NEW v \in Verdicts, g = [a EXCEPT !.terminal = v]
      PROVE  g \in Filters /\ g.terminal = v /\ g.output = a.output
  BY <1>2, <1>5 DEF Filters
<1>6. CASE Matched(a, D)
  <2>1. PICK s \in StopSequences : a.returned = Stop(s) BY <1>6 DEF Matched
  <2>2. g = [a EXCEPT !.terminal = Stop(s)] BY <1>3, <2>1, VerdictsDiffer
  <2>3. g \in Filters /\ g.terminal = Stop(s) /\ g.output = a.output BY <1>4, <1>5, <2>1, <2>2
  <2>4. g.terminal \notin {None, Eos, Length, ToolCalls} BY <2>3, VerdictsDiffer
  <2> QED BY <1>2, <1>6, <2>3, <2>4 DEF Matched, Clean, D, g
<1>7. CASE Called(a, D)
  <2>1. a.returned \in {None, ToolCalls} /\ a.saw_tool /\ Whole(TextOf(a.output), D)
    BY <1>7 DEF Called
  <2>2. g = [a EXCEPT !.terminal = ToolCalls] BY <1>3, <2>1
  <2>3. g \in Filters /\ g.terminal = ToolCalls /\ g.output = a.output
    BY <1>5, <2>2 DEF Verdicts
  <2>4. Clean(TextOf(a.output), D) BY <1>2, <1>4, <2>1, HeldBackIsClean
  <2> QED BY <1>2, <2>1, <2>3, <2>4, VerdictsDiffer DEF D, g
<1>8. CASE Open(a, D)
  <2>1. /\ a.returned = None /\ ~a.saw_tool
        /\ TextOf(a.output) \o a.pending = Response(D) /\ Occurrences(Response(D)) = {}
    BY <1>8 DEF Open, HeldBack
  <2>2. g = Flush(a) BY <1>3, <2>1
  <2>3. g \in Filters /\ g.terminal = f.terminal /\ TextOf(g.output) = Response(D)
    BY <1>2, <2>1, <2>2, FlushIs
  <2>4. Whole(TextOf(g.output), D) BY <2>1, <2>3 DEF Whole
  <2>5. Response(D) \in Texts BY <1>2, EventShape, ResponseGrows
  <2>6. Clean(TextOf(g.output), D) BY <1>2, <2>3, <2>4, <2>5, HeldBackIsClean
  <2> QED BY <1>2, <2>3, <2>4, <2>6 DEF D, g
<1> QED BY <1>2, <1>6, <1>7, <1>8 DEF FilterInv

\* A fold over one token applies it.
LEMMA OneToken ==
  ASSUME NEW b, NEW batch, DOMAIN batch = 1..1
  PROVE  FoldLeft(ApplyToken, b, batch) = ApplyToken(b, batch[1])
<1> DEFINE S == 1..1
           Def(h) == [s \in SUBSET S |-> IF s = {} THEN b
                                         ELSE ApplyToken(h[s \ {Max(s)}], batch[Max(s)])]
           K == CHOOSE h : h = Def(h)
           R == [s \in SUBSET S |-> IF s = {} THEN b ELSE ApplyToken(b, batch[1])]
<1>1. FoldLeft(ApplyToken, b, batch) = K[S]
  <2>1. FoldLeft(ApplyToken, b, batch) =
          (CHOOSE h : h = [s \in SUBSET (DOMAIN batch) |-> IF s = {} THEN b
              ELSE ApplyToken(h[s \ {Max(s)}], batch[Max(s)])])[DOMAIN batch]
    BY Zenon DEF FoldLeft, MapThenFoldSet
  <2> QED BY <2>1, Zenon
<1>2. S = {1} /\ S \in SUBSET S /\ {} \in SUBSET S OBVIOUS
<1>3. \A s \in SUBSET S : s # {} => Max(s) = 1 /\ s \ {Max(s)} = {}
  <2> SUFFICES ASSUME NEW s \in SUBSET S, s # {} PROVE Max(s) = 1 /\ s \ {Max(s)} = {} OBVIOUS
  <2>1. Max(s) \in s BY LargestMember
  <2> QED BY <1>2, <2>1
<1> HIDE DEF S
<1>4. R = Def(R)
  <2>1. ASSUME NEW s \in SUBSET S PROVE R[s] = Def(R)[s]
    <3>1. CASE s = {} BY <3>1
    <3>2. CASE s # {}
      <4>1. R[{}] = b BY <1>2
      <4>2. Def(R)[s] = ApplyToken(R[s \ {Max(s)}], batch[Max(s)]) BY <3>2
      <4>3. Max(s) = 1 /\ s \ {Max(s)} = {} BY <1>3, <3>2
      <4> QED BY <3>2, <4>1, <4>2, <4>3
    <3> QED BY <3>1, <3>2
  <2>2. R = [s \in SUBSET S |-> R[s]] /\ Def(R) = [s \in SUBSET S |-> Def(R)[s]] OBVIOUS
  <2> HIDE DEF R, Def
  <2> QED BY <2>1, <2>2, Zenon
<1>5. K = Def(K)
  <2> HIDE DEF R, Def
  <2> QED BY <1>4, Zenon
<1> HIDE DEF K
<1>6. K[{}] = b BY <1>2, <1>5
<1>7. K[S] = ApplyToken(K[S \ {Max(S)}], batch[Max(S)]) BY <1>2, <1>5
<1>8. Max(S) = 1 /\ S \ {Max(S)} = {} BY <1>2, <1>3
<1> QED BY <1>1, <1>6, <1>7, <1>8, Zenon

\* Without speculation a tick brings one token.
LEMMA OrdinaryBatch ==
  ASSUME ~speculative, NEW batch \in Batches
  PROVE  /\ DOMAIN batch = 1..1 /\ Len(batch) = 1
         /\ batch[1].events \in Seq(Events) /\ batch[1].finish \in {None, Eos, Length, ToolCalls}
         /\ FlattenSeq([i \in DOMAIN batch |-> batch[i].events]) = batch[1].events
<1> DEFINE E == [events : TokenEvents, finish : {None, Eos, Length, ToolCalls}]
<1>1. PICK n \in 1..1 : batch \in [1..n -> E] BY DEF Batches
<1>2. batch \in [1..1 -> E] BY <1>1
<1>3. DOMAIN batch = 1..1 /\ batch[1] \in E /\ Len(batch) = 1
  <2>1. 1 \in 1..1 OBVIOUS
  <2> HIDE DEF E
  <2>2. batch \in Seq(E) BY <1>2, SeqDef
  <2> QED BY <1>2, <2>1, <2>2
<1>4. batch[1].events \in Seq(Events) /\ batch[1].finish \in {None, Eos, Length, ToolCalls}
  BY <1>3, ChatAssumption
<1> DEFINE x == batch[1].events
           q == [i \in DOMAIN batch |-> batch[i].events]
<1>5. q = Append(<<>>, x)
  <2>1. q = [i \in 1..1 |-> x] BY <1>3
  <2> HIDE DEF q, x
  <2> QED BY <2>1
<1>6. FlattenSeq(q) = x
  <2> HIDE DEF q, x
  <2>1. <<>> \in Seq(Seq(Events)) /\ x \in Seq(Events) BY <1>4 DEF x
  <2>2. FlattenSeq(<<>>) = <<>> /\ FlattenSeq(Append(<<>>, x)) = FlattenSeq(<<>>) \o x
    BY <2>1, FlattenFacts
  <2>3. <<>> \o x = x BY <2>1
  <2> QED BY <1>5, <2>2, <2>3
<1> QED BY <1>3, <1>4, <1>6

\* A tick keeps the invariant.
LEMMA TickKeeps ==
  ASSUME ChatInv, NEW batch \in Batches, NEW final \in FinalEvents, ChatTick(batch, final)
  PROVE  ChatInv'
<1> SUFFICES ASSUME ~speculative PROVE ChatInv' BY DEF ChatInv, ChatTick
<1> DEFINE t == batch[1]
           f == FoldLeft(ApplyToken, Filter, batch)
           held == IF f.terminal = Length THEN Without(final, {ToolCall}) ELSE final
           end == IF f.terminal = None THEN f ELSE FinishTerminal(f, held)
           closed == f.terminal # None /\ f.terminal[1] # "Stop"
           d == events \o t.events
<1>1. /\ DOMAIN batch = 1..1 /\ Len(batch) = 1
      /\ t.events \in Seq(Events) /\ t.finish \in {None, Eos, Length, ToolCalls}
      /\ FlattenSeq([i \in DOMAIN batch |-> batch[i].events]) = t.events
  BY OrdinaryBatch
<1>2. /\ reason = None /\ withheld' = end.pending /\ saw_tool' = end.saw_tool
      /\ output' = end.output /\ reason' = end.terminal
      /\ events' = d \o (IF closed THEN held ELSE <<>>)
      /\ tokens' = tokens + 1
  BY <1>1, Zenon DEF ChatTick, Filter
<1>3. /\ tokens \in Nat /\ events \in Seq(Events) /\ Filter \in Filters
      /\ Open(Filter, events) \/ Called(Filter, events)
  BY <1>2 DEF ChatInv
<1>4. f = ApplyToken(Filter, t) BY <1>1, OneToken
<1>5. /\ f \in Filters /\ d \in Seq(Events) /\ FilterInv(f, d)
      /\ f.terminal = IF f.returned # None THEN f.returned ELSE t.finish
  <2>1. FilterInv([Filter EXCEPT !.returned = None], events) /\ Filter.terminal = None
    BY <1>3, FilterIs DEF FilterInv
  <2> HIDE DEF f, d
  <2>2. /\ ApplyToken(Filter, t) \in Filters /\ events \o t.events \in Seq(Events)
        /\ FilterInv(ApplyToken(Filter, t), events \o t.events)
        /\ ApplyToken(Filter, t).terminal = IF ApplyToken(Filter, t).returned # None
                                            THEN ApplyToken(Filter, t).returned ELSE t.finish
    BY <1>1, <1>3, <2>1, ApplyTokenKeeps
  <2> QED BY <1>4, <2>2 DEF d
<1> HIDE DEF f, d
<1>6. held \in Seq(Events) BY ChatAssumption, WithoutFacts
<1> HIDE DEF held
<1>7. TextOf(f.output) \in Texts /\ f.pending \in Texts BY <1>5, EventShape, TextOfFacts DEF Filters
<1>8. d \o <<>> = d BY <1>5
<1>9. ASSUME NEW g \in Filters, g.pending = withheld', g.saw_tool = saw_tool', g.output = output'
      PROVE  Filter' \in Filters
  BY <1>9 DEF Filter, Filters, Verdicts
<1>10. CASE f.terminal = None
  <2>1. end = f /\ ~closed BY <1>10
  <2>2. events' = d BY <1>2, <1>8, <2>1
  <2>3. /\ withheld' = f.pending /\ saw_tool' = f.saw_tool /\ output' = f.output /\ reason' = None
    BY <1>2, <1>10, <2>1
  <2>4. f.returned = None BY <1>5, <1>10
  <2>5. Open(f, d) \/ Called(f, d) BY <1>5, <2>4, VerdictsDiffer DEF FilterInv, Matched
  <2>6. Clean(TextOf(f.output), d)
    BY <1>5, <1>7, <2>5, HeldBackIsClean DEF Open, Called
  <2>7. Filter' \in Filters BY <1>5, <1>9, <2>3
  <2> DEFINE h == Filter'
  <2>8. h.pending = f.pending /\ h.saw_tool = f.saw_tool /\ h.output = f.output /\ h.returned = None
    BY <2>3 DEF Filter
  <2> HIDE DEF h
  <2>9. Open(h, d) \/ Called(h, d) BY <2>4, <2>5, <2>8 DEF Open, Called
  <2>10. tokens' \in Nat /\ tokens' # 0 BY <1>2, <1>3
  <2>11. (Open(Filter, events) \/ Called(Filter, events))'
    BY <2>2, <2>9 DEF h, Open, Called, Whole, HeldBack, Settled, Occurrences, Response
  <2>12. Clean(TextOf(output), events)' BY <2>2, <2>3, <2>6
      DEF Clean, Stopped, StoppedAt, Response, Occurrences
  <2> QED BY <1>5, <2>2, <2>3, <2>7, <2>10, <2>11, <2>12, VerdictsDiffer DEF ChatInv
<1>11. CASE f.terminal # None
  <2> DEFINE g == FinishTerminal(f, held)
  <2>0. end = g BY <1>11
  <2>1. CASE f.terminal[1] = "Stop"
    <3>1. g = f /\ ~closed BY <2>1 DEF FinishTerminal
    <3>2. events' = d /\ output' = f.output /\ reason' = f.terminal
          /\ withheld' = f.pending /\ saw_tool' = f.saw_tool
      BY <1>2, <1>8, <2>0, <3>1
    <3>3. f.returned # None /\ f.returned \notin {None, ToolCalls}
      BY <1>1, <1>5, <2>1, VerdictsDiffer
    <3>4. Matched(f, d) BY <1>5, <3>3 DEF FilterInv, Open, Called
    <3>5. Clean(TextOf(f.output), d) BY <3>4 DEF Matched, Clean
    <3>6. reason' \notin {None, Eos, Length, ToolCalls} BY <2>1, <3>2, VerdictsDiffer
    <3>7. Filter' \in Filters BY <1>5, <1>9, <3>2
    <3>8. tokens' \in Nat /\ tokens' # 0 BY <1>2, <1>3
    <3>9. Clean(TextOf(output), events)' BY <3>2, <3>5
      DEF Clean, Stopped, StoppedAt, Response, Occurrences
    <3> QED BY <1>5, <3>2, <3>6, <3>7, <3>8, <3>9 DEF ChatInv
  <2>2. CASE f.terminal[1] # "Stop"
    <3>1. f.returned = None \/ f.returned = f.terminal BY <1>5
    <3>2. /\ g \in Filters /\ d \o held \in Seq(Events) /\ g.terminal # None
          /\ g.terminal \in {Eos, Length, ToolCalls} => Whole(TextOf(g.output), d \o held)
          /\ Clean(TextOf(g.output), d \o held)
      BY <1>5, <1>6, <1>11, <2>2, <3>1, FinishKeeps
    <3>3. closed BY <1>11, <2>2
    <3> HIDE DEF g
    <3>4. events' = d \o held /\ output' = g.output /\ reason' = g.terminal
          /\ withheld' = g.pending /\ saw_tool' = g.saw_tool
      BY <1>2, <2>0, <3>3
    <3>5. Filter' \in Filters BY <1>9, <3>2, <3>4
    <3>6. tokens' \in Nat /\ tokens' # 0 BY <1>2, <1>3
    <3>7. Clean(TextOf(output), events)' BY <3>2, <3>4
      DEF Clean, Stopped, StoppedAt, Response, Occurrences
    <3>8. reason' \in {Eos, Length, ToolCalls} => Whole(TextOf(output), events)'
      BY <3>2, <3>4 DEF Whole, Response, Occurrences
    <3>9. events' \in Seq(Events) /\ reason' # None BY <3>2, <3>4
    <3> QED BY <3>5, <3>6, <3>7, <3>8, <3>9 DEF ChatInv
  <2> QED BY <2>1, <2>2
<1> QED BY <1>10, <1>11

\* Every step of the service keeps the invariant.
LEMMA ChatStep == ChatInv /\ [ChatNext]_chatVars => ChatInv'
<1> SUFFICES ASSUME ChatInv, [ChatNext]_chatVars PROVE ChatInv'
  OBVIOUS
<1>1. ASSUME NEW batch \in Batches, NEW final \in FinalEvents, ChatTick(batch, final) PROVE ChatInv'
  BY <1>1, TickKeeps
<1>2. CASE UNCHANGED <<speculative, tokens, events, withheld, saw_tool, output>>
  <2> SUFFICES ASSUME ~speculative,
                      reason' = reason \/ (reason = None /\ reason' = Cancelled)
                        \/ (reason = None /\ tokens = 0 /\ reason' = Length)
               PROVE  ChatInv'
    <3>1. reason' = reason \/ TickFinishedRequest \/ CancelRequest \/
            \E batch \in Batches, final \in FinalEvents : ChatTick(batch, final)
      BY DEF ChatNext, chatVars
    <3> QED BY <1>1, <1>2, <3>1 DEF TickFinishedRequest, CancelRequest, ChatInv
  <2>1. /\ tokens \in Nat /\ events \in Seq(Events) /\ Filter \in Filters
        /\ tokens = 0 => withheld = <<>>
        /\ reason = None => Open(Filter, events) \/ Called(Filter, events)
        /\ reason \in {Eos, Length, ToolCalls} => Whole(TextOf(output), events)
        /\ Clean(TextOf(output), events)
    BY DEF ChatInv
  <2>2. Filter' = Filter BY <1>2 DEF Filter
  <2>3. ASSUME reason = None, tokens = 0 PROVE Whole(TextOf(output), events)
    <3>1. TextOf(output) \in Texts BY <2>1 DEF Clean
    <3>2. CASE Open(Filter, events)
      <4>1. TextOf(output) \o <<>> = Response(events) /\ Occurrences(Response(events)) = {}
        BY <2>1, <2>3, <3>2, FilterIs DEF Open, HeldBack
      <4>2. TextOf(output) \o <<>> = TextOf(output) BY <3>1, EmptyText
      <4> QED BY <4>1, <4>2 DEF Whole
    <3>3. CASE Called(Filter, events) BY <3>3, FilterIs DEF Called
    <3> QED BY <2>1, <2>3, <3>2, <3>3
  <2>4. reason' = None => (Open(Filter, events) \/ Called(Filter, events))'
    <3>1. reason' = None => reason = None BY VerdictsDiffer
    <3> QED BY <1>2, <2>1, <2>2, <3>1
         DEF Open, Called, Whole, HeldBack, Settled, Occurrences, Response
  <2>5. reason' \in {Eos, Length, ToolCalls} => Whole(TextOf(output), events)'
    <3>1. reason' \in {Eos, Length, ToolCalls} => Whole(TextOf(output), events)
      BY <2>1, <2>3, VerdictsDiffer
    <3> QED BY <1>2, <3>1 DEF Whole, Response, Occurrences
  <2>6. Clean(TextOf(output), events)' BY <1>2, <2>1
      DEF Clean, Stopped, StoppedAt, Response, Occurrences
  <2> QED BY <1>2, <2>1, <2>2, <2>4, <2>5, <2>6 DEF ChatInv
<1> QED BY <1>1, <1>2 DEF ChatNext, chatVars, TickFinishedRequest, CancelRequest

\* The invariant gives both properties.
LEMMA ChatInvGives == ChatInv => OrdinaryStopEnds /\ TextComplete
<1> SUFFICES ASSUME ChatInv, ~speculative PROVE NothingAfterStop /\ TextComplete
  BY DEF OrdinaryStopEnds, TextComplete
<1> DEFINE z == TextOf(output)
           W == Written
<1>1. Written = Response(events) BY DEF Written, Response
<1>2. W \in Texts BY <1>1, EventShape, ResponseGrows DEF ChatInv
<1>3. z \in Texts /\ Begins(z, W) /\ (Occurrences(W) = {} \/ Stopped(z, W))
  BY <1>1 DEF ChatInv, Clean
<1>4. TextComplete BY <1>1 DEF ChatInv, TextComplete, Whole
<1>5. ASSUME NEW m \in FirstComplete(Written)
      PROVE  IsPrefix(TextOf(output), SubSeq(Written, 1, m[1] - 1))
  <2> DEFINE i == m[1]
             s == m[2]
             v == SubSeq(W, 1, i - 1)
  <2>1. /\ m \in Occurrences(W) /\ i \in 1..Len(W) /\ s \in StopSequences /\ OccursAt(s, W, i)
        /\ \A x \in Occurrences(W) : i + Len(s) - 1 <= EndOf(x)
    BY DEF FirstComplete, Occurrences, EndOf
  <2> HIDE DEF z, W, i, s
  <2>2. Len(W) \in Nat /\ Len(z) \in Nat /\ Len(s) \in Nat \ {0} /\ i \in Nat \ {0}
    BY <1>2, <1>3, <2>1, StopShape DEF Texts
  <2>3. PICK y \in Texts : StoppedAt(z, y, W) BY <1>3, <2>1 DEF Stopped
  <2>4. Len(y) \in Nat /\ Len(y) <= Len(W) BY <2>3 DEF Texts, StoppedAt, Begins
  <2>5. i + Len(s) - 1 <= Len(y)
    <3>1. PICK j \in 1..Len(y), u \in StopSequences : OccursAt(u, y, j)
      BY <2>3, OccurrenceIs DEF StoppedAt
    <3>2. Len(u) \in Nat \ {0} /\ j \in Nat \ {0} BY <2>4, StopShape
    <3>3. OccursAt(u, W, j) /\ j + Len(u) - 1 <= Len(y)
      BY <1>2, <2>3, <3>1, <3>2, OccursLater DEF StoppedAt
    <3>4. j \in 1..Len(W) BY <2>2, <2>4
    <3>5. <<j, u>> \in Occurrences(W) /\ EndOf(<<j, u>>) = j + Len(u) - 1
      BY <3>3, <3>4 DEF Occurrences, EndOf
    <3>6. i + Len(s) - 1 <= j + Len(u) - 1 BY <2>1, <3>5
    <3> QED BY <2>2, <2>4, <3>2, <3>3, <3>6
  <2>6. OccursAt(s, y, i)
    <3>1. \A k \in 1..Len(s) : W[i + k - 1] = s[k] BY <1>2, <2>1, <2>2, OccursPointwise
    <3>2. \A k \in 1..Len(s) : i + k - 1 \in 1..Len(y) BY <2>2, <2>4, <2>5
    <3>3. \A k \in 1..Len(s) : y[i + k - 1] = s[k] BY <2>3, <3>1, <3>2 DEF StoppedAt, Begins
    <3>4. OccursAt(s, y, i) <=>
            i + Len(s) - 1 <= Len(y) /\ \A k \in 1..Len(s) : y[i + k - 1] = s[k]
      BY <2>1, <2>2, OccursPointwise
    <3> QED BY <2>5, <3>3, <3>4
  <2>7. Len(z) < i
    <3>1. i \in 1..Len(y) BY <2>2, <2>4, <2>5
    <3> QED BY <2>1, <2>3, <2>6, <3>1 DEF StoppedAt
  <2>8. v \in Texts /\ Len(v) = i - 1 /\ \A k \in 1..(i - 1) : v[k] = W[k]
    <3>1. i - 1 \in Nat /\ i - 1 <= Len(W) BY <2>1, <2>2
    <3> QED BY <1>2, <3>1, Part
  <2> HIDE DEF v
  <2>9. Begins(z, v) BY <1>3, <2>2, <2>7, <2>8 DEF Begins
  <2>10. IsPrefix(z, v) BY <1>3, <2>8, <2>9, BeginsIsPrefix
  <2> QED BY <2>10 DEF z, v, W, i
<1> QED BY <1>4, <1>5 DEF NothingAfterStop

\* With one token to a tick, what reaches the client ends in front of the start of the stop
\* sequence that the response completes first, for any stop sequences, any tokens and any
\* split of the text into events (StopBuffer::push, ResponseFilter::apply, the token loop of
\* tick_with_lifecycle).
THEOREM NothingBehindTheStop == ChatSpec => []OrdinaryStopEnds
<1>1. ChatInv => OrdinaryStopEnds BY ChatInvGives
<1> QED BY ChatStarts, ChatStep, <1>1, PTL DEF ChatSpec

\* With one token to a tick, a response that ends at the end of the stream, at the token
\* limit or at a tool call has delivered all its text: what the stop buffer held back and
\* the codec's last events included (ResponseFilter::apply and flush, the loop over terminal
\* of tick_with_lifecycle).
THEOREM AllTextIsDelivered == ChatSpec => []TextComplete
<1>1. ChatInv => TextComplete BY ChatInvGives
<1> QED BY ChatStarts, ChatStep, <1>1, PTL DEF ChatSpec
==============================================================================
