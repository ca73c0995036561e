---------------------------- MODULE QueueTheorems ----------------------------
(***************************************************************************)
(* Facts about natural numbers, recursion and queues that the proofs of    *)
(* the components cite.  Induction is stated for sets of numbers: it is    *)
(* the well-foundedness of < on Nat, with a set where the library's        *)
(* induction theorems have an operator.                                    *)
(***************************************************************************)
EXTENDS Queues, FiniteSetTheorems, TLAPS

\* A non-empty set of natural numbers has a least member.
LEMMA LeastNat ==
  ASSUME NEW T \in SUBSET Nat, T # {}
  PROVE  \E m \in T : \A k \in T : m <= k
  <1>1. IsWellFoundedOn(OpToRel(<, Nat), Nat)
    BY NatLessThanWellFounded
  <1>2. PICK x \in T : \A y \in T : ~(<<y, x>> \in OpToRel(<, Nat))
    BY <1>1, WFMin, Zenon
  <1>3. \A y \in T : ~(y < x)
    BY <1>2 DEF OpToRel
  <1> QED
    BY <1>3

\* Induction over the natural numbers.
LEMMA SetInduction ==
  ASSUME NEW S, 0 \in S, \A n \in Nat : n \in S => n + 1 \in S
  PROVE  \A n \in Nat : n \in S
  <1> SUFFICES ASSUME Nat \ S # {} PROVE FALSE
    OBVIOUS
  <1>1. PICK m \in Nat \ S : \A k \in Nat \ S : m <= k
    BY LeastNat
  <1>2. m # 0 /\ m - 1 \in Nat /\ m - 1 \in S
    BY <1>1
  <1>3. (m - 1) + 1 \in S
    BY <1>2
  <1> QED
    BY <1>1, <1>3

\* Induction up to a bound, as loops over the positions of a queue need it.
LEMMA IntervalInduction ==
  ASSUME NEW n \in Nat, NEW S, 0 \in S, \A i \in 1..n : i - 1 \in S => i \in S
  PROVE  \A i \in 0..n : i \in S
  <1> DEFINE T == {i \in Nat : i <= n => i \in S}
  <1>1. 0 \in T
    OBVIOUS
  <1>2. ASSUME NEW i \in Nat, i \in T PROVE i + 1 \in T
    <2>1. CASE i + 1 <= n
      <3>1. i \in S /\ i + 1 \in 1..n /\ (i + 1) - 1 = i
        BY <1>2, <2>1
      <3> QED
        BY <3>1
    <2> QED
      BY <2>1, <1>2
  <1> HIDE DEF T
  <1>3. \A i \in Nat : i \in T
    BY <1>1, <1>2, SetInduction
  <1> QED
    BY <1>3 DEF T

\* g iterates the functions of D from b.
Iterates(g, n, X, b, D) ==
  g \in [0..n -> X] /\ g[0] = b /\ \A i \in 1..n : g[i] = D[i][g[i - 1]]

\* A recursion of known type over 0..n has a solution, so a recursive function defined
\* by it is one.
LEMMA RecursionExists ==
  ASSUME NEW n \in Nat, NEW X, NEW b \in X, NEW D \in [1..n -> [X -> X]]
  PROVE  \E g : Iterates(g, n, X, b, D)
  <1> DEFINE Good(k) == \E g \in [0..k -> X] : g[0] = b /\ \A i \in 1..k : g[i] = D[i][g[i - 1]]
             S == {k \in 0..n : Good(k)}
  <1>1. 0 \in S
    <2>1. [i \in 0..0 |-> b] \in [0..0 -> X]
      OBVIOUS
    <2>2. Good(0)
      <3> WITNESS [i \in 0..0 |-> b] \in [0..0 -> X]
      <3> QED OBVIOUS
    <2> QED BY <2>2
  <1>2. ASSUME NEW k \in 1..n, k - 1 \in S PROVE k \in S
    <2>1. PICK g \in [0..(k-1) -> X] : g[0] = b /\ \A i \in 1..(k-1) : g[i] = D[i][g[i - 1]]
      BY <1>2
    <2> DEFINE h == [i \in 0..k |-> IF i = k THEN D[k][g[k - 1]] ELSE g[i]]
    <2>2. h \in [0..k -> X]
      <3>1. g[k-1] \in X OBVIOUS
      <3>2. D[k][g[k - 1]] \in X BY <3>1
      <3> QED BY <3>2
    <2>3. h[0] = b
      BY <2>1
    <2>4. ASSUME NEW i \in 1..k PROVE h[i] = D[i][h[i - 1]]
      <3>1. h[i-1] = g[i-1]
        OBVIOUS
      <3>2. CASE i = k
        BY <3>1, <3>2
      <3>3. CASE i # k
        <4>1. i \in 1..(k-1)
          BY <3>3
        <4>2. g[i] = D[i][g[i - 1]] BY <4>1, <2>1
        <4>3. h[i] = g[i] BY <4>1
        <4> QED BY <3>1, <4>2, <4>3
      <3> QED BY <3>2, <3>3
    <2> HIDE DEF h
    <2>5. Good(k)
      BY <2>2, <2>3, <2>4
    <2>6. k \in 0..n
      OBVIOUS
    <2> HIDE DEF Good
    <2> QED BY <2>5, <2>6
  <1> HIDE DEF S
  <1>3. \A i \in 0..n : i \in S
    BY <1>1, <1>2, IntervalInduction
  <1>4. n \in S BY <1>3
  <1> QED
    BY <1>4 DEF S, Iterates

\* The recursion that defines Keep holds.
LEMMA KeepRec ==
  ASSUME NEW U, NEW s \in Seq(U), NEW S
  PROVE  \E f :
            /\ f[0] = <<>>
            /\ \A i \in 1..Len(s) : f[i] = IF s[i] \in S THEN Append(f[i - 1], s[i]) ELSE f[i - 1]
            /\ Keep(s, S) = f[Len(s)]
  <1> DEFINE n == Len(s)
             D == [i \in 1..n |-> [x \in Seq(U) |-> IF s[i] \in S THEN Append(x, s[i]) ELSE x]]
             Def(f) == [i \in 0..n |-> IF i = 0 THEN <<>>
               ELSE IF s[i] \in S THEN Append(f[i - 1], s[i]) ELSE f[i - 1]]
             K == CHOOSE f : f = Def(f)
  <1>0. n \in Nat
    OBVIOUS
  <1>1. D \in [1..n -> [Seq(U) -> Seq(U)]]
    OBVIOUS
  <1>2. <<>> \in Seq(U)
    OBVIOUS
  <1> HIDE DEF n
  <1>3. PICK g \in [0..n -> Seq(U)] : g[0] = <<>> /\ \A i \in 1..n : g[i] = D[i][g[i - 1]]
    <2> HIDE DEF D
    <2> DEFINE X == Seq(U)
               b == <<>>
    <2> HIDE DEF X, b
    <2>1. b \in X /\ D \in [1..n -> [X -> X]]
      BY <1>1, <1>2 DEF X, b
    <2>2. \E g : Iterates(g, n, X, b, D)
      BY <1>0, <2>1, RecursionExists
    <2> QED BY <2>2 DEF X, b, Iterates
  <1>4. \A i \in 1..n : g[i] = IF s[i] \in S THEN Append(g[i - 1], s[i]) ELSE g[i - 1]
    <2> TAKE i \in 1..n
    <2>0. i - 1 \in 0..n
      BY <1>0
    <2>1. g[i - 1] \in Seq(U) BY <2>0
    <2>2. D[i][g[i - 1]] = IF s[i] \in S THEN Append(g[i - 1], s[i]) ELSE g[i - 1]
      BY <2>1
    <2> QED BY <2>2, <1>3
  <1>5. g = Def(g)
    <2>1. ASSUME NEW i \in 0..n PROVE g[i] = Def(g)[i]
      <3>1. CASE i = 0
        BY <1>3, <3>1
      <3>2. CASE i # 0
        <4>1. i \in 1..n
          BY <1>0, <3>2
        <4> QED
          BY <1>4, <4>1, <3>2
      <3> QED BY <3>1, <3>2
    <2>2. Def(g) = [i \in 0..n |-> Def(g)[i]] /\ g = [i \in 0..n |-> g[i]]
      OBVIOUS
    <2> HIDE DEF Def
    <2> QED BY <2>1, <2>2, Zenon
  <1>6. K = Def(K)
    <2> HIDE DEF Def
    <2> QED BY <1>5, Zenon
  <1>7. Keep(s, S) = K[n]
    BY Zenon DEF Keep, n
  <1> HIDE DEF K
  <1>8. K[0] = <<>>
    BY <1>0, <1>6
  <1>9. \A i \in 1..n : K[i] = IF s[i] \in S THEN Append(K[i - 1], s[i]) ELSE K[i - 1]
    <2> TAKE i \in 1..n
    <2>1. i \in 0..n /\ i # 0
      BY <1>0
    <2>2. K[i] = Def(K)[i]
      BY <1>6
    <2> QED BY <2>1, <2>2
  <1> QED
    BY <1>7, <1>8, <1>9, Zenon DEF n
--------------------------------------------------------------------------------
(***************************************************************************)
(* The set of a queue's members, and queues without repetition.            *)
(***************************************************************************)

\* Members, by position.
LEMMA MemberAt ==
  ASSUME NEW U, NEW s \in Seq(U)
  PROVE  /\ ToSet(s) \subseteq U
         /\ \A x : x \in ToSet(s) <=> \E i \in 1..Len(s) : s[i] = x
  BY DEF ToSet

\* Appending adds one member.
LEMMA ToSetAppend ==
  ASSUME NEW U, NEW s \in Seq(U), NEW x \in U
  PROVE  /\ Append(s, x) \in Seq(U)
         /\ ToSet(Append(s, x)) = ToSet(s) \cup {x}
         /\ IsInjective(s) /\ x \notin ToSet(s) => IsInjective(Append(s, x))
  <1> DEFINE t == Append(s, x)
  <1>1. t \in Seq(U) /\ Len(t) = Len(s) + 1 /\ t[Len(s) + 1] = x
        /\ \A i \in 1..Len(s) : t[i] = s[i]
    OBVIOUS
  <1>2. Len(s) \in Nat /\ DOMAIN t = 1..Len(t) /\ DOMAIN s = 1..Len(s)
    OBVIOUS
  <1> HIDE DEF t
  <1>3. ToSet(t) = ToSet(s) \cup {x}
    <2>1. ASSUME NEW y \in ToSet(t) PROVE y \in ToSet(s) \cup {x}
      <3>1. PICK i \in 1..Len(t) : t[i] = y
        BY <1>1, <2>1, MemberAt
      <3>2. i \in 1..Len(s) \/ i = Len(s) + 1
        BY <1>1, <1>2
      <3> QED
        BY <1>1, <3>1, <3>2, MemberAt
    <2>2. ASSUME NEW y \in ToSet(s) PROVE y \in ToSet(t)
      <3>1. PICK i \in 1..Len(s) : s[i] = y
        BY <2>2, MemberAt
      <3>2. i \in 1..Len(t)
        BY <1>1, <1>2
      <3> QED
        BY <1>1, <3>1, <3>2, MemberAt
    <2>3. x \in ToSet(t)
      <3>1. Len(s) + 1 \in 1..Len(t)
        BY <1>1, <1>2
      <3> QED
        BY <1>1, <3>1, MemberAt
    <2> QED
      BY <2>1, <2>2, <2>3
  <1>4. ASSUME IsInjective(s), x \notin ToSet(s) PROVE IsInjective(t)
    <2>1. \A i \in 1..Len(s) : s[i] # x
      BY <1>4, MemberAt
    <2> QED
      BY <1>1, <1>2, <1>4, <2>1 DEF IsInjective
  <1> QED
    BY <1>1, <1>3, <1>4 DEF t

\* Popping removes the head, and only the head of a queue without repetition.
LEMMA ToSetTail ==
  ASSUME NEW U, NEW s \in Seq(U), s # <<>>
  PROVE  /\ Head(s) \in ToSet(s) /\ Head(s) \in U
         /\ Tail(s) \in Seq(U)
         /\ ToSet(s) = ToSet(Tail(s)) \cup {Head(s)}
         /\ IsInjective(s) => Head(s) \notin ToSet(Tail(s)) /\ IsInjective(Tail(s))
  <1> DEFINE t == Tail(s)
  <1>1. /\ t \in Seq(U) /\ Len(t) = Len(s) - 1 /\ Head(s) = s[1]
        /\ \A i \in 1..Len(t) : t[i] = s[i + 1]
        /\ Len(s) \in Nat /\ Len(s) > 0
    OBVIOUS
  <1>2. DOMAIN t = 1..Len(t) /\ DOMAIN s = 1..Len(s)
    OBVIOUS
  <1> HIDE DEF t
  <1>3. Head(s) \in ToSet(s) /\ Head(s) \in U
    <2>1. 1 \in 1..Len(s)
      BY <1>1
    <2> QED
      BY <1>1, <2>1, MemberAt
  <1>4. ToSet(s) = ToSet(t) \cup {Head(s)}
    <2>1. ASSUME NEW y \in ToSet(s) PROVE y \in ToSet(t) \cup {Head(s)}
      <3>1. PICK i \in 1..Len(s) : s[i] = y
        BY <2>1, MemberAt
      <3>2. CASE i # 1
        <4>1. i - 1 \in 1..Len(t) /\ (i - 1) + 1 = i
          BY <1>1, <3>2
        <4>2. t[i - 1] = y
          BY <1>1, <3>1, <4>1
        <4> QED
          BY <1>1, <4>1, <4>2, MemberAt
      <3> QED
        BY <1>1, <3>1, <3>2
    <2>2. ASSUME NEW y \in ToSet(t) PROVE y \in ToSet(s)
      <3>1. PICK i \in 1..Len(t) : t[i] = y
        BY <1>1, <2>2, MemberAt
      <3>2. i + 1 \in 1..Len(s)
        BY <1>1
      <3> QED
        BY <1>1, <3>1, <3>2, MemberAt
    <2> QED
      BY <1>3, <2>1, <2>2
  <1>5. ASSUME IsInjective(s) PROVE Head(s) \notin ToSet(t) /\ IsInjective(t)
    <2>1. \A i, j \in 1..Len(s) : s[i] = s[j] => i = j
      BY <1>2, <1>5 DEF IsInjective
    <2>2. \A i \in 1..Len(t) : t[i] # Head(s)
      <3> TAKE i \in 1..Len(t)
      <3>1. i + 1 \in 1..Len(s) /\ 1 \in 1..Len(s) /\ i + 1 # 1
        BY <1>1
      <3> QED
        BY <1>1, <2>1, <3>1
    <2>3. \A i, j \in 1..Len(t) : t[i] = t[j] => i = j
      <3> TAKE i, j \in 1..Len(t)
      <3>1. i + 1 \in 1..Len(s) /\ j + 1 \in 1..Len(s)
        BY <1>1
      <3> QED
        BY <1>1, <2>1, <3>1
    <2> QED
      BY <1>1, <1>2, <2>2, <2>3, MemberAt DEF IsInjective
  <1> QED
    BY <1>1, <1>3, <1>4, <1>5 DEF t

\* Popping a stack removes its top, and only the top of a stack without repetition.
LEMMA ToSetFront ==
  ASSUME NEW U, NEW s \in Seq(U), s # <<>>
  PROVE  /\ Last(s) \in ToSet(s) /\ Last(s) \in U
         /\ Front(s) \in Seq(U) /\ Len(Front(s)) = Len(s) - 1
         /\ ToSet(s) = ToSet(Front(s)) \cup {Last(s)}
         /\ IsInjective(s) => Last(s) \notin ToSet(Front(s)) /\ IsInjective(Front(s))
  <1> DEFINE t == Front(s)
             n == Len(s)
  <1>1. n \in Nat /\ n > 0 /\ Last(s) = s[n]
    BY DEF Last
  <1>2. t \in Seq(U) /\ Len(t) = n - 1 /\ \A i \in 1..(n - 1) : t[i] = s[i]
    <2> DEFINE k == n - 1
    <2>1. t = SubSeq(s, 1, k) /\ k \in 0..Len(s)
      BY <1>1 DEF Front
    <2> HIDE DEF k, t
    <2>2. SubSeq(s, 1, k) \in Seq(U) /\ Len(SubSeq(s, 1, k)) = k
          /\ \A i \in 1..k : SubSeq(s, 1, k)[i] = s[i]
      BY <2>1
    <2>3. t \in Seq(U) /\ Len(t) = k /\ \A i \in 1..k : t[i] = s[i]
      BY <2>1, <2>2
    <2> QED
      BY <2>3 DEF k
  <1>3. DOMAIN t = 1..(n - 1) /\ DOMAIN s = 1..n
    BY <1>2
  <1> HIDE DEF t
  <1>4. Last(s) \in ToSet(s) /\ Last(s) \in U
    <2>1. n \in 1..n
      BY <1>1
    <2> QED
      BY <1>1, <2>1, MemberAt
  <1>5. ToSet(s) = ToSet(t) \cup {Last(s)}
    <2>1. ASSUME NEW y \in ToSet(s) PROVE y \in ToSet(t) \cup {Last(s)}
      <3>1. PICK i \in 1..n : s[i] = y
        BY <2>1, MemberAt
      <3>2. i = n \/ i \in 1..(n - 1)
        BY <1>1
      <3> QED
        BY <1>1, <1>2, <3>1, <3>2, MemberAt
    <2>2. ASSUME NEW y \in ToSet(t) PROVE y \in ToSet(s)
      <3>1. PICK i \in 1..(n - 1) : t[i] = y
        BY <1>2, <2>2, MemberAt
      <3>2. i \in 1..n
        BY <1>1
      <3> QED
        BY <1>2, <3>1, <3>2, MemberAt
    <2> QED
      BY <1>4, <2>1, <2>2
  <1>6. ASSUME IsInjective(s) PROVE Last(s) \notin ToSet(t) /\ IsInjective(t)
    <2>1. \A i, j \in 1..n : s[i] = s[j] => i = j
      BY <1>3, <1>6 DEF IsInjective
    <2>2. \A i \in 1..(n - 1) : t[i] # s[n]
      BY <1>1, <1>2, <2>1
    <2>3. \A i, j \in 1..(n - 1) : t[i] = t[j] => i = j
      BY <1>1, <1>2, <2>1
    <2> QED
      BY <1>1, <1>2, <1>3, <2>2, <2>3, MemberAt DEF IsInjective
  <1> QED
    BY <1>2, <1>4, <1>5, <1>6 DEF t

\* Concatenation joins the members; it repeats none if the parts share none.
LEMMA ToSetConcat ==
  ASSUME NEW U, NEW s \in Seq(U), NEW t \in Seq(U)
  PROVE  /\ s \o t \in Seq(U)
         /\ ToSet(s \o t) = ToSet(s) \cup ToSet(t)
         /\ IsInjective(s) /\ IsInjective(t) /\ ToSet(s) \cap ToSet(t) = {} =>
              IsInjective(s \o t)
  <1> DEFINE c == s \o t
             m == Len(s)
             n == Len(t)
  <1>1. /\ c \in Seq(U) /\ Len(c) = m + n
        /\ m \in Nat /\ n \in Nat
        /\ \A i \in 1..m : c[i] = s[i]
        /\ \A i \in (m + 1)..(m + n) : c[i] = t[i - m]
    OBVIOUS
  <1>2. DOMAIN c = 1..(m + n) /\ DOMAIN s = 1..m /\ DOMAIN t = 1..n
    OBVIOUS
  <1> HIDE DEF c
  <1>3. ASSUME NEW i \in 1..(m + n)
        PROVE  i \in 1..m \/ (i \in (m + 1)..(m + n) /\ i - m \in 1..n)
    BY <1>1
  <1>4. ToSet(c) = ToSet(s) \cup ToSet(t)
    <2>1. ASSUME NEW y \in ToSet(c) PROVE y \in ToSet(s) \cup ToSet(t)
      <3>1. PICK i \in 1..(m + n) : c[i] = y
        BY <1>1, <2>1, MemberAt
      <3> QED
        BY <1>1, <1>3, <3>1, MemberAt
    <2>2. ASSUME NEW y \in ToSet(s) PROVE y \in ToSet(c)
      <3>1. PICK i \in 1..m : s[i] = y
        BY <2>2, MemberAt
      <3>2. i \in 1..(m + n)
        BY <1>1
      <3> QED
        BY <1>1, <3>1, <3>2, MemberAt
    <2>3. ASSUME NEW y \in ToSet(t) PROVE y \in ToSet(c)
      <3>1. PICK i \in 1..n : t[i] = y
        BY <2>3, MemberAt
      <3>2. i + m \in (m + 1)..(m + n) /\ (i + m) - m = i /\ i + m \in 1..(m + n)
        BY <1>1
      <3>3. c[i + m] = y
        BY <1>1, <3>1, <3>2
      <3> QED
        BY <1>1, <3>2, <3>3, MemberAt
    <2> QED
      BY <2>1, <2>2, <2>3
  <1>5. ASSUME IsInjective(s), IsInjective(t), ToSet(s) \cap ToSet(t) = {}
        PROVE  IsInjective(c)
    <2>1. \A i \in 1..m, j \in 1..n : s[i] # t[j]
      BY <1>5, MemberAt
    <2>2. ASSUME NEW i \in 1..(m + n), NEW j \in 1..(m + n), c[i] = c[j] PROVE i = j
      <3>1. CASE i \in 1..m /\ j \in 1..m
        BY <1>1, <1>2, <1>5, <2>2, <3>1 DEF IsInjective
      <3>2. CASE i \in (m + 1)..(m + n) /\ j \in (m + 1)..(m + n)
        <4>1. i - m \in 1..n /\ j - m \in 1..n /\ t[i - m] = t[j - m]
          BY <1>1, <2>2, <3>2
        <4>2. i - m = j - m
          BY <1>2, <1>5, <4>1 DEF IsInjective
        <4> QED
          BY <1>1, <4>2
      <3>3. CASE i \in 1..m /\ j \in (m + 1)..(m + n)
        <4>1. j - m \in 1..n
          BY <1>1, <3>3
        <4> QED
          BY <1>1, <2>1, <2>2, <3>3, <4>1
      <3>4. CASE i \in (m + 1)..(m + n) /\ j \in 1..m
        <4>1. i - m \in 1..n
          BY <1>1, <3>4
        <4> QED
          BY <1>1, <2>1, <2>2, <3>4, <4>1
      <3> QED
        BY <1>3, <3>1, <3>2, <3>3, <3>4
    <2> QED
      BY <1>2, <2>2 DEF IsInjective
  <1> QED
    BY <1>1, <1>4, <1>5 DEF c

\* A queue cut in two: the parts have its members between them, and share none if it
\* repeats none.
LEMMA ToSetSplit ==
  ASSUME NEW U, NEW s \in Seq(U), NEW k \in 0..Len(s)
  PROVE  LET a == SubSeq(s, 1, k)
             b == SubSeq(s, k + 1, Len(s))
         IN  /\ a \in Seq(U) /\ b \in Seq(U)
             /\ Len(a) = k /\ Len(b) = Len(s) - k
             /\ \A i \in 1..k : a[i] = s[i]
             /\ \A i \in 1..(Len(s) - k) : b[i] = s[k + i]
             /\ ToSet(s) = ToSet(a) \cup ToSet(b)
             /\ IsInjective(s) => /\ IsInjective(a) /\ IsInjective(b)
                                  /\ ToSet(a) \cap ToSet(b) = {}
  <1> DEFINE a == SubSeq(s, 1, k)
             b == SubSeq(s, k + 1, Len(s))
             n == Len(s)
  <1>1. /\ a \in Seq(U) /\ b \in Seq(U) /\ Len(a) = k /\ Len(b) = n - k
        /\ \A i \in 1..k : a[i] = s[i]
        /\ \A i \in 1..(n - k) : b[i] = s[k + i]
        /\ k \in Nat /\ n \in Nat /\ k <= n
    OBVIOUS
  <1>2. DOMAIN a = 1..k /\ DOMAIN b = 1..(n - k) /\ DOMAIN s = 1..n
    BY <1>1
  <1> HIDE DEF a, b
  <1>3. ASSUME NEW y \in ToSet(s) PROVE y \in ToSet(a) \cup ToSet(b)
    <2>1. PICK i \in 1..n : s[i] = y
      BY <1>3, MemberAt
    <2>2. CASE i \in 1..k
      BY <1>1, <2>1, <2>2, MemberAt
    <2>3. CASE i \notin 1..k
      <3>1. i - k \in 1..(n - k) /\ k + (i - k) = i
        BY <1>1, <2>3
      <3>2. b[i - k] = y
        BY <1>1, <2>1, <3>1
      <3> QED
        BY <1>1, <3>1, <3>2, MemberAt
    <2> QED
      BY <2>2, <2>3
  <1>4. ToSet(a) \subseteq ToSet(s) /\ ToSet(b) \subseteq ToSet(s)
    <2>1. ASSUME NEW y \in ToSet(a) PROVE y \in ToSet(s)
      <3>1. PICK i \in 1..k : a[i] = y
        BY <1>1, <2>1, MemberAt
      <3>2. i \in 1..n
        BY <1>1
      <3> QED
        BY <1>1, <3>1, <3>2, MemberAt
    <2>2. ASSUME NEW y \in ToSet(b) PROVE y \in ToSet(s)
      <3>1. PICK i \in 1..(n - k) : b[i] = y
        BY <1>1, <2>2, MemberAt
      <3>2. k + i \in 1..n
        BY <1>1
      <3> QED
        BY <1>1, <3>1, <3>2, MemberAt
    <2> QED
      BY <2>1, <2>2
  <1>5. ASSUME IsInjective(s)
        PROVE  IsInjective(a) /\ IsInjective(b) /\ ToSet(a) \cap ToSet(b) = {}
    <2>1. \A i, j \in 1..n : s[i] = s[j] => i = j
      BY <1>2, <1>5 DEF IsInjective
    <2>2. \A i, j \in 1..k : a[i] = a[j] => i = j
      <3> TAKE i, j \in 1..k
      <3>1. i \in 1..n /\ j \in 1..n
        BY <1>1
      <3> QED
        BY <1>1, <2>1, <3>1
    <2>3. \A i, j \in 1..(n - k) : b[i] = b[j] => i = j
      <3> TAKE i, j \in 1..(n - k)
      <3>1. k + i \in 1..n /\ k + j \in 1..n
        BY <1>1
      <3>2. b[i] = b[j] => k + i = k + j
        BY <1>1, <2>1, <3>1
      <3> QED
        BY <1>1, <3>2
    <2>4. \A i \in 1..k, j \in 1..(n - k) : a[i] # b[j]
      <3> TAKE i \in 1..k, j \in 1..(n - k)
      <3>1. i \in 1..n /\ k + j \in 1..n /\ i # k + j
        BY <1>1
      <3> QED
        BY <1>1, <2>1, <3>1
    <2>5. ToSet(a) \cap ToSet(b) = {}
      <3> SUFFICES ASSUME NEW y, y \in ToSet(a), y \in ToSet(b) PROVE FALSE
        OBVIOUS
      <3>1. PICK i \in 1..k : a[i] = y
        BY <1>1, MemberAt
      <3>2. PICK j \in 1..(n - k) : b[j] = y
        BY <1>1, MemberAt
      <3> QED
        BY <2>4, <3>1, <3>2
    <2> QED
      BY <1>2, <2>2, <2>3, <2>5 DEF IsInjective
  <1> QED
    BY <1>1, <1>3, <1>4, <1>5 DEF a, b

\* The size of an interval from 1.
LEMMA IntervalSize ==
  ASSUME NEW n \in Nat
  PROVE  IsFiniteSet(1..n) /\ Cardinality(1..n) = n
  <1>1. 1 \in Int /\ n \in Int
    OBVIOUS
  <1> QED
    BY <1>1, FS_Interval

\* A queue has as many members as places exactly when it repeats none.
LEMMA DistinctIffInjective ==
  ASSUME NEW U, NEW s \in Seq(U)
  PROVE  /\ IsFiniteSet(ToSet(s)) /\ Cardinality(ToSet(s)) <= Len(s)
         /\ Cardinality(ToSet(s)) = Len(s) <=> IsInjective(s)
  <1>1. s \in Surjection(1..Len(s), ToSet(s))
    BY MemberAt DEF Surjection, ToSet
  <1>2. IsFiniteSet(1..Len(s)) /\ Cardinality(1..Len(s)) = Len(s)
    <2>1. Len(s) \in Nat
      OBVIOUS
    <2> QED
      BY <2>1, IntervalSize
  <1>3. s \in Injection(1..Len(s), ToSet(s)) <=> IsInjective(s)
    BY <1>1 DEF Injection, Surjection
  <1> QED
    BY <1>1, <1>2, <1>3, FS_Surjection
--------------------------------------------------------------------------------
(***************************************************************************)
(* What a filter keeps.                                                    *)
(***************************************************************************)

\* h places the members of t, in their order, among the first n places of s.
Places(h, t, s, n) ==
  /\ h \in [1..Len(t) -> 1..n]
  /\ \A i, j \in 1..Len(t) : i < j => h[i] < h[j]
  /\ \A i \in 1..Len(t) : t[i] = s[h[i]]

\* A filter keeps the members in the set, in their order.
LEMMA KeepPlaces ==
  ASSUME NEW U, NEW s \in Seq(U), NEW S
  PROVE  /\ Keep(s, S) \in Seq(U)
         /\ \E h : Places(h, Keep(s, S), s, Len(s))
         /\ ToSet(Keep(s, S)) = ToSet(s) \cap S
  <1> DEFINE n == Len(s)
  <1>1. PICK f :
          /\ f[0] = <<>>
          /\ \A i \in 1..n : f[i] = IF s[i] \in S THEN Append(f[i - 1], s[i]) ELSE f[i - 1]
          /\ Keep(s, S) = f[n]
    BY KeepRec
  <1>0. n \in Nat /\ \A i \in 1..n : s[i] \in U
    OBVIOUS
  <1> HIDE DEF n
  <1> DEFINE Good(i) == /\ f[i] \in Seq(U)
                        /\ \E h : Places(h, f[i], s, i)
                        /\ \A j \in 1..i : s[j] \in S => s[j] \in ToSet(f[i])
                        /\ ToSet(f[i]) \subseteq S
             T == {i \in 0..n : Good(i)}
  <1>2. 0 \in T
    <2>1. f[0] \in Seq(U) /\ Len(f[0]) = 0
      BY <1>1
    <2>2. ToSet(f[0]) = {}
      BY <2>1, MemberAt
    <2>3. Places([j \in 1..0 |-> 0], f[0], s, 0)
      BY <2>1 DEF Places
    <2> QED
      BY <1>0, <2>1, <2>2, <2>3
  <1>3. ASSUME NEW i \in 1..n, i - 1 \in T PROVE i \in T
    <2>0. i \in 0..n /\ i \in Nat
      BY <1>0
    <2>1. Good(i - 1)
      BY <1>3
    <2>2. f[i] = IF s[i] \in S THEN Append(f[i - 1], s[i]) ELSE f[i - 1]
      BY <1>1
    <2>3. PICK h : Places(h, f[i - 1], s, i - 1)
      BY <2>1
    <2> DEFINE t == f[i - 1]
               m == Len(t)
    <2>4. m \in Nat /\ t \in Seq(U)
      BY <2>1
    <2>5. \A j \in 1..i : j \in 1..(i - 1) \/ j = i
      BY <2>0
    <2> HIDE DEF t
    <2>6. CASE s[i] \in S
      <3> DEFINE g == [j \in 1..(m + 1) |-> IF j = m + 1 THEN i ELSE h[j]]
      <3>1. f[i] = Append(t, s[i]) /\ f[i] \in Seq(U) /\ Len(f[i]) = m + 1
            /\ ToSet(f[i]) = ToSet(t) \cup {s[i]}
        BY <2>2, <2>4, <2>6, <1>0, ToSetAppend DEF t
      <3>2. /\ \A j \in 1..m : f[i][j] = t[j]
            /\ f[i][m + 1] = s[i]
        BY <2>4, <3>1, <1>0
      <3>3. h \in [1..m -> 1..(i - 1)] /\ \A j, k \in 1..m : j < k => h[j] < h[k]
        BY <2>3 DEF Places, t
      <3>4. \A j \in 1..m : t[j] = s[h[j]]
        BY <2>3 DEF Places, t
      <3>5. \A j \in 1..(m + 1) : j \in 1..m \/ j = m + 1
        BY <2>4
      <3>6. g \in [1..(m + 1) -> 1..i]
        BY <2>0, <2>4, <3>3, <3>5
      <3>7. \A j, k \in 1..(m + 1) : j < k => g[j] < g[k]
        <4> TAKE j, k \in 1..(m + 1)
        <4>1. CASE k = m + 1 /\ j \in 1..m
          BY <2>0, <2>4, <3>3, <4>1
        <4>2. CASE k \in 1..m /\ j \in 1..m
          BY <2>4, <3>3, <4>2
        <4> QED
          BY <2>4, <3>5, <4>1, <4>2
      <3>8. \A j \in 1..(m + 1) : f[i][j] = s[g[j]]
        <4> TAKE j \in 1..(m + 1)
        <4>1. CASE j = m + 1
          BY <2>4, <3>2, <4>1
        <4>2. CASE j \in 1..m
          BY <2>4, <3>2, <3>4, <4>2
        <4> QED
          BY <3>5, <4>1, <4>2
      <3> HIDE DEF g
      <3>9. Places(g, f[i], s, i)
        BY <3>1, <3>6, <3>7, <3>8 DEF Places
      <3>10. \A j \in 1..i : s[j] \in S => s[j] \in ToSet(f[i])
        BY <2>1, <2>5, <3>1 DEF t
      <3> QED
        BY <2>0, <2>1, <2>6, <3>1, <3>9, <3>10 DEF t
    <2>7. CASE s[i] \notin S
      <3>1. f[i] = t
        BY <2>2, <2>7 DEF t
      <3>2. Places(h, t, s, i)
        <4>1. 1..(i - 1) \subseteq 1..i
          BY <2>0
        <4> QED
          BY <2>3, <4>1 DEF Places, t
      <3>3. \A j \in 1..i : s[j] \in S => s[j] \in ToSet(f[i])
        BY <2>1, <2>5, <2>7, <3>1 DEF t
      <3> QED
        BY <2>0, <2>1, <3>1, <3>2, <3>3 DEF t
    <2> QED
      BY <2>6, <2>7
  <1> HIDE DEF T
  <1>4. \A i \in 0..n : i \in T
    BY <1>0, <1>2, <1>3, IntervalInduction
  <1>5. Good(n)
    BY <1>0, <1>4 DEF T
  <1>6. PICK h : Places(h, Keep(s, S), s, n)
    BY <1>1, <1>5
  <1>7. Keep(s, S) \in Seq(U)
    BY <1>1, <1>5
  <1>8. ASSUME NEW x \in ToSet(Keep(s, S)) PROVE x \in ToSet(s) \cap S
    <2>1. x \in S
      BY <1>1, <1>5, <1>8
    <2>2. PICK j \in 1..Len(Keep(s, S)) : Keep(s, S)[j] = x
      BY <1>7, <1>8, MemberAt
    <2>3. h[j] \in 1..n /\ s[h[j]] = x
      BY <1>6, <2>2 DEF Places
    <2> QED
      BY <2>1, <2>3, MemberAt DEF n
  <1>9. ASSUME NEW x \in ToSet(s) \cap S PROVE x \in ToSet(Keep(s, S))
    <2>1. PICK j \in 1..n : s[j] = x
      BY <1>9, MemberAt DEF n
    <2> QED
      BY <1>1, <1>5, <1>9, <2>1
  <1> QED
    BY <1>6, <1>7, <1>8, <1>9 DEF n

\* Members placed in order in a queue that repeats none, or that ascends, do so too.
LEMMA PlacesInherit ==
  ASSUME NEW U, NEW s \in Seq(U), NEW t \in Seq(U), NEW h, Places(h, t, s, Len(s))
  PROVE  /\ ToSet(t) \subseteq ToSet(s)
         /\ IsInjective(s) => IsInjective(t)
         /\ Len(t) <= Len(s)
  <1> DEFINE m == Len(t)
  <1>1. m \in Nat /\ Len(s) \in Nat /\ DOMAIN t = 1..m /\ DOMAIN s = 1..Len(s)
    OBVIOUS
  <1>2. /\ h \in [1..m -> 1..Len(s)]
        /\ \A i, j \in 1..m : i < j => h[i] < h[j]
        /\ \A i \in 1..m : t[i] = s[h[i]]
    BY DEF Places
  <1>3. ToSet(t) \subseteq ToSet(s)
    <2>1. ASSUME NEW x \in ToSet(t) PROVE x \in ToSet(s)
      <3>1. PICK i \in 1..m : t[i] = x
        BY <2>1, MemberAt
      <3>2. h[i] \in 1..Len(s) /\ s[h[i]] = x
        BY <1>2, <3>1
      <3> QED
        BY <3>2, MemberAt
    <2> QED
      BY <2>1
  <1>4. ASSUME NEW i \in 1..m, NEW j \in 1..m, h[i] = h[j] PROVE i = j
    <2>1. h[i] \in Int /\ h[j] \in Int
      BY <1>2
    <2>2. ~(i < j) /\ ~(j < i)
      BY <1>2, <1>4, <2>1
    <2> QED
      BY <2>2
  <1>5. ASSUME IsInjective(s) PROVE IsInjective(t)
    <2>1. ASSUME NEW i \in 1..m, NEW j \in 1..m, t[i] = t[j] PROVE i = j
      <3>1. h[i] = h[j]
        BY <1>1, <1>2, <1>5, <2>1 DEF IsInjective
      <3> QED
        BY <1>4, <3>1
    <2> QED
      BY <1>1, <2>1 DEF IsInjective
  <1>6. Len(t) <= Len(s)
    <2>1. h \in Injection(1..m, 1..Len(s))
      BY <1>2, <1>4 DEF Injection, IsInjective
    <2>2. IsFiniteSet(1..Len(s)) /\ IsFiniteSet(1..m)
          /\ Cardinality(1..Len(s)) = Len(s) /\ Cardinality(1..m) = m
      BY <1>1, IntervalSize, Zenon
    <2>3. Cardinality(1..m) <= Cardinality(1..Len(s))
      BY <2>1, <2>2, FS_Injection
    <2> QED
      BY <2>2, <2>3
  <1> QED
    BY <1>3, <1>5, <1>6

\* The facts about a filter that most proofs need.
LEMMA KeepFacts ==
  ASSUME NEW U, NEW s \in Seq(U), NEW S
  PROVE  /\ Keep(s, S) \in Seq(U)
         /\ ToSet(Keep(s, S)) = ToSet(s) \cap S
         /\ IsInjective(s) => IsInjective(Keep(s, S))
  BY KeepPlaces, PlacesInherit

\* The same for a queue without some members.
LEMMA WithoutFacts ==
  ASSUME NEW U, NEW s \in Seq(U), NEW S
  PROVE  /\ Without(s, S) \in Seq(U)
         /\ ToSet(Without(s, S)) = ToSet(s) \ S
         /\ IsInjective(s) => IsInjective(Without(s, S))
  <1> DEFINE R == ToSet(s) \ S
  <1>1. R \subseteq ToSet(s) /\ Without(s, S) = Keep(s, R)
    BY DEF Without
  <1> HIDE DEF R
  <1>2. /\ Keep(s, R) \in Seq(U)
        /\ ToSet(Keep(s, R)) = ToSet(s) \cap R
        /\ IsInjective(s) => IsInjective(Keep(s, R))
    BY KeepFacts
  <1> QED
    BY <1>1, <1>2 DEF R

\* A filter that every member passes changes nothing.
LEMMA KeepAll ==
  ASSUME NEW U, NEW s \in Seq(U), NEW S, \A i \in 1..Len(s) : s[i] \in S
  PROVE  Keep(s, S) = s
  <1> DEFINE n == Len(s)
  <1>1. PICK f :
          /\ f[0] = <<>>
          /\ \A i \in 1..n : f[i] = IF s[i] \in S THEN Append(f[i - 1], s[i]) ELSE f[i - 1]
          /\ Keep(s, S) = f[n]
    BY KeepRec
  <1>2. n \in Nat /\ \A i \in 1..n : s[i] \in U /\ s[i] \in S
    OBVIOUS
  <1> HIDE DEF n
  <1> DEFINE Good(i) == /\ f[i] \in Seq(U) /\ Len(f[i]) = i
                        /\ \A j \in 1..i : f[i][j] = s[j]
             T == {i \in 0..n : Good(i)}
  <1>3. 0 \in T
    <2>1. f[0] \in Seq(U) /\ Len(f[0]) = 0
      BY <1>1
    <2> QED
      BY <1>2, <2>1
  <1>4. ASSUME NEW i \in 1..n, i - 1 \in T PROVE i \in T
    <2> DEFINE t == f[i - 1]
    <2>1. /\ i \in 0..n /\ i \in Nat
          /\ t \in Seq(U) /\ Len(t) = i - 1 /\ \A j \in 1..(i - 1) : t[j] = s[j]
      BY <1>2, <1>4
    <2>2. f[i] = Append(t, s[i])
      BY <1>1, <1>2
    <2> HIDE DEF t
    <2>3. /\ f[i] \in Seq(U) /\ Len(f[i]) = Len(t) + 1 /\ f[i][Len(t) + 1] = s[i]
          /\ \A j \in 1..Len(t) : f[i][j] = t[j]
      BY <1>2, <2>1, <2>2
    <2>4. \A j \in 1..i : j \in 1..(i - 1) \/ j = i
      BY <2>1
    <2> QED
      BY <2>1, <2>3, <2>4
  <1> HIDE DEF T
  <1>40. \A i \in 0..n : i \in T
    BY <1>2, <1>3, <1>4, IntervalInduction
  <1>5. n \in T
    BY <1>2, <1>40
  <1>6. /\ Keep(s, S) \in Seq(U) /\ Len(Keep(s, S)) = n
        /\ \A j \in 1..n : Keep(s, S)[j] = s[j]
    BY <1>1, <1>5 DEF T
  <1> QED
    BY <1>6 DEF n

(***************************************************************************)
(* Folds.  The fold operators of the community modules are recursive       *)
(* functions on the subsets of a set, which take out one member at a time. *)
(***************************************************************************)

\* The subsets of a finite set are no larger than it.
LEMMA SubsetCardinality ==
  ASSUME NEW S, IsFiniteSet(S)
  PROVE  /\ Cardinality(S) \in Nat
         /\ \A s \in SUBSET S : IsFiniteSet(s) /\ Cardinality(s) \in 0..Cardinality(S)
  <1>1. Cardinality(S) \in Nat
    BY FS_CardinalityType
  <1>2. ASSUME NEW s \in SUBSET S PROVE IsFiniteSet(s) /\ Cardinality(s) \in 0..Cardinality(S)
    <2>1. IsFiniteSet(s) /\ Cardinality(s) <= Cardinality(S)
      BY FS_Subset
    <2>2. Cardinality(s) \in Nat
      BY <2>1, FS_CardinalityType
    <2> QED
      BY <1>1, <2>1, <2>2
  <1> QED
    BY <1>1, <1>2

\* A subset without one of its members.
LEMMA RemovedCardinality ==
  ASSUME NEW S, IsFiniteSet(S), NEW s \in SUBSET S, NEW x \in s
  PROVE  /\ Cardinality(s) \in 1..Cardinality(S)
         /\ Cardinality(s \ {x}) = Cardinality(s) - 1
  <1>1. IsFiniteSet(s) /\ Cardinality(s) \in 0..Cardinality(S) /\ Cardinality(S) \in Nat
    BY SubsetCardinality
  <1>2. Cardinality(s \ {x}) = Cardinality(s) - 1
    BY <1>1, FS_RemoveElement
  <1>3. Cardinality(s) # 0
    BY <1>1, FS_EmptySet
  <1> QED
    BY <1>1, <1>2, <1>3

\* R folds the functions of D over the subsets of S, c[s] being taken out of s first.
FoldsOver(R, S, X, b, D, c) ==
  /\ R \in [SUBSET S -> X]
  /\ R = [s \in SUBSET S |-> IF s = {} THEN b ELSE D[c[s]][R[s \ {c[s]}]]]

\* A fold of known type over a finite set has a solution, whichever member c takes first.
LEMMA FoldExists ==
  ASSUME NEW S, IsFiniteSet(S), NEW X, NEW b \in X, NEW D \in [S -> [X -> X]],
         NEW c, \A s \in SUBSET S : s # {} => c[s] \in s
  PROVE  \E R : FoldsOver(R, S, X, b, D, c)
  <1> DEFINE Def(g) == [s \in SUBSET S |-> IF s = {} THEN b ELSE D[c[s]][g[s \ {c[s]}]]]
             n == Cardinality(S)
             Y == [SUBSET S -> X]
             d == [s \in SUBSET S |-> b]
             E == [i \in 1..n |-> [h \in Y |-> Def(h)]]
  <1>1. n \in Nat /\ \A s \in SUBSET S : IsFiniteSet(s) /\ Cardinality(s) \in 0..n
    BY SubsetCardinality
  <1>2. \A s \in SUBSET S : \A x \in s :
          Cardinality(s) \in 1..n /\ Cardinality(s \ {x}) = Cardinality(s) - 1
    BY RemovedCardinality
  <1> HIDE DEF n
  <1>3. d \in Y /\ E \in [1..n -> [Y -> Y]]
    <2>1. ASSUME NEW h \in Y PROVE Def(h) \in Y
      <3>1. ASSUME NEW s \in SUBSET S, s # {} PROVE D[c[s]][h[s \ {c[s]}]] \in X
        <4>1. c[s] \in S /\ h[s \ {c[s]}] \in X
          BY <3>1
        <4> QED
          BY <4>1
      <3> QED
        BY <3>1
    <2> HIDE DEF Y
    <2> QED
      BY <2>1 DEF Y
  <1>4. PICK G \in [0..n -> Y] : G[0] = d /\ \A i \in 1..n : G[i] = E[i][G[i - 1]]
    <2> HIDE DEF Y, d, E
    <2>1. \E G : Iterates(G, n, Y, d, E)
      BY <1>1, <1>3, RecursionExists
    <2> QED
      BY <2>1 DEF Iterates
  <1> DEFINE R == [s \in SUBSET S |-> G[Cardinality(s)][s]]
  <1>5. R \in Y
    BY <1>1
  <1>6. R = Def(R)
    <2>1. ASSUME NEW s \in SUBSET S PROVE R[s] = Def(R)[s]
      <3>1. CASE s = {}
        BY <1>1, <1>4, <3>1, FS_EmptySet
      <3>2. CASE s # {}
        <4> DEFINE k == Cardinality(s)
                   t == s \ {c[s]}
        <4>1. c[s] \in s /\ k \in 1..n /\ Cardinality(t) = k - 1 /\ t \in SUBSET S
          BY <1>2, <3>2
        <4>2. G[k] = E[k][G[k - 1]] /\ G[k - 1] \in Y
          BY <1>1, <1>4, <4>1
        <4>3. G[k] = Def(G[k - 1])
          BY <4>1, <4>2
        <4>4. G[k][s] = D[c[s]][G[k - 1][t]]
          BY <3>2, <4>3
        <4>5. R[s] = G[k][s] /\ R[t] = G[k - 1][t]
          BY <4>1
        <4> QED
          BY <3>2, <4>4, <4>5
      <3> QED
        BY <3>1, <3>2
    <2>2. R = [s \in SUBSET S |-> R[s]] /\ Def(R) = [s \in SUBSET S |-> Def(R)[s]]
      OBVIOUS
    <2> HIDE DEF R, Def
    <2> QED
      BY <2>1, <2>2, Zenon
  <1> HIDE DEF R
  <1>7. FoldsOver(R, S, X, b, D, c)
    BY <1>5, <1>6, Zenon DEF FoldsOver
  <1> QED
    BY <1>7

\* The recursion that defines a sum holds, whichever member is taken out of the set first.
LEMMA SumFacts ==
  ASSUME NEW S, IsFiniteSet(S), NEW f, \A x \in S : f[x] \in Nat
  PROVE  \E g \in [SUBSET S -> Nat] :
           /\ g[{}] = 0
           /\ \A s \in SUBSET S : \A x \in s : g[s] = f[x] + g[s \ {x}]
           /\ SumFunctionOnSet(f, S) = g[S]
  <1> DEFINE C(s) == CHOOSE x \in s : TRUE
             Def(g) == [s \in SUBSET S |-> IF s = {} THEN 0 ELSE f[C(s)] + g[s \ {C(s)}]]
             K == CHOOSE g : g = Def(g)
             n == Cardinality(S)
  <1>1. SumFunctionOnSet(f, S) = K[S]
    BY Zenon DEF SumFunctionOnSet, FoldFunctionOnSet, MapThenFoldSet
  <1>2. \A s \in SUBSET S : s # {} => C(s) \in s
    OBVIOUS
  <1>3. n \in Nat /\ \A s \in SUBSET S : IsFiniteSet(s) /\ Cardinality(s) \in 0..n
    BY SubsetCardinality
  <1>4. \A s \in SUBSET S : \A x \in s :
          Cardinality(s) \in 1..n /\ Cardinality(s \ {x}) = Cardinality(s) - 1
    BY RemovedCardinality
  <1> HIDE DEF C, n
  <1>5. \E R : R = Def(R)
    <2> DEFINE c == [s \in SUBSET S |-> C(s)]
               D == [x \in S |-> [v \in Nat |-> f[x] + v]]
    <2>1. 0 \in Nat /\ D \in [S -> [Nat -> Nat]] /\ \A s \in SUBSET S : s # {} => c[s] \in s
      BY <1>2
    <2>2. PICK R \in [SUBSET S -> Nat] :
            R = [s \in SUBSET S |-> IF s = {} THEN 0 ELSE D[c[s]][R[s \ {c[s]}]]]
      <3> DEFINE X == Nat
                 b == 0
      <3> HIDE DEF c, D, X, b
      <3>1. b \in X /\ D \in [S -> [X -> X]]
        BY <2>1 DEF X, b
      <3>2. \E R : FoldsOver(R, S, X, b, D, c)
        BY <2>1, <3>1, FoldExists
      <3> QED
        BY <3>2 DEF X, b, FoldsOver
    <2>3. ASSUME NEW s \in SUBSET S, s # {}
          PROVE  D[c[s]][R[s \ {c[s]}]] = f[C(s)] + R[s \ {C(s)}]
      BY <1>2, <2>3
    <2> HIDE DEF c, D
    <2>4. R = Def(R)
      BY <2>2, <2>3
    <2> QED
      BY <2>4
  <1>6. K = Def(K)
    <2> HIDE DEF Def
    <2> QED
      BY <1>5, Zenon
  <1> HIDE DEF K
  <1>7. K[{}] = 0 /\ \A s \in SUBSET S : s # {} => K[s] = f[C(s)] + K[s \ {C(s)}]
    BY <1>6
  <1> DEFINE Good(s) == K[s] \in Nat /\ \A x \in s : K[s] = f[x] + K[s \ {x}]
             T == {k \in Nat : \A s \in SUBSET S : Cardinality(s) <= k => Good(s)}
  <1>8. 0 \in T
    <2>1. ASSUME NEW s \in SUBSET S, Cardinality(s) <= 0 PROVE Good(s)
      <3>1. Cardinality(s) = 0 /\ IsFiniteSet(s)
        BY <1>3, <2>1
      <3>2. s = {}
        BY <3>1, FS_EmptySet
      <3> QED
        BY <1>7, <3>2
    <2> HIDE DEF Good
    <2> QED
      BY <2>1
  <1>9. ASSUME NEW k \in Nat, k \in T PROVE k + 1 \in T
    <2>0. \A s \in SUBSET S : Cardinality(s) <= k => Good(s)
      BY <1>9
    <2> HIDE DEF Good
    <2> SUFFICES ASSUME NEW s \in SUBSET S, Cardinality(s) <= k + 1, s # {} PROVE Good(s)
      <3>1. Good({})
        BY <1>7 DEF Good
      <3> QED
        BY <3>1
    <2> DEFINE c == C(s)
    <2>1. c \in s /\ c \in S
      BY <1>2
    <2>2. ASSUME NEW x \in s
          PROVE  s \ {x} \in SUBSET S /\ Cardinality(s \ {x}) <= k /\ Good(s \ {x})
      <3>1. s \ {x} \in SUBSET S /\ Cardinality(s) \in 1..n
            /\ Cardinality(s \ {x}) = Cardinality(s) - 1
        BY <1>4
      <3>2. Cardinality(s \ {x}) <= k
        BY <1>3, <3>1
      <3> QED
        BY <2>0, <3>1, <3>2
    <2>3. K[s] = f[c] + K[s \ {c}] /\ f[c] \in Nat /\ K[s \ {c}] \in Nat
      <3>1. K[s] = f[c] + K[s \ {c}] /\ f[c] \in Nat
        BY <1>7, <2>1
      <3>2. K[s \ {c}] \in Nat
        BY <2>1, <2>2 DEF Good
      <3> QED
        BY <3>1, <3>2
    <2> HIDE DEF c
    <2>4. ASSUME NEW x \in s, x # c PROVE K[s] = f[x] + K[s \ {x}]
      <3> DEFINE u == (s \ {x}) \ {c}
      <3>1. K[s \ {c}] = f[x] + K[(s \ {c}) \ {x}]
        BY <2>1, <2>2, <2>4 DEF Good
      <3>2. K[s \ {x}] = f[c] + K[u]
        BY <2>1, <2>2, <2>4 DEF Good
      <3>3. (s \ {c}) \ {x} = u
        OBVIOUS
      <3>4. K[u] \in Nat
        <4>1. s \ {x} \in SUBSET S /\ Cardinality(s \ {x}) <= k /\ c \in s \ {x}
          BY <2>1, <2>2, <2>4
        <4>2. Cardinality(s \ {x}) \in 1..n /\ Cardinality(u) = Cardinality(s \ {x}) - 1
          BY <1>4, <4>1
        <4>3. u \in SUBSET S /\ Cardinality(u) <= k
          BY <1>3, <4>1, <4>2
        <4>4. Good(u)
          BY <2>0, <4>3
        <4> QED
          BY <4>4 DEF Good
      <3>5. f[x] \in Nat
        OBVIOUS
      <3>6. K[s] = f[c] + (f[x] + K[u])
        BY <2>3, <3>1, <3>3, Zenon
      <3>7. \A i, j, l \in Nat : i + (j + l) = j + (i + l)
        OBVIOUS
      <3>8. f[c] + (f[x] + K[u]) = f[x] + (f[c] + K[u])
        <4> HIDE DEF u
        <4> QED
          BY <2>3, <3>4, <3>5, <3>7, Zenon
      <3> QED
        BY <3>2, <3>6, <3>8, Zenon
    <2>5. K[s] \in Nat
      BY <2>3
    <2> QED
      BY <2>3, <2>4, <2>5 DEF Good
  <1> HIDE DEF Good
  <1>10. \A k \in Nat : k \in T
    <2> HIDE DEF T
    <2> QED
      BY <1>8, <1>9, SetInduction
  <1>11. \A s \in SUBSET S : Good(s)
    <2> TAKE s \in SUBSET S
    <2>1. Cardinality(s) \in Nat /\ Cardinality(s) <= Cardinality(s)
      BY <1>3
    <2>2. Cardinality(s) \in T
      BY <1>10, <2>1
    <2> QED
      BY <2>1, <2>2
  <1>12. K \in [SUBSET S -> Nat]
    <2>1. K = [s \in SUBSET S |-> K[s]]
      BY <1>6
    <2>2. \A s \in SUBSET S : K[s] \in Nat
      BY <1>11 DEF Good
    <2> QED
      BY <2>1, <2>2
  <1> QED
    BY <1>1, <1>7, <1>11, <1>12, Zenon DEF Good

(***************************************************************************)
(* Flattening.                                                             *)
(***************************************************************************)

\* The recursion that defines FlattenSeq holds.
LEMMA FlattenRec ==
  ASSUME NEW U, NEW q \in Seq(Seq(U))
  PROVE  \E g \in [0..Len(q) -> Seq(U)] :
           /\ g[0] = <<>> /\ \A i \in 1..Len(q) : g[i] = g[i - 1] \o q[i]
           /\ FlattenSeq(q) = g[Len(q)]
  <1> DEFINE n == Len(q)
             D == [i \in 1..n |-> [y \in Seq(U) |-> y \o q[i]]]
             Def(f) == [i \in 1..n |-> IF i = 1 THEN q[i] ELSE f[i - 1] \o q[i]]
             K == CHOOSE f : f = Def(f)
  <1>0. n \in Nat /\ <<>> \in Seq(U) /\ \A i \in 1..n : q[i] \in Seq(U)
    OBVIOUS
  <1>1. D \in [1..n -> [Seq(U) -> Seq(U)]]
    <2>1. \A i \in 1..n : \A y \in Seq(U) : y \o q[i] \in Seq(U)
      BY <1>0
    <2> QED
      BY <2>1
  <1>2. PICK g \in [0..n -> Seq(U)] : g[0] = <<>> /\ \A i \in 1..n : g[i] = D[i][g[i - 1]]
    <2> DEFINE X == Seq(U)
               b == <<>>
    <2> HIDE DEF X, b, D, n
    <2>1. b \in X /\ D \in [1..n -> [X -> X]]
      BY <1>0, <1>1 DEF X, b
    <2>2. \E g : Iterates(g, n, X, b, D)
      BY <1>0, <2>1, RecursionExists
    <2> QED
      BY <2>2 DEF X, b, Iterates
  <1>3. \A i \in 1..n : g[i - 1] \in Seq(U) /\ g[i] = g[i - 1] \o q[i]
    <2> TAKE i \in 1..n
    <2>1. i - 1 \in 0..n
      BY <1>0
    <2>2. g[i - 1] \in Seq(U)
      BY <2>1
    <2> QED
      BY <1>2, <2>2
  <1>4. 1 \in 1..n => g[1] = <<>> \o q[1]
    <2> SUFFICES ASSUME 1 \in 1..n PROVE g[1] = <<>> \o q[1]
      OBVIOUS
    <2>1. g[1] = g[1 - 1] \o q[1]
      BY <1>3
    <2>2. 1 - 1 = 0
      OBVIOUS
    <2> QED
      BY <1>2, <2>1, <2>2
  <1>5. CASE n = 0
    <2>1. q = <<>> /\ FlattenSeq(q) = q
      BY <1>5 DEF FlattenSeq
    <2> QED
      BY <1>2, <1>3, <1>5, <2>1
  <1>6. CASE n # 0
    <2>1. FlattenSeq(q) = K[n]
      BY <1>6, Zenon DEF FlattenSeq
    <2> DEFINE R == [i \in 1..n |-> g[i]]
    <2>2. R = Def(R)
      <3>1. ASSUME NEW i \in 1..n PROVE R[i] = Def(R)[i]
        <4>1. CASE i = 1
          <5>1. g[1] = <<>> \o q[1]
            BY <1>4, <4>1
          <5>2. <<>> \o q[1] = q[1]
            BY <1>0, <4>1
          <5> QED
            BY <4>1, <5>1, <5>2
        <4>2. CASE i # 1
          <5>1. i - 1 \in 1..n
            BY <1>0, <4>2
          <5>2. R[i] = g[i] /\ R[i - 1] = g[i - 1]
            BY <5>1
          <5> QED
            BY <1>3, <4>2, <5>2
        <4> QED
          BY <4>1, <4>2
      <3>2. R = [i \in 1..n |-> R[i]] /\ Def(R) = [i \in 1..n |-> Def(R)[i]]
        OBVIOUS
      <3> HIDE DEF R, Def
      <3> QED
        BY <3>1, <3>2, Zenon
    <2>3. K = Def(K)
      <3> HIDE DEF R, Def
      <3> QED
        BY <2>2, Zenon
    <2> HIDE DEF K
    <2> DEFINE T == {i \in 0..n : i > 0 => K[i] = g[i]}
    <2>4. 0 \in T
      BY <1>0
    <2>5. ASSUME NEW i \in 1..n, i - 1 \in T PROVE i \in T
      <3>1. CASE i = 1
        <4>1. K[1] = q[1] /\ g[1] = <<>> \o q[1]
          BY <1>4, <2>3, <3>1
        <4>2. <<>> \o q[1] = q[1]
          BY <1>0, <3>1
        <4> QED
          BY <1>0, <3>1, <4>1, <4>2
      <3>2. CASE i # 1
        <4>1. i - 1 > 0 /\ i \in 0..n
          BY <1>0, <3>2
        <4>2. K[i - 1] = g[i - 1]
          BY <2>5, <4>1
        <4>3. K[i] = K[i - 1] \o q[i]
          BY <2>3, <3>2
        <4> QED
          BY <1>3, <4>1, <4>2, <4>3
      <3> QED
        BY <3>1, <3>2
    <2>6. \A i \in 0..n : i \in T
      <3> HIDE DEF T, n
      <3> QED
        BY <1>0, <2>4, <2>5, IntervalInduction
    <2>7. K[n] = g[n]
      <3>1. n \in 0..n /\ n > 0
        BY <1>0, <1>6
      <3> QED
        BY <2>6, <3>1
    <2> QED
      BY <1>2, <1>3, <2>1, <2>7
  <1> QED
    BY <1>5, <1>6

\* Flattening a queue of sequences with one more at its end.
LEMMA FlattenFacts ==
  ASSUME NEW U, NEW q \in Seq(Seq(U)), NEW x \in Seq(U)
  PROVE  /\ FlattenSeq(q) \in Seq(U)
         /\ q = <<>> => FlattenSeq(q) = <<>>
         /\ FlattenSeq(Append(q, x)) = FlattenSeq(q) \o x
  <1> DEFINE n == Len(q)
             r == Append(q, x)
  <1>1. PICK g \in [0..n -> Seq(U)] :
          /\ g[0] = <<>> /\ \A i \in 1..n : g[i] = g[i - 1] \o q[i]
          /\ FlattenSeq(q) = g[n]
    BY FlattenRec
  <1>2. /\ r \in Seq(Seq(U)) /\ Len(r) = n + 1 /\ n \in Nat /\ r[n + 1] = x
        /\ \A i \in 1..n : r[i] = q[i]
    OBVIOUS
  <1> HIDE DEF r
  <1>3. PICK h \in [0..(n + 1) -> Seq(U)] :
          /\ h[0] = <<>> /\ \A i \in 1..(n + 1) : h[i] = h[i - 1] \o r[i]
          /\ FlattenSeq(r) = h[n + 1]
    <2>1. \E h \in [0..Len(r) -> Seq(U)] :
            /\ h[0] = <<>> /\ \A i \in 1..Len(r) : h[i] = h[i - 1] \o r[i]
            /\ FlattenSeq(r) = h[Len(r)]
      BY <1>2, FlattenRec
    <2> QED
      BY <1>2, <2>1
  <1> DEFINE T == {i \in 0..n : h[i] = g[i]}
  <1>4. 0 \in T
    BY <1>1, <1>2, <1>3
  <1>5. ASSUME NEW i \in 1..n, i - 1 \in T PROVE i \in T
    <2>1. i \in 1..(n + 1) /\ i \in 0..n
      BY <1>2
    <2>2. h[i] = h[i - 1] \o r[i] /\ g[i] = g[i - 1] \o q[i] /\ r[i] = q[i] /\ h[i - 1] = g[i - 1]
      BY <1>1, <1>2, <1>3, <1>5, <2>1
    <2> QED
      BY <2>1, <2>2
  <1>6. \A i \in 0..n : i \in T
    <2> HIDE DEF T, n
    <2> QED
      BY <1>2, <1>4, <1>5, IntervalInduction
  <1>7. h[n] = g[n] /\ g[n] \in Seq(U)
    <2>1. n \in 0..n
      BY <1>2
    <2> QED
      BY <1>6, <2>1
  <1>8. h[n + 1] = h[n] \o x
    <2>1. n + 1 \in 1..(n + 1) /\ (n + 1) - 1 = n
      BY <1>2
    <2> QED
      BY <1>2, <1>3, <2>1
  <1>9. q = <<>> => FlattenSeq(q) = <<>>
    BY <1>1
  <1> QED
    BY <1>1, <1>3, <1>7, <1>8, <1>9 DEF r
=============================================================================
