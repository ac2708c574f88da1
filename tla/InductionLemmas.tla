---------------------------- MODULE InductionLemmas ----------------------------
(***************************************************************************)
(* Induction over the natural numbers and over sequences, definition by    *)
(* recursion, and what follows for FlattenSeq: stated over sets and        *)
(* functions, so that the proofs can cite them.                            *)
(***************************************************************************)
EXTENDS Integers, SequencesExt, SequenceTheorems, WellFoundedInduction, TLAPS

\* A nonempty set of natural numbers has a least member.
LEMMA LeastNumber ==
  ASSUME NEW T, T \subseteq Nat, T # {}
  PROVE  \E x \in T : \A y \in T : x <= y
<1> DEFINE Less == {pair \in Nat \X Nat : pair[1] < pair[2]}
<1>1. IsWellFoundedOn(Less, Nat)
  BY NatLessThanWellFounded DEF OpToRel
<1> HIDE DEF Less
<1>2. PICK x \in T : \A y \in T : ~(<<y, x>> \in Less)
  BY <1>1, WFMin, Zenon
<1>3. ASSUME NEW y \in T
      PROVE  x <= y
  <2>1. SUFFICES ASSUME y < x PROVE FALSE
    OBVIOUS
  <2>2. <<y, x>> \in Less
    BY <2>1 DEF Less
  <2>3. QED
    BY <1>2, <2>2
<1>4. QED
  BY <1>3

\* A set that has 0, and the successor of each number it has, has every number.
LEMMA Induction ==
  ASSUME NEW T, 0 \in T, \A n \in Nat : n \in T => n + 1 \in T
  PROVE  Nat \subseteq T
<1> DEFINE rest == Nat \ T
<1> SUFFICES ASSUME rest # {} PROVE FALSE
  OBVIOUS
<1>1. PICK x \in rest : \A y \in rest : x <= y
  BY LeastNumber
<1>2. x # 0 /\ x - 1 \in Nat
  OBVIOUS
<1>3. x - 1 \in T
  BY <1>1, <1>2
<1>4. QED
  BY <1>2, <1>3

\* f has the value base at 0, and each further one up to N follows from the one
\* before it.
Iterates(f, base, step, N) ==
  f[0] = base /\ \A k \in 1..N : f[k] = step[<<k, f[k - 1]>>]

\* There is such a function.
LEMMA Recursion ==
  ASSUME NEW S, NEW base \in S, NEW N \in Nat, NEW step \in [(1..N) \X S -> S]
  PROVE  \E f \in [0..N -> S] : Iterates(f, base, step, N)
<1> DEFINE
      Defined(n) == \E f \in [0..n -> S] : Iterates(f, base, step, n)
      T == {n \in Nat : n <= N => Defined(n)}
<1>1. 0 \in T
  <2> DEFINE f == [k \in 0..0 |-> base]
  <2>1. f \in [0..0 -> S] /\ Iterates(f, base, step, 0)
    BY DEF Iterates
  <2>2. QED
    BY <2>1
<1>2. ASSUME NEW n \in Nat, n \in T
      PROVE  n + 1 \in T
  <2> SUFFICES ASSUME n + 1 <= N PROVE Defined(n + 1)
    OBVIOUS
  <2>1. PICK f \in [0..n -> S] : Iterates(f, base, step, n)
    BY <1>2
  <2> DEFINE g == [k \in 0..(n + 1) |-> IF k <= n THEN f[k] ELSE step[<<k, f[n]>>]]
  <2>2. g \in [0..(n + 1) -> S]
    OBVIOUS
  <2>3. ASSUME NEW k \in 1..(n + 1)
        PROVE  g[k] = step[<<k, g[k - 1]>>]
    <3>1. CASE k <= n
      <4>1. k \in 1..n /\ k \in 0..(n + 1) /\ k - 1 \in 0..(n + 1) /\ k - 1 <= n
        BY <3>1
      <4>2. f[k] = step[<<k, f[k - 1]>>]
        BY <2>1, <4>1 DEF Iterates
      <4>3. QED
        BY <3>1, <4>1, <4>2
    <3>2. CASE k = n + 1
      <4>1. k - 1 = n
        BY <3>2
      <4>2. QED
        BY <3>2, <4>1
    <3>3. QED
      BY <3>1, <3>2
  <2>4. g[0] = base
    BY <2>1 DEF Iterates
  <2>5. Iterates(g, base, step, n + 1)
    BY <2>3, <2>4 DEF Iterates
  <2>6. QED
    BY <2>2, <2>5
<1>3. Nat \subseteq T
  <2> HIDE DEF T
  <2>1. QED
    BY <1>1, <1>2, Induction
<1>4. QED
  BY <1>3

-----------------------------------------------------------------------------
(* Flattening. *)

\* f holds the concatenations of the first sequences of s.
Concatenates(f, s, n) ==
  \A k \in 1..n : f[k] = IF k = 1 THEN s[k] ELSE f[k - 1] \o s[k]

\* The recursion by which FlattenSeq is defined has a solution.
LEMMA FlattenDefined ==
  ASSUME NEW S, NEW n \in Nat \ {0}, NEW s \in [1..n -> Seq(S)]
  PROVE  \E f \in [1..n -> Seq(S)] :
           Concatenates(f, s, n) /\ FlattenSeq(s) = f[n]
<1> DEFINE Rule(f) == [i \in 1..n |-> IF i = 1 THEN s[i] ELSE f[i - 1] \o s[i]]
           step == [pair \in (1..n) \X Seq(S) |-> pair[2] \o s[pair[1]]]
<1>1. s \in Seq(Seq(S)) /\ Len(s) = n
  OBVIOUS
<1>2. PICK g \in [0..n -> Seq(S)] :
        Iterates(g, <<>>, step, n)
  <2>1. ASSUME NEW k \in 1..n, NEW front \in Seq(S)
        PROVE  front \o s[k] \in Seq(S)
    BY ConcatProperties
  <2>2. step \in [(1..n) \X Seq(S) -> Seq(S)]
    BY <2>1
  <2>3. <<>> \in Seq(S)
    OBVIOUS
  <2> HIDE DEF step
  <2>4. QED
    BY <2>2, <2>3, Recursion
<1>3. \A k \in 1..n : k - 1 \in 0..n /\ g[k - 1] \in Seq(S)
  OBVIOUS
<1>4. \A k \in 1..n : g[k] = g[k - 1] \o s[k]
  BY <1>2, <1>3 DEF Iterates
<1>5. g[1] = s[1]
  <2>1. g[0] = <<>> /\ 1 \in 1..n /\ 1 - 1 = 0
    BY <1>2 DEF Iterates
  <2>2. g[1] = <<>> \o s[1] /\ s[1] \in Seq(S)
    BY <1>4, <2>1
  <2>3. QED
    BY <2>2, ConcatEmptySeq
<1> DEFINE h == [k \in 1..n |-> g[k]]
<1>6. h = Rule(h)
  <2>1. ASSUME NEW k \in 1..n
        PROVE  h[k] = IF k = 1 THEN s[k] ELSE h[k - 1] \o s[k]
    <3>1. CASE k = 1
      BY <1>5, <3>1
    <3>2. CASE k # 1
      <4>1. k - 1 \in 1..n
        BY <3>2
      <4>2. h[k - 1] = g[k - 1] /\ h[k] = g[k]
        BY <4>1
      <4>3. QED
        BY <1>4, <3>2, <4>2
    <3>3. QED
      BY <3>1, <3>2
  <2>2. QED
    BY <2>1
<1> DEFINE f == CHOOSE x : x = Rule(x)
<1>7. f = Rule(f)
  <2>1. \E x : x = Rule(x)
    BY <1>6
  <2> HIDE DEF Rule
  <2>2. QED
    BY <2>1
<1>8. FlattenSeq(s) = f[n]
  BY <1>1 DEF FlattenSeq
<1> HIDE DEF f
<1>9. \A k \in 1..n : f[k] = IF k = 1 THEN s[k] ELSE f[k - 1] \o s[k]
  BY <1>7
<1>10. f \in [1..n -> Seq(S)]
  <2> DEFINE T == {k \in Nat : k \in 1..n => f[k] \in Seq(S)}
  <2>1. 0 \in T
    OBVIOUS
  <2>2. ASSUME NEW k \in Nat, k \in T
        PROVE  k + 1 \in T
    <3>1. SUFFICES ASSUME k + 1 \in 1..n PROVE f[k + 1] \in Seq(S)
      OBVIOUS
    <3>2. CASE k = 0
      BY <1>9, <3>1, <3>2
    <3>3. CASE k # 0
      <4>1. f[k] \in Seq(S) /\ (k + 1) - 1 = k /\ k + 1 # 1
        BY <2>2, <3>1, <3>3
      <4>2. f[k + 1] = f[k] \o s[k + 1]
        BY <1>9, <3>1, <4>1
      <4>3. QED
        BY <3>1, <4>1, <4>2, ConcatProperties
    <3>4. QED
      BY <3>2, <3>3
  <2>3. Nat \subseteq T
    <3> HIDE DEF T
    <3>1. QED
      BY <2>1, <2>2, Induction
  <2>4. \A k \in 1..n : f[k] \in Seq(S)
    BY <2>3
  <2>5. f = [k \in 1..n |-> f[k]]
    BY <1>7
  <2>6. QED
    BY <2>4, <2>5
<1>11. QED
  BY <1>8, <1>9, <1>10 DEF Concatenates

\* Flattening one sequence more appends it.
LEMMA FlattenAppend ==
  ASSUME NEW S, NEW n \in Nat, NEW s \in [1..(n + 1) -> Seq(S)]
  PROVE  FlattenSeq(s) = FlattenSeq([i \in 1..n |-> s[i]]) \o s[n + 1]
<1> DEFINE t == [i \in 1..n |-> s[i]]
<1>1. PICK f \in [1..(n + 1) -> Seq(S)] :
        Concatenates(f, s, n + 1) /\ FlattenSeq(s) = f[n + 1]
  <2>1. n + 1 \in Nat \ {0}
    OBVIOUS
  <2>2. QED
    BY <2>1, FlattenDefined
<1>2. CASE n = 0
  <2>1. FlattenSeq(t) = <<>>
    BY <1>2 DEF FlattenSeq
  <2>2. f[n + 1] = s[n + 1] /\ s[n + 1] \in Seq(S)
    BY <1>1, <1>2 DEF Concatenates
  <2>3. QED
    BY <1>1, <2>1, <2>2, ConcatEmptySeq
<1>3. CASE n # 0
  <2>1. t \in [1..n -> Seq(S)]
    OBVIOUS
  <2>2. PICK g \in [1..n -> Seq(S)] :
          Concatenates(g, t, n) /\ FlattenSeq(t) = g[n]
    <3> HIDE DEF t
    <3>1. QED
      BY <1>3, <2>1, FlattenDefined
  <2> DEFINE T == {k \in Nat : k \in 1..n => f[k] = g[k]}
  <2>3. 0 \in T
    OBVIOUS
  <2>4. ASSUME NEW k \in Nat, k \in T
        PROVE  k + 1 \in T
    <3>1. SUFFICES ASSUME k + 1 \in 1..n PROVE f[k + 1] = g[k + 1]
      OBVIOUS
    <3>2. CASE k = 0
      <4>1. 1 \in 1..n /\ 1 \in 1..(n + 1) /\ k + 1 = 1
        BY <3>1, <3>2
      <4>2. f[1] = s[1] /\ g[1] = t[1] /\ t[1] = s[1]
        BY <1>1, <2>2, <4>1 DEF Concatenates
      <4>3. QED
        BY <4>1, <4>2
    <3>3. CASE k # 0
      <4>1. k \in 1..n /\ f[k] = g[k] /\ (k + 1) - 1 = k /\ k + 1 \in 1..(n + 1) /\ k + 1 # 1
        BY <2>4, <3>1, <3>3
      <4>2. f[k + 1] = f[k] \o s[k + 1]
        BY <1>1, <3>1, <4>1 DEF Concatenates
      <4>3. g[k + 1] = g[k] \o s[k + 1]
        BY <2>2, <3>1, <4>1 DEF Concatenates
      <4>4. QED
        BY <4>1, <4>2, <4>3
    <3>4. QED
      BY <3>2, <3>3
  <2>5. Nat \subseteq T
    <3> HIDE DEF T
    <3>1. QED
      BY <2>3, <2>4, Induction
  <2>6. f[n] = g[n]
    BY <1>3, <2>5
  <2>7. f[n + 1] = f[n] \o s[n + 1]
    <3>1. n + 1 \in 1..(n + 1) /\ n + 1 # 1 /\ (n + 1) - 1 = n
      BY <1>3
    <3>2. QED
      BY <1>1, <3>1 DEF Concatenates
  <2>8. QED
    BY <1>1, <2>2, <2>6, <2>7
<1>4. QED
  BY <1>2, <1>3

-----------------------------------------------------------------------------
(* Sequences, element by element. *)

\* A set that has the empty sequence, and with each of its sequences every one
\* that is longer by an element, has every sequence.
LEMMA SequenceInduction ==
  ASSUME NEW S, NEW T, <<>> \in T,
         \A s \in Seq(S) : s \in T => \A e \in S : Append(s, e) \in T
  PROVE  Seq(S) \subseteq T
<1> DEFINE N == {n \in Nat : \A s \in Seq(S) : Len(s) = n => s \in T}
<1>1. 0 \in N
  <2>1. \A s \in Seq(S) : Len(s) = 0 => s = <<>>
    OBVIOUS
  <2> QED
    BY <2>1
<1>2. ASSUME NEW n \in Nat, n \in N
      PROVE  n + 1 \in N
  <2> SUFFICES ASSUME NEW s \in Seq(S), Len(s) = n + 1
               PROVE  s \in T
    OBVIOUS
  <2>1. /\ s # <<>> /\ Front(s) \in Seq(S) /\ Last(s) \in S
        /\ Len(Front(s)) = n /\ s = Append(Front(s), Last(s))
    <3>1. Front(s) = SubSeq(s, 1, n) /\ Last(s) = s[n + 1]
      BY DEF Front, Last
    <3>2. /\ SubSeq(s, 1, n) \in Seq(S) /\ Len(SubSeq(s, 1, n)) = n
          /\ \A i \in 1..n : SubSeq(s, 1, n)[i] = s[i]
      OBVIOUS
    <3>3. s[n + 1] \in S
      OBVIOUS
    <3>4. Append(SubSeq(s, 1, n), s[n + 1]) = s
      BY <3>2, <3>3
    <3> QED
      BY <3>1, <3>2, <3>3, <3>4
  <2>2. Front(s) \in T
    BY <1>2, <2>1
  <2> QED
    BY <2>1, <2>2
<1>3. Nat \subseteq N
  <2> HIDE DEF N
  <2> QED
    BY <1>1, <1>2, Induction
<1> QED
  <2> SUFFICES ASSUME NEW s \in Seq(S) PROVE s \in T
    OBVIOUS
  <2>1. Len(s) \in N
    BY <1>3
  <2> QED
    BY <2>1

\* What is written for a longer sequence: what is written for the shorter one, and
\* then for the element.
LEMMA FlattenEach ==
  ASSUME NEW S, NEW R, NEW write \in [S -> Seq(R)]
  PROVE  /\ FlattenSeq([k \in DOMAIN <<>> |-> write[<<>>[k]]]) = <<>>
         /\ \A s \in Seq(S) : \A e \in S :
              FlattenSeq([k \in DOMAIN Append(s, e) |-> write[Append(s, e)[k]]])
                = FlattenSeq([k \in DOMAIN s |-> write[s[k]]]) \o write[e]
<1>1. FlattenSeq([k \in DOMAIN <<>> |-> write[<<>>[k]]]) = <<>>
  <2>1. [k \in DOMAIN <<>> |-> write[<<>>[k]]] = <<>>
    OBVIOUS
  <2> QED
    BY <2>1 DEF FlattenSeq
<1>2. ASSUME NEW s \in Seq(S), NEW e \in S
      PROVE  FlattenSeq([k \in DOMAIN Append(s, e) |-> write[Append(s, e)[k]]])
               = FlattenSeq([k \in DOMAIN s |-> write[s[k]]]) \o write[e]
  <2> DEFINE long == [k \in DOMAIN Append(s, e) |-> write[Append(s, e)[k]]]
             n == Len(s)
  <2>1. /\ n \in Nat /\ DOMAIN Append(s, e) = 1..(n + 1) /\ DOMAIN s = 1..n
        /\ Append(s, e)[n + 1] = e /\ \A k \in 1..n : Append(s, e)[k] = s[k]
        /\ \A k \in 1..(n + 1) : Append(s, e)[k] \in S
    OBVIOUS
  <2>2. long \in [1..(n + 1) -> Seq(R)] /\ long[n + 1] = write[e]
    BY <2>1
  <2>3. [k \in 1..n |-> long[k]] = [k \in DOMAIN s |-> write[s[k]]]
    BY <2>1
  <2> HIDE DEF long, n
  <2>4. FlattenSeq(long) = FlattenSeq([k \in 1..n |-> long[k]]) \o long[n + 1]
    BY <2>1, <2>2, FlattenAppend
  <2> QED
    BY <2>2, <2>3, <2>4 DEF long
<1> QED
  BY <1>1, <1>2
=============================================================================
