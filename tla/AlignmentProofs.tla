--------------------------- MODULE AlignmentProofs ---------------------------
(***************************************************************************)
(* The alignment passes write every line once, pad within their limits,    *)
(* leave the lines alone in which formatting is off, and never let words   *)
(* overlap.                                                                *)
(***************************************************************************)
EXTENDS AlignmentProperties, InductionLemmas, FiniteSetTheorems

\* The largest and the smallest of finitely many numbers.
LEMMA RangeMax ==
  ASSUME NEW n \in Nat, NEW f \in [1..n -> Int], NEW S \in SUBSET Int, S # {},
         \A x \in S : \E k \in 1..n : x = f[k]
  PROVE  Max(S) \in S /\ \A x \in S : x <= Max(S)
<1> DEFINE From(m) == {T \in SUBSET Int : T # {} /\ \A x \in T : \E k \in 1..m : x = f[k]}
           Agrees == {m \in Nat : m <= n => \A T \in From(m) : \E x \in T : \A y \in T : x >= y}
<1>1. 0 \in Agrees
  <2>1. From(0) = {}
    OBVIOUS
  <2> QED
    BY <2>1
<1>2. ASSUME NEW m \in Nat, m \in Agrees
      PROVE  m + 1 \in Agrees
  <2>1. m <= n => \A R \in From(m) : \E x \in R : \A y \in R : x >= y
    <3> HIDE DEF From
    <3> QED
      BY <1>2
  <2>2. ASSUME m + 1 <= n, NEW T \in From(m + 1)
        PROVE  \E x \in T : \A y \in T : x >= y
    <3>1. /\ T \in SUBSET Int /\ T # {} /\ \A x \in T : \E k \in 1..(m + 1) : x = f[k]
          /\ f[m + 1] \in Int /\ m <= n
      BY <2>2
    <3> DEFINE rest == T \ {f[m + 1]}
    <3>2. \A x \in rest : \E k \in 1..m : x = f[k]
      BY <3>1
    <3>3. CASE rest = {}
      <4>1. T = {f[m + 1]}
        BY <3>1, <3>3
      <4> QED
        BY <3>1, <4>1
    <3>4. CASE rest # {}
      <4>1. PICK x \in rest : \A y \in rest : x >= y
        <5>1. rest \in From(m)
          BY <3>1, <3>2, <3>4
        <5> HIDE DEF From, rest
        <5> QED
          BY <2>1, <3>1, <5>1
      <4>2. CASE f[m + 1] \in T /\ f[m + 1] > x
        <5>1. \A y \in T : f[m + 1] >= y
          BY <3>1, <4>1, <4>2
        <5> QED
          BY <4>2, <5>1
      <4>3. CASE ~(f[m + 1] \in T /\ f[m + 1] > x)
        <5>1. \A y \in T : x >= y
          BY <3>1, <4>1, <4>3
        <5> QED
          BY <4>1, <5>1
      <4> QED
        BY <4>2, <4>3
    <3> QED
      BY <3>3, <3>4
  <2> HIDE DEF From
  <2> QED
    BY <2>2
<1>3. n \in Agrees
  <2> HIDE DEF Agrees
  <2> QED
    BY <1>1, <1>2, Induction
<1>4. \E x \in S : \A y \in S : x >= y
  <2>1. S \in From(n)
    OBVIOUS
  <2> QED
    BY <1>3, <2>1
<1>5. Max(S) \in S /\ \A y \in S : Max(S) >= y
  BY <1>4, Zenon DEF Max
<1> QED
  BY <1>5

LEMMA RangeMin ==
  ASSUME NEW n \in Nat, NEW f \in [1..n -> Int], NEW S \in SUBSET Int, S # {},
         \A x \in S : \E k \in 1..n : x = f[k]
  PROVE  Min(S) \in S /\ \A x \in S : Min(S) <= x
<1> DEFINE g == [k \in 1..n |-> -f[k]]
           T == {-x : x \in S}
<1>1. g \in [1..n -> Int] /\ T \in SUBSET Int /\ T # {}
  <2>1. g \in [1..n -> Int]
    OBVIOUS
  <2>2. T \in SUBSET Int
    OBVIOUS
  <2>3. T # {}
    <3>1. PICK x \in S : TRUE
      OBVIOUS
    <3>2. -x \in T
      OBVIOUS
    <3> QED
      BY <3>2
  <2> QED
    BY <2>1, <2>2, <2>3
<1>2. \A y \in T : \E k \in 1..n : y = g[k]
  OBVIOUS
<1> HIDE DEF g
<1>3. Max(T) \in T /\ \A y \in T : y <= Max(T)
  <2> HIDE DEF T
  <2> QED
    BY <1>1, <1>2, RangeMax
<1>4. PICK x \in S : Max(T) = -x
  BY <1>3
<1>5. \A y \in S : x <= y
  <2> TAKE y \in S
  <2>1. -y \in T
    OBVIOUS
  <2>2. -y <= -x
    BY <1>3, <1>4, <2>1
  <2> QED
    BY <2>2
<1>6. Min(S) \in S /\ \A y \in S : Min(S) =< y
  BY <1>5, Zenon DEF Min
<1> QED
  BY <1>6

LEMMA PairMin ==
  ASSUME NEW a \in Int, NEW b \in Int
  PROVE  Min({a, b}) \in Int
<1>1. \E x \in {a, b} : \A y \in {a, b} : x =< y
  <2>1. CASE a <= b
    BY <2>1
  <2>2. CASE b <= a
    BY <2>2
  <2> QED
    BY <2>1, <2>2
<1>2. Min({a, b}) \in {a, b}
  BY <1>1, Zenon DEF Min
<1> QED
  BY <1>2

\* The largest of numbers that are not negative, and zero.
LEMMA MaxOfRange ==
  ASSUME NEW n \in Nat, NEW f \in [1..n -> Int], NEW S \in SUBSET Int,
         \A x \in S : \E k \in 1..n : x = f[k]
  PROVE  MaxOf(S) \in Int
<1> DEFINE g == [k \in 1..(n + 1) |-> IF k <= n THEN f[k] ELSE 0]
           T == S \cup {0}
<1>1. g \in [1..(n + 1) -> Int] /\ T \in SUBSET Int /\ T # {} /\ n + 1 \in Nat
  OBVIOUS
<1>2. \A x \in T : \E k \in 1..(n + 1) : x = g[k]
  <2> TAKE x \in T
  <2>1. CASE x \in S
    <3>1. PICK k \in 1..n : x = f[k]
      BY <2>1
    <3>2. k \in 1..(n + 1) /\ g[k] = x
      BY <3>1
    <3> QED
      BY <3>2
  <2>2. CASE x = 0
    <3>1. n + 1 \in 1..(n + 1) /\ g[n + 1] = 0
      OBVIOUS
    <3> QED
      BY <2>2, <3>1
  <2> QED
    BY <2>1, <2>2
<1> HIDE DEF g, T
<1>3. Max(T) \in T
  BY <1>1, <1>2, RangeMax
<1> QED
  BY <1>1, <1>3 DEF MaxOf, T

LEMMA MaxOfOne ==
  ASSUME NEW a \in Int
  PROVE  MaxOf({a}) \in Int
<1> DEFINE f == [k \in 1..1 |-> a]
           S == {a}
<1>1. f \in [1..1 -> Int] /\ 1 \in Nat /\ S \in SUBSET Int
  OBVIOUS
<1>2. \A x \in S : \E k \in 1..1 : x = f[k]
  OBVIOUS
<1> HIDE DEF f, S
<1>3. MaxOf(S) \in Int
  BY <1>1, <1>2, MaxOfRange
<1> QED
  BY <1>3 DEF S

\* The numbers that a function takes on a set of line numbers.
LEMMA ImageBounds ==
  ASSUME NEW n \in Nat, NEW G, G \subseteq 1..n, NEW f, \A k \in G : f[k] \in Int,
         NEW image, \A x \in image : \E k \in G : x = f[k], \A k \in G : f[k] \in image
  PROVE  /\ MaxOf(image) \in Int
         /\ G # {} => Max(image) \in image /\ Max(image) \in Int /\ Min(image) \in Int
         /\ \A k \in G : Min(image) <= f[k] /\ f[k] <= Max(image)
<1> DEFINE g == [k \in 1..n |-> IF k \in G THEN f[k] ELSE 0]
<1>1. g \in [1..n -> Int] /\ image \in SUBSET Int
  OBVIOUS
<1>2. \A x \in image : \E k \in 1..n : x = g[k]
  OBVIOUS
<1>4. G # {} => image # {}
  OBVIOUS
<1> HIDE DEF g
<1>5. MaxOf(image) \in Int
  BY <1>1, <1>2, MaxOfRange
<1>6. ASSUME G # {}
      PROVE  /\ Max(image) \in image /\ \A x \in image : x <= Max(image)
             /\ Min(image) \in image /\ \A x \in image : Min(image) <= x
  BY <1>1, <1>2, <1>4, <1>6, RangeMax, RangeMin
<1>7. G # {} => Max(image) \in image /\ Max(image) \in Int /\ Min(image) \in Int
  BY <1>1, <1>6
<1>8. \A k \in G : Min(image) <= f[k] /\ f[k] <= Max(image)
  BY <1>6
<1> QED
  BY <1>5, <1>7, <1>8

-----------------------------------------------------------------------------
(* Lines. *)

\* Lines as the passes may leave them: nothing is said about the order of their
\* words, or about widths.
LooseWord == [what : WordKinds, at : Int, width : Int]

LooseLine ==
  [text : Kinds, kind : Kinds, depth : Nat, excess : Nat, ranges : Nat,
   plain : BOOLEAN, mark : Marks, words : Seq(LooseWord), dims : Seq(Dim)]

\* A line that is another one but for where its words stand and the spaces in its
\* brackets.
Kept(line, was) ==
  /\ line \in LooseLine
  /\ line.text = was.text /\ line.kind = was.kind /\ line.depth = was.depth
  /\ line.excess = was.excess /\ line.ranges = was.ranges
  /\ line.plain = was.plain /\ line.mark = was.mark
  /\ Len(line.words) = Len(was.words)
  /\ \A w \in DOMAIN line.words :
       /\ line.words[w].what = was.words[w].what
       /\ line.words[w].what # "dim" => line.words[w].width = was.words[w].width
  /\ SameDims(line.dims, was.dims)

LEMMA KeptItself ==
  ASSUME NEW line \in LooseLine
  PROVE  Kept(line, line)
BY DEF Kept, SameDims

LEMMA KeptOn ==
  ASSUME NEW a \in LooseLine, NEW b \in LooseLine, NEW c \in LooseLine,
         Kept(a, b), Kept(b, c)
  PROVE  Kept(a, c)
<1>1. /\ DOMAIN a.words = DOMAIN b.words /\ DOMAIN a.dims = DOMAIN b.dims
      /\ DOMAIN b.words = DOMAIN c.words /\ DOMAIN b.dims = DOMAIN c.dims
  BY DEF Kept, SameDims, LooseLine
<1>2. \A w \in DOMAIN a.words :
        /\ a.words[w].what = c.words[w].what
        /\ a.words[w].what # "dim" => a.words[w].width = c.words[w].width
  BY <1>1 DEF Kept
<1>3. SameDims(a.dims, c.dims)
  BY <1>1 DEF Kept, SameDims
<1> QED
  BY <1>2, <1>3 DEF Kept

\* The position of a word is that of a word of its kind, and depends on the kinds only.
LEMMA IndexOfProperties ==
  ASSUME NEW line, NEW what, Has(line, what)
  PROVE  /\ IndexOf(line, what) \in DOMAIN line.words
         /\ line.words[IndexOf(line, what)].what = what
BY DEF Has, IndexOf

LEMMA IndexOfSame ==
  ASSUME NEW one, NEW other, NEW what, DOMAIN one.words = DOMAIN other.words,
         \A k \in DOMAIN one.words : one.words[k].what = other.words[k].what
  PROVE  IndexOf(one, what) = IndexOf(other, what) /\ Has(one, what) = Has(other, what)
<1>1. \A k : (k \in DOMAIN one.words /\ one.words[k].what = what)
             <=> (k \in DOMAIN other.words /\ other.words[k].what = what)
  OBVIOUS
<1>2. Has(one, what) = Has(other, what)
  BY DEF Has
<1> QED
  BY <1>1, <1>2 DEF IndexOf

LEMMA ColumnTypes ==
  ASSUME NEW line \in LooseLine
  PROVE  /\ Indent(line) \in Int
         /\ \A what : Column(line, what) \in Int
         /\ \A what : Column(line, what) # npos => Has(line, what)
<1>1. line.words \in Seq(LooseWord)
  BY DEF LooseLine
<1>2. \A k \in DOMAIN line.words : line.words[k].at \in Int
  <2> TAKE k \in DOMAIN line.words
  <2>1. line.words[k] \in LooseWord
    BY <1>1
  <2> QED
    BY <2>1 DEF LooseWord
<1>3. Indent(line) \in Int
  <2>1. CASE line.words = <<>>
    BY <2>1 DEF Indent
  <2>2. CASE line.words # <<>>
    <3>1. 1 \in DOMAIN line.words
      BY <1>1, <2>2
    <3> QED
      BY <1>2, <2>2, <3>1 DEF Indent
  <2> QED
    BY <2>1, <2>2
<1>4. ASSUME NEW what
      PROVE  Column(line, what) \in Int /\ (Column(line, what) # npos => Has(line, what))
  <2>1. CASE Has(line, what)
    BY <1>2, <2>1, IndexOfProperties DEF Column
  <2>2. CASE ~Has(line, what)
    BY <2>2 DEF Column, npos
  <2> QED
    BY <2>1, <2>2
<1> QED
  BY <1>3, <1>4

LEMMA KeptHas ==
  ASSUME NEW a \in LooseLine, NEW b \in LooseLine, NEW what, Kept(a, b)
  PROVE  Has(a, what) = Has(b, what) /\ IndexOf(a, what) = IndexOf(b, what)
<1>1. /\ a.words \in Seq(LooseWord) /\ b.words \in Seq(LooseWord)
      /\ Len(a.words) = Len(b.words)
      /\ \A w \in DOMAIN a.words : a.words[w].what = b.words[w].what
  BY DEF Kept, LooseLine
<1>2. DOMAIN a.words = DOMAIN b.words
  BY <1>1
<1> QED
  BY <1>1, <1>2, IndexOfSame

LEMMA MoveWordKept ==
  ASSUME NEW line \in LooseLine, NEW k \in Nat \ {0}, NEW column \in Int
  PROVE  /\ Kept(MoveWord(line, k, column), line)
         /\ k \in DOMAIN line.words => MoveWord(line, k, column).words[k].at = column
<1> DEFINE old == line.words
           new == [j \in DOMAIN old |->
                     IF j < k THEN old[j]
                     ELSE [old[j] EXCEPT !.at = @ + column - old[k].at]]
           moved == [line EXCEPT !.words = new]
<1>1. old \in Seq(LooseWord) /\ line.dims \in Seq(Dim)
  BY DEF LooseLine
<1>2. ASSUME NEW j \in DOMAIN old
      PROVE  /\ new[j] \in LooseWord /\ new[j].what = old[j].what
             /\ new[j].width = old[j].width
             /\ j = k => new[j].at = column
  <2>1. old[j] \in LooseWord
    BY <1>1
  <2>2. CASE j < k
    BY <2>1, <2>2
  <2>3. CASE ~(j < k)
    <3>1. k \in DOMAIN old
      BY <1>1, <2>3
    <3>2. old[k].at \in Int /\ old[j].at \in Int
      <4>1. old[k] \in LooseWord
        BY <1>1, <3>1
      <4> HIDE DEF old
      <4> QED
        BY <2>1, <4>1 DEF LooseWord
    <3> DEFINE at == old[j].at + column - old[k].at
    <3>3. at \in Int /\ (j = k => at = column)
      BY <3>2
    <3>4. new[j] = [old[j] EXCEPT !.at = at]
      BY <2>3
    <3> HIDE DEF at, new, old
    <3> QED
      BY <2>1, <3>3, <3>4 DEF LooseWord
  <2> QED
    BY <2>2, <2>3
<1>3. new \in Seq(LooseWord) /\ Len(new) = Len(old) /\ DOMAIN new = DOMAIN old
  <2>1. DOMAIN new = 1..Len(old) /\ Len(old) \in Nat
    BY <1>1
  <2> HIDE DEF new, old
  <2>2. \A j \in 1..Len(old) : new[j] \in LooseWord
    BY <1>1, <1>2
  <2>3. new = [j \in 1..Len(old) |-> new[j]]
    BY <2>1 DEF new
  <2> QED
    BY <2>1, <2>2, <2>3
<1>4. MoveWord(line, k, column) = moved
  BY DEF MoveWord
<1> HIDE DEF new
<1>5. moved \in LooseLine /\ moved.words = new /\ moved.dims = line.dims
  BY <1>3 DEF LooseLine
<1>6. SameDims(moved.dims, line.dims)
  BY <1>5 DEF SameDims
<1>7. Kept(moved, line)
  BY <1>2, <1>3, <1>5, <1>6 DEF Kept
<1> QED
  BY <1>2, <1>4, <1>5, <1>7

LEMMA MoveToKept ==
  ASSUME NEW line \in LooseLine, NEW what, NEW column, Has(line, what) => column \in Int
  PROVE  /\ Kept(MoveTo(line, what, column), line)
         /\ Has(line, what) => Column(MoveTo(line, what, column), what) = column
<1>1. CASE Has(line, what)
  <2> DEFINE k == IndexOf(line, what)
             moved == MoveWord(line, k, column)
  <2>1. line.words \in Seq(LooseWord)
    BY DEF LooseLine
  <2>2. k \in DOMAIN line.words /\ k \in Nat \ {0}
    BY <1>1, <2>1, IndexOfProperties
  <2>3. MoveTo(line, what, column) = moved
    BY <1>1 DEF MoveTo
  <2> HIDE DEF k
  <2>4. Kept(moved, line) /\ moved.words[k].at = column
    BY <1>1, <2>2, MoveWordKept
  <2> HIDE DEF moved
  <2>5. IndexOf(moved, what) = k /\ Has(moved, what)
    <3>1. /\ moved.words \in Seq(LooseWord) /\ Len(moved.words) = Len(line.words)
          /\ \A w \in DOMAIN moved.words : moved.words[w].what = line.words[w].what
      BY <2>4 DEF Kept, LooseLine
    <3>2. DOMAIN moved.words = DOMAIN line.words
      BY <2>1, <3>1
    <3> QED
      BY <1>1, <3>1, <3>2, IndexOfSame DEF k
  <2> QED
    BY <2>3, <2>4, <2>5 DEF Column
<1>2. CASE ~Has(line, what)
  BY <1>2, KeptItself DEF MoveTo
<1> QED
  BY <1>1, <1>2

-----------------------------------------------------------------------------
(* Dimensions. *)

LEMMA DimWidthInt ==
  ASSUME NEW dim \in Dim
  PROVE  DimWidth(dim) \in Int
BY DEF DimWidth, Dim

LEMMA DimWidthCounted ==
  ASSUME NEW dim \in Dim, dim.lead \in Nat, dim.before \in Nat, dim.behind \in Nat,
         dim.tail \in Nat
  PROVE  DimWidth(dim) \in Nat
<1>1. dim.left \in Nat /\ dim.right \in Nat
  BY DEF Dim
<1> QED
  BY <1>1 DEF DimWidth

\* Dimensions have a width.
LEMMA DimsWidthBounds ==
  ASSUME NEW dims \in Seq(Dim)
  PROVE  /\ DimsWidth(dims) \in Int
         /\ SpacesCounted(dims) /\ dims # <<>> => DimsWidth(dims) > 0
<1> DEFINE N == Len(dims)
           step == [pair \in (1..N) \X Int |-> pair[2] + DimWidth(dims[pair[1]]) + 3]
           Rule(f) == [j \in 0..N |-> IF j = 0 THEN -1 ELSE f[j - 1] + DimWidth(dims[j]) + 3]
           upTo == CHOOSE f : f = Rule(f)
<1>1. N \in Nat /\ -1 \in Int
  OBVIOUS
<1>2. step \in [(1..N) \X Int -> Int]
  <2>1. ASSUME NEW k \in 1..N, NEW x \in Int
        PROVE  x + DimWidth(dims[k]) + 3 \in Int
    <3>1. dims[k] \in Dim
      OBVIOUS
    <3>2. DimWidth(dims[k]) \in Int
      BY <3>1, DimWidthInt
    <3> QED
      BY <3>2
  <2> QED
    BY <2>1
<1>3. PICK g \in [0..N -> Int] : Iterates(g, -1, step, N)
  <2> HIDE DEF N, step
  <2> QED
    BY <1>1, <1>2, Recursion
<1>4. g = Rule(g)
  <2>1. ASSUME NEW k \in 1..N
        PROVE  g[k] = g[k - 1] + DimWidth(dims[k]) + 3
    <3>1. g[k] = step[<<k, g[k - 1]>>]
      BY <1>3 DEF Iterates
    <3>2. g[k - 1] \in Int
      BY <1>1
    <3> QED
      BY <3>1, <3>2
  <2>2. g[0] = -1
    BY <1>3 DEF Iterates
  <2>3. \A j \in 0..N : g[j] = IF j = 0 THEN -1 ELSE g[j - 1] + DimWidth(dims[j]) + 3
    BY <1>1, <2>1, <2>2
  <2>4. g = [j \in 0..N |-> g[j]]
    OBVIOUS
  <2> HIDE DEF N
  <2> QED
    BY <2>3, <2>4
<1>5. upTo = Rule(upTo)
  <2> HIDE DEF Rule
  <2> QED
    BY <1>4, Zenon
<1>6. \A j \in 0..N : upTo[j] = IF j = 0 THEN -1 ELSE upTo[j - 1] + DimWidth(dims[j]) + 3
  <2> HIDE DEF upTo, N
  <2> QED
    BY <1>5
<1>7. DimsWidth(dims) = upTo[N]
  BY DEF DimsWidth
<1> HIDE DEF upTo, Rule
<1> DEFINE Bounded == {n \in Nat : n <= N => /\ upTo[n] \in Int
                                             /\ SpacesCounted(dims) => upTo[n] >= 2 * n - 1}
<1>8. 0 \in Bounded
  BY <1>1, <1>6
<1>9. ASSUME NEW n \in Nat, n \in Bounded
      PROVE  n + 1 \in Bounded
  <2> SUFFICES ASSUME n + 1 <= N
               PROVE  upTo[n + 1] \in Int /\ (SpacesCounted(dims) => upTo[n + 1] >= 2 * n + 1)
    OBVIOUS
  <2>1. upTo[n] \in Int /\ (SpacesCounted(dims) => upTo[n] >= 2 * n - 1)
    BY <1>9
  <2>2. upTo[n + 1] = upTo[n] + DimWidth(dims[n + 1]) + 3
    BY <1>1, <1>6
  <2>3. dims[n + 1] \in Dim
    OBVIOUS
  <2>4. DimWidth(dims[n + 1]) \in Int
    BY <2>3, DimWidthInt
  <2>5. SpacesCounted(dims) => DimWidth(dims[n + 1]) >= 0
    <3> SUFFICES ASSUME SpacesCounted(dims) PROVE DimWidth(dims[n + 1]) >= 0
      OBVIOUS
    <3>1. /\ dims[n + 1].lead \in Nat /\ dims[n + 1].before \in Nat
          /\ dims[n + 1].behind \in Nat /\ dims[n + 1].tail \in Nat
      BY DEF SpacesCounted
    <3> QED
      BY <2>3, <3>1, DimWidthCounted
  <2> HIDE DEF N
  <2> QED
    BY <2>1, <2>2, <2>4, <2>5
<1>10. N \in Bounded
  <2> HIDE DEF Bounded
  <2> QED
    BY <1>1, <1>8, <1>9, Induction
<1>11. DimsWidth(dims) \in Int /\ (SpacesCounted(dims) => DimsWidth(dims) >= 2 * N - 1)
  BY <1>1, <1>7, <1>10
<1> QED
  BY <1>1, <1>11

LEMMA WithDimsKept ==
  ASSUME NEW line \in LooseLine, Has(line, "dim"), NEW dims \in Seq(Dim),
         SameDims(dims, line.dims)
  PROVE  Kept(WithDims(line, dims), line)
<1> DEFINE old == line.words
           d == IndexOf(line, "dim")
           grown == DimsWidth(dims) - old[d].width
           word(j) == CASE j < d -> old[j]
                        [] j = d -> [old[j] EXCEPT !.width = @ + grown]
                        [] j > d -> [old[j] EXCEPT !.at = @ + grown]
           new == [j \in DOMAIN old |-> word(j)]
           moved == [line EXCEPT !.dims = dims, !.words = new]
<1>1. old \in Seq(LooseWord)
  BY DEF LooseLine
<1>2. d \in DOMAIN old /\ d \in Nat /\ old[d].what = "dim"
  BY <1>1, IndexOfProperties
<1> HIDE DEF d
<1>3. grown \in Int
  <2>1. old[d] \in LooseWord
    BY <1>1, <1>2
  <2> HIDE DEF old
  <2> QED
    BY <2>1, DimsWidthBounds DEF LooseWord
<1> HIDE DEF grown
<1>4. ASSUME NEW j \in DOMAIN old
      PROVE  /\ new[j] \in LooseWord /\ new[j].what = old[j].what
             /\ new[j].what # "dim" => new[j].width = old[j].width
  <2>1. old[j] \in LooseWord /\ j \in Nat
    BY <1>1
  <2>2. CASE j < d
    <3>1. new[j] = old[j]
      BY <1>2, <2>1, <2>2
    <3> HIDE DEF new, old
    <3> QED
      BY <2>1, <3>1
  <2>3. CASE j = d
    <3>1. new[j] = [old[j] EXCEPT !.width = @ + grown]
      BY <1>2, <2>1, <2>3
    <3> HIDE DEF new, old
    <3> QED
      BY <1>2, <1>3, <2>1, <2>3, <3>1 DEF LooseWord
  <2>4. CASE j > d
    <3>1. new[j] = [old[j] EXCEPT !.at = @ + grown]
      BY <1>2, <2>1, <2>4
    <3> HIDE DEF new, old
    <3> QED
      BY <1>3, <2>1, <3>1 DEF LooseWord
  <2> QED
    BY <1>2, <2>1, <2>2, <2>3, <2>4
<1>5. new \in Seq(LooseWord) /\ Len(new) = Len(old) /\ DOMAIN new = DOMAIN old
  <2> HIDE DEF word
  <2>1. DOMAIN new = 1..Len(old) /\ Len(old) \in Nat
    BY <1>1
  <2> HIDE DEF new, old
  <2>2. \A j \in 1..Len(old) : new[j] \in LooseWord
    BY <1>1, <1>4
  <2>3. new = [j \in 1..Len(old) |-> new[j]]
    BY <2>1 DEF new
  <2> QED
    BY <2>1, <2>2, <2>3
<1>6. WithDims(line, dims) = moved
  BY DEF WithDims, d, grown
<1> HIDE DEF new
<1>7. moved \in LooseLine /\ moved.words = new /\ moved.dims = dims
  BY <1>5 DEF LooseLine
<1>8. Kept(moved, line)
  BY <1>4, <1>5, <1>7 DEF Kept
<1> QED
  BY <1>6, <1>8

\* Spaces around the colon are not part of what a dimension says.
LEMMA SpacedBySame ==
  ASSUME NEW dim \in Dim, NEW before \in Int, NEW behind \in Int
  PROVE  LET spaced == SpacedBy(dim, before, behind)
         IN  /\ spaced \in Dim /\ spaced.colon = dim.colon
             /\ spaced.left = dim.left /\ spaced.right = dim.right
BY DEF SpacedBy, Dim

\* A line whose dimensions are all rewritten by an operation that keeps what they say.
LEMMA RewrittenKept ==
  ASSUME NEW line \in LooseLine, Has(line, "dim"), NEW f,
         \A j \in DOMAIN line.dims :
           /\ f[j] \in Dim /\ f[j].colon = line.dims[j].colon
           /\ f[j].left = line.dims[j].left /\ f[j].right = line.dims[j].right
  PROVE  Kept(WithDims(line, [j \in DOMAIN line.dims |-> f[j]]), line)
<1> DEFINE dims == [j \in DOMAIN line.dims |-> f[j]]
<1>1. line.dims \in Seq(Dim)
  BY DEF LooseLine
<1>2. dims \in Seq(Dim) /\ Len(dims) = Len(line.dims)
  <2>1. DOMAIN line.dims = 1..Len(line.dims) /\ Len(line.dims) \in Nat
    BY <1>1
  <2> QED
    BY <2>1
<1>3. SameDims(dims, line.dims)
  BY <1>1, <1>2 DEF SameDims
<1> HIDE DEF dims
<1> QED
  BY <1>2, <1>3, WithDimsKept DEF dims

-----------------------------------------------------------------------------
(* What lines are taken for. *)

LooseInfo ==
  [kind : Kinds, indent : Int, keywordWidth : Int, typeWidth : Int, identPos : Int,
   equalsPos : Int, dimPos : Int, depth : Nat, maxExcess : Nat, metadataKind : BOOLEAN]

\* An operator, a dimension or spaces of the source are only seen where the line has
\* them.
InfoOf(info, line) ==
  /\ info \in LooseInfo
  /\ info.equalsPos \in {npos, Column(line, "op")}
  /\ info.dimPos \in {npos, Column(line, "dim")}
  /\ info.maxExcess \in {0, line.excess}

LEMMA PlainInfoTypes ==
  ASSUME NEW line \in LooseLine, NEW kind \in Kinds
  PROVE  InfoOf(PlainInfo(kind, line), line)
BY ColumnTypes DEF PlainInfo, InfoOf, LooseInfo, npos

LEMMA ClassifyLineTypes ==
  ASSUME NEW line \in LooseLine, NEW formatOff
  PROVE  InfoOf(ClassifyLine(line, formatOff), line)
<1>1. line.text \in Kinds /\ "Other" \in Kinds
  BY DEF LooseLine, Kinds
<1> DEFINE keyword == IF line.text = "Declaration" /\ Has(line, "keyword")
                      THEN line.words[IndexOf(line, "keyword")].width ELSE 0
           type == IF line.text = "Assignment" THEN 0 ELSE Column(line, "ident") - Indent(line)
           dimAt == IF line.text = "Declaration" THEN Column(line, "dim") ELSE npos
           plain == PlainInfo(line.text, line)
           seen == [plain EXCEPT !.keywordWidth = keyword, !.typeWidth = type,
                                 !.identPos = Column(line, "ident"),
                                 !.equalsPos = Column(line, "op"), !.dimPos = dimAt]
<1>2. keyword \in Int
  <2>1. CASE line.text = "Declaration" /\ Has(line, "keyword")
    <3> DEFINE k == IndexOf(line, "keyword")
    <3>1. k \in DOMAIN line.words
      BY <2>1, IndexOfProperties
    <3>2. line.words[k] \in LooseWord
      BY <3>1 DEF LooseLine
    <3> QED
      BY <2>1, <3>2 DEF LooseWord
  <2>2. CASE ~(line.text = "Declaration" /\ Has(line, "keyword"))
    BY <2>2
  <2> QED
    BY <2>1, <2>2
<1>3. /\ type \in Int /\ Column(line, "ident") \in Int /\ Column(line, "op") \in Int
      /\ dimAt \in Int /\ dimAt \in {npos, Column(line, "dim")}
  BY ColumnTypes DEF npos
<1>4. InfoOf(plain, line)
  BY <1>1, PlainInfoTypes
<1> HIDE DEF keyword, type, dimAt, plain
<1>5. InfoOf(seen, line)
  BY <1>2, <1>3, <1>4 DEF InfoOf, LooseInfo
<1>6. ClassifyLine(line, formatOff) \in {plain, PlainInfo("Other", line), seen}
  <2>1. CASE line.text \in {"Empty", "Comment", "PortListBoundary"}
    BY <2>1 DEF ClassifyLine, plain
  <2>2. CASE line.text = "Other"
    BY <2>2 DEF ClassifyLine, plain
  <2>3. CASE line.text \notin {"Empty", "Comment", "PortListBoundary", "Other"}
    BY <2>3 DEF ClassifyLine, plain, keyword, type, dimAt
  <2> QED
    BY <2>1, <2>2, <2>3
<1>7. InfoOf(PlainInfo("Other", line), line)
  BY <1>1, PlainInfoTypes
<1> HIDE DEF seen
<1> QED
  BY <1>4, <1>5, <1>6, <1>7

LEMMA MetadataTypes ==
  ASSUME NEW line \in LooseLine, NEW info, InfoOf(info, line), NEW formatOff
  PROVE  InfoOf(ApplyLineMetadata(line, info, formatOff), line)
<1> DEFINE deep == [info EXCEPT !.depth = line.depth, !.maxExcess = line.excess]
           declared == ReclassifyAsDeclaration(line, deep)
           chosen == IF line.kind = "Declaration" /\ info.kind = "Other" THEN declared ELSE deep
           told == [chosen EXCEPT !.kind = line.kind, !.metadataKind = TRUE]
           named == IF formatOff \/ line.kind = "Other" THEN deep ELSE told
           last == IF named.kind \in {"PortConnection", "DistItem"}
                   THEN [named EXCEPT !.equalsPos = Column(line, "op")] ELSE named
<1>1. InfoOf(deep, line)
  <2>1. line.depth \in Nat /\ line.excess \in Nat
    BY DEF LooseLine
  <2> QED
    BY <2>1 DEF InfoOf, LooseInfo
<1> HIDE DEF deep
<1>2. InfoOf(declared, line)
  <2>1. deep.indent \in Int
    BY <1>1 DEF InfoOf, LooseInfo
  <2>2. Column(line, "ident") \in Int /\ Column(line, "ident") - deep.indent \in Int
    BY <2>1, ColumnTypes
  <2>3. declared \in {deep, [deep EXCEPT !.typeWidth = Column(line, "ident") - deep.indent,
                                         !.identPos = Column(line, "ident")]}
    BY DEF ReclassifyAsDeclaration
  <2> HIDE DEF declared
  <2> QED
    BY <1>1, <2>2, <2>3 DEF InfoOf, LooseInfo
<1> HIDE DEF declared
<1>3. InfoOf(chosen, line)
  BY <1>1, <1>2
<1> HIDE DEF chosen
<1>4. InfoOf(told, line)
  <2>1. line.kind \in Kinds
    BY DEF LooseLine
  <2> QED
    BY <1>3, <2>1 DEF InfoOf, LooseInfo
<1> HIDE DEF told
<1>5. InfoOf(named, line)
  BY <1>1, <1>4
<1> HIDE DEF named
<1>6. InfoOf(last, line)
  <2>1. Column(line, "op") \in Int
    BY ColumnTypes
  <2>2. InfoOf([named EXCEPT !.equalsPos = Column(line, "op")], line)
    BY <1>5, <2>1 DEF InfoOf, LooseInfo
  <2> QED
    BY <1>5, <2>2
<1>7. ApplyLineMetadata(line, info, formatOff) = last
  BY DEF ApplyLineMetadata, last, named, told, chosen, declared, deep
<1> QED
  BY <1>6, <1>7

LEMMA ClassifyTypes ==
  ASSUME NEW ls \in Seq(LooseLine)
  PROVE  /\ DOMAIN ClassifyLines(ls) = DOMAIN ls
         /\ \A k \in DOMAIN ls : InfoOf(ClassifyLines(ls)[k], ls[k])
<1> DEFINE off == FormatOff(ls)
           seen(k) == ApplyLineMetadata(ls[k], ClassifyLine(ls[k], off[k]), off[k])
           carried(k) == [seen(k) EXCEPT !.kind = "Continuation", !.typeWidth = 0,
                              !.keywordWidth = 0, !.dimPos = npos,
                              !.identPos = Indent(ls[k]), !.equalsPos = Column(ls[k], "op")]
<1>1. \A k \in DOMAIN ls : InfoOf(seen(k), ls[k])
  <2> TAKE k \in DOMAIN ls
  <2>1. ls[k] \in LooseLine
    OBVIOUS
  <2> QED
    BY <2>1, ClassifyLineTypes, MetadataTypes
<1> HIDE DEF seen
<1>2. \A k \in DOMAIN ls : InfoOf(carried(k), ls[k])
  <2> TAKE k \in DOMAIN ls
  <2>1. ls[k] \in LooseLine
    OBVIOUS
  <2>2. Indent(ls[k]) \in Int /\ Column(ls[k], "op") \in Int
    BY <2>1, ColumnTypes
  <2>3. "Continuation" \in Kinds /\ npos \in Int
    BY DEF Kinds, npos
  <2>4. seen(k) \in LooseInfo
    BY <1>1 DEF InfoOf
  <2>5. carried(k) \in LooseInfo
    <3> DEFINE info == seen(k)
               indent == Indent(ls[k])
               column == Column(ls[k], "op")
    <3>1. carried(k) = [info EXCEPT !.kind = "Continuation", !.typeWidth = 0,
                              !.keywordWidth = 0, !.dimPos = npos,
                              !.identPos = indent, !.equalsPos = column]
      OBVIOUS
    <3> HIDE DEF info, indent, column, carried
    <3> QED
      <4>1. info \in LooseInfo /\ indent \in Int /\ column \in Int
        BY <2>2, <2>4 DEF info, indent, column
      <4>2. /\ info.indent \in Int /\ info.depth \in Nat /\ info.maxExcess \in Nat
            /\ info.metadataKind \in BOOLEAN
        BY <4>1 DEF LooseInfo
      <4>3. carried(k) = [kind |-> "Continuation", indent |-> info.indent, keywordWidth |-> 0,
                          typeWidth |-> 0, identPos |-> indent, equalsPos |-> column,
                          dimPos |-> npos, depth |-> info.depth,
                          maxExcess |-> info.maxExcess, metadataKind |-> info.metadataKind]
        BY <3>1, <4>1 DEF LooseInfo
      <4> QED
        BY <2>3, <4>1, <4>2, <4>3 DEF LooseInfo
  <2>6. carried(k).equalsPos = Column(ls[k], "op") /\ carried(k).dimPos = npos
    BY <2>4 DEF LooseInfo
  <2>7. carried(k).maxExcess \in {0, ls[k].excess}
    BY <1>1, <2>4 DEF LooseInfo, InfoOf
  <2> QED
    BY <2>5, <2>6, <2>7 DEF InfoOf
<1>3. /\ DOMAIN ClassifyLines(ls) = DOMAIN ls
      /\ \A k \in DOMAIN ls : ClassifyLines(ls)[k] \in {seen(k), carried(k)}
  BY DEF ClassifyLines, seen
<1> HIDE DEF carried
<1> QED
  BY <1>1, <1>2, <1>3

-----------------------------------------------------------------------------
(* The groups. *)

\* The lines that a pass works on, and what it takes them for.
Ready ==
  /\ style \in Style /\ lines \in Seq(LooseLine)
  /\ DOMAIN infos = DOMAIN lines
  /\ \A k \in DOMAIN lines : InfoOf(infos[k], lines[k])

LEMMA ReadyFacts ==
  ASSUME Ready, NEW k \in DOMAIN lines
  PROVE  /\ lines[k] \in LooseLine /\ infos[k] \in LooseInfo
         /\ infos[k].dimPos # npos => Has(lines[k], "dim")
         /\ infos[k].equalsPos # npos =>
              Has(lines[k], "op") /\ infos[k].equalsPos = Column(lines[k], "op")
         /\ infos[k].maxExcess \in {0, lines[k].excess}
<1>1. lines[k] \in LooseLine /\ InfoOf(infos[k], lines[k])
  BY DEF Ready
<1> QED
  BY <1>1, ColumnTypes DEF InfoOf

LEMMA GroupNumbers ==
  ASSUME Ready, NEW group \in SUBSET (DOMAIN lines)
  PROVE  Len(lines) \in Nat /\ group \subseteq 1..Len(lines)
BY DEF Ready

\* alignGroupPortConnections: lines stay, or their parentheses move to the column
\* of another connection of the group.
LEMMA PortConnectionsPadded ==
  ASSUME Ready, NEW group \in SUBSET (DOMAIN lines), NEW ctx, NEW k \in group
  PROVE  LET padded == GroupPortConnections(group, ctx)
         IN  \/ padded[k] = lines[k]
             \/ /\ infos[k].equalsPos # npos
                /\ \E j \in group, displacement \in Int :
                     /\ infos[j].equalsPos # npos
                     /\ infos[k].equalsPos <= infos[j].equalsPos
                     /\ padded[k] = MoveTo(lines[k], "op", infos[j].equalsPos)
                     /\ displacement >= infos[j].equalsPos - infos[k].equalsPos
                     /\ InferAlignPolicy(displacement, ctx)
<1> DEFINE padded == GroupPortConnections(group, ctx)
           ports == {l \in group : infos[l].kind = "PortConnection" /\ infos[l].equalsPos # npos}
           columns == {infos[l].equalsPos : l \in ports}
<1>1. CASE padded[k] = lines[k]
  BY <1>1
<1>2. CASE padded[k] # lines[k]
  <2>1. /\ k \in ports
        /\ InferAlignPolicy(Max(columns) - Min(columns), ctx)
        /\ padded[k] = MoveTo(lines[k], "op", Max(columns))
    BY <1>2 DEF GroupPortConnections
  <2> HIDE DEF padded
  <2> DEFINE f == [l \in ports |-> infos[l].equalsPos]
  <2>2. Len(lines) \in Nat /\ ports \subseteq 1..Len(lines)
    BY GroupNumbers
  <2>3. \A l \in ports : infos[l].equalsPos \in Int
    <3> TAKE l \in ports
    <3>1. infos[l] \in LooseInfo
      BY ReadyFacts
    <3> QED
      BY <3>1 DEF LooseInfo
  <2>4. /\ \A x \in columns : \E l \in ports : x = f[l]
        /\ \A l \in ports : f[l] \in columns /\ f[l] \in Int /\ f[l] = infos[l].equalsPos
    BY <2>3
  <2>5. /\ Max(columns) \in columns /\ Min(columns) \in Int
        /\ Min(columns) <= infos[k].equalsPos /\ infos[k].equalsPos <= Max(columns)
    <3>1. k \in ports
      BY <2>1
    <3> HIDE DEF f, ports, columns
    <3>2. /\ \A x \in columns : \E l \in ports : x = f[l]
          /\ \A l \in ports : f[l] \in columns
          /\ \A l \in ports : f[l] \in Int
      BY <2>4
    <3>3. /\ ports # {} => Max(columns) \in columns /\ Max(columns) \in Int
                           /\ Min(columns) \in Int
          /\ \A l \in ports : Min(columns) <= f[l] /\ f[l] <= Max(columns)
      BY <2>2, <3>2, ImageBounds, Zenon
    <3> QED
      BY <2>4, <3>1, <3>3
  <2>6. PICK j \in ports : Max(columns) = infos[j].equalsPos
    BY <2>5
  <2>7. Max(columns) - Min(columns) \in Int
    BY <2>3, <2>5, <2>6
  <2>8. Max(columns) - Min(columns) >= infos[j].equalsPos - infos[k].equalsPos
    BY <2>1, <2>3, <2>5, <2>6
  <2> DEFINE displacement == Max(columns) - Min(columns)
  <2>9. j \in group /\ infos[j].equalsPos # npos /\ infos[k].equalsPos # npos
    BY <2>1
  <2> HIDE DEF columns, ports
  <2>10. /\ padded[k] = MoveTo(lines[k], "op", infos[j].equalsPos)
         /\ InferAlignPolicy(displacement, ctx) /\ displacement \in Int
         /\ displacement >= infos[j].equalsPos - infos[k].equalsPos
         /\ infos[k].equalsPos <= infos[j].equalsPos
    BY <2>1, <2>5, <2>6, <2>7, <2>8
  <2> HIDE DEF displacement
  <2> QED
    BY <2>9, <2>10 DEF padded
<1> QED
  BY <1>1, <1>2

\* assignSubRuns is defined: the assignments in front of one are numbered first.
LEMMA SubRunsDefined ==
  ASSUME Ready, NEW members \in SUBSET (DOMAIN lines)
  PROVE  LET run == AssignSubRuns(members)
             earlier(k) == {j \in members : j < k /\ infos[j].depth = infos[k].depth}
             last(k) == Max(earlier(k))
             parted(k) == \/ HasDepthDropBelow(last(k), k, infos[k].depth)
                          \/ HasFlatGap(last(k), k, infos[k].depth)
         IN  \A k \in members :
               /\ run[k] \in Nat
               /\ earlier(k) # {} =>
                    /\ last(k) \in earlier(k) /\ \A j \in earlier(k) : j <= last(k)
                    /\ run[k] = run[last(k)] + (IF parted(k) THEN 1 ELSE 0)
<1> DEFINE n == Len(lines)
           earlier(k) == {j \in members : j < k /\ infos[j].depth = infos[k].depth}
           last(k) == Max(earlier(k))
           parted(k) == \/ HasDepthDropBelow(last(k), k, infos[k].depth)
                        \/ HasFlatGap(last(k), k, infos[k].depth)
           more(k) == IF parted(k) THEN 1 ELSE 0
           Value(h, k) == IF earlier(k) = {} THEN 0 ELSE h[last(k)] + more(k)
           Rule(h) == [k \in members |-> Value(h, k)]
           run == CHOOSE h : h = Rule(h)
<1>1. n \in Nat /\ members \subseteq 1..n
  BY GroupNumbers
<1>2. ASSUME NEW k \in members, earlier(k) # {}
      PROVE  last(k) \in earlier(k) /\ \A j \in earlier(k) : j <= last(k)
  <2> DEFINE f == [j \in 1..n |-> j]
  <2>1. /\ f \in [1..n -> Int] /\ earlier(k) \in SUBSET Int
        /\ \A x \in earlier(k) : \E j \in 1..n : x = f[j]
    BY <1>1
  <2> HIDE DEF f, earlier, n
  <2> QED
    BY <1>1, <1>2, <2>1, RangeMax
<1>3. ASSUME NEW k \in members, earlier(k) # {}
      PROVE  last(k) \in members /\ last(k) < k
  BY <1>2, <1>3
<1>4. \A k : more(k) \in Nat
  OBVIOUS
<1> HIDE DEF last, more
<1> DEFINE H == [members -> Nat]
           start == [k \in members |-> 0]
           Next1(k, h) == IF k \in members THEN [h EXCEPT ![k] = Value(h, k)] ELSE h
           step == [pair \in (1..n) \X H |-> Next1(pair[1], pair[2])]
<1>5. ASSUME NEW h \in H, NEW k \in members
      PROVE  Value(h, k) \in Nat
  <2>1. CASE earlier(k) = {}
    BY <2>1
  <2>2. CASE earlier(k) # {}
    <3>1. h[last(k)] \in Nat
      BY <1>3, <2>2
    <3> QED
      BY <1>4, <2>2, <3>1
  <2> QED
    BY <2>1, <2>2
<1>6. PICK f \in [0..n -> H] : Iterates(f, start, step, n)
  <2> HIDE DEF Value
  <2>1. ASSUME NEW k \in 1..n, NEW h \in H
        PROVE  Next1(k, h) \in H
    BY <1>5
  <2> HIDE DEF Next1
  <2>2. step \in [(1..n) \X H -> H]
    BY <2>1
  <2>3. start \in H
    OBVIOUS
  <2> HIDE DEF step, start, H, n
  <2> QED
    BY <1>1, <2>2, <2>3, Recursion
<1>7. \A m \in 1..n : f[m] \in H /\ f[m - 1] \in H /\ f[m] = Next1(m, f[m - 1])
  <2> TAKE m \in 1..n
  <2>1. f[m] = step[<<m, f[m - 1]>>]
    BY <1>6 DEF Iterates
  <2>2. f[m - 1] \in H /\ f[m] \in H
    <3>1. m \in 0..n /\ m - 1 \in 0..n
      BY <1>1
    <3> HIDE DEF H
    <3> QED
      BY <3>1
  <2> HIDE DEF Next1, H
  <2> QED
    BY <2>1, <2>2
<1> DEFINE Agrees == {m \in Nat : m <= n => \A k \in members : k <= m => f[m][k] = f[k][k]}
<1>8. 0 \in Agrees
  BY <1>1
<1>9. ASSUME NEW m \in Nat, m \in Agrees
      PROVE  m + 1 \in Agrees
  <2> SUFFICES ASSUME m + 1 <= n, NEW k \in members, k <= m + 1
               PROVE  f[m + 1][k] = f[k][k]
    OBVIOUS
  <2>1. CASE k = m + 1
    BY <2>1
  <2>2. CASE k # m + 1
    <3>1. k <= m /\ m <= n /\ m + 1 \in 1..n /\ (m + 1) - 1 = m
      BY <1>1, <2>2
    <3>2. f[m][k] = f[k][k]
      BY <1>9, <3>1
    <3>3. f[m] \in H /\ f[m + 1] = Next1(m + 1, f[m])
      BY <1>7, <3>1
    <3> HIDE DEF Value
    <3>4. f[m + 1][k] = f[m][k]
      BY <2>2, <3>3
    <3> QED
      BY <3>2, <3>4
  <2> QED
    BY <2>1, <2>2
<1>10. n \in Agrees
  <2> HIDE DEF Agrees
  <2> QED
    BY <1>1, <1>8, <1>9, Induction
<1>11. ASSUME NEW k \in members
       PROVE  f[n][k] = Value(f[n], k)
  <2>1. k \in 1..n /\ f[n][k] = f[k][k]
    BY <1>1, <1>10
  <2>2. f[k][k] = Value(f[k - 1], k)
    <3> HIDE DEF Value
    <3> QED
      BY <1>7, <2>1
  <2>3. ASSUME earlier(k) # {}
        PROVE  f[k - 1][last(k)] = f[n][last(k)]
    <3>1. last(k) \in members /\ last(k) < k /\ last(k) \in 1..n
      BY <1>1, <1>3, <2>3
    <3> DEFINE l == last(k)
    <3>2. k - 1 \in Agrees
      <4>1. \A m \in Nat : m \in Agrees
        <5> HIDE DEF Agrees
        <5> QED
          BY <1>8, <1>9, Induction
      <4> QED
        BY <2>1, <4>1
    <3>3. f[k - 1][l] = f[l][l]
      <4>1. \A j \in members : j <= k - 1 => f[k - 1][j] = f[j][j]
        <5>1. k - 1 <= n
          BY <1>1, <2>1
        <5> QED
          BY <3>2, <5>1
      <4>2. l <= k - 1
        BY <1>1, <2>1, <3>1
      <4> QED
        BY <3>1, <4>1, <4>2
    <3>4. f[n][l] = f[l][l]
      BY <1>1, <1>10, <3>1
    <3> QED
      BY <3>3, <3>4
  <2> QED
    BY <2>1, <2>2, <2>3
<1>12. f[n] = Rule(f[n])
  <2>1. f[n] \in H
    BY <1>1
  <2>2. f[n] = [k \in members |-> f[n][k]]
    BY <2>1
  <2> HIDE DEF Value
  <2> QED
    BY <1>11, <2>2
<1>13. run = Rule(run)
  <2> HIDE DEF Rule
  <2> QED
    BY <1>12, Zenon
<1>14. AssignSubRuns(members) = run
  BY DEF AssignSubRuns, last, more
<1>15. \A k \in members : run[k] = Value(run, k)
  <2> HIDE DEF run, Value
  <2> QED
    BY <1>13
<1> HIDE DEF run, Rule
<1> DEFINE Typed == {m \in Nat : \A k \in members : k <= m => run[k] \in Nat}
<1>16. 0 \in Typed
  BY <1>1
<1>17. ASSUME NEW m \in Nat, m \in Typed
       PROVE  m + 1 \in Typed
  <2> SUFFICES ASSUME NEW k \in members, k <= m + 1
               PROVE  run[k] \in Nat
    OBVIOUS
  <2>1. CASE earlier(k) = {}
    BY <1>15, <2>1
  <2>2. CASE earlier(k) # {}
    <3>1. last(k) \in members /\ last(k) <= m
      BY <1>1, <1>3, <2>2
    <3>2. run[last(k)] \in Nat
      BY <1>17, <3>1
    <3> QED
      BY <1>4, <1>15, <2>2, <3>2
  <2> QED
    BY <2>1, <2>2
<1>18. n \in Typed
  <2> HIDE DEF Typed
  <2> QED
    BY <1>1, <1>16, <1>17, Induction
<1>19. \A k \in members :
         /\ run[k] \in Nat
         /\ earlier(k) # {} => run[k] = run[last(k)] + more(k)
  BY <1>1, <1>15, <1>18
<1> HIDE DEF earlier
<1> QED
  BY <1>2, <1>14, <1>19 DEF last, more, earlier

\* Two assignments of one depth and one number have no line of an outer block
\* between them.
LEMMA SubRunsUnparted ==
  ASSUME Ready, NEW members \in SUBSET (DOMAIN lines)
  PROVE  \A j, k \in members :
           j < k /\ infos[j].depth = infos[k].depth =>
             /\ AssignSubRuns(members)[j] <= AssignSubRuns(members)[k]
             /\ AssignSubRuns(members)[j] = AssignSubRuns(members)[k] =>
                  ~HasDepthDropBelow(j, k, infos[k].depth)
<1> DEFINE run == AssignSubRuns(members)
           earlier(k) == {j \in members : j < k /\ infos[j].depth = infos[k].depth}
           last(k) == Max(earlier(k))
           Apart(j, k) == HasDepthDropBelow(j, k, infos[k].depth)
           parted(k) == Apart(last(k), k) \/ HasFlatGap(last(k), k, infos[k].depth)
           Fine(j, k) == run[j] <= run[k] /\ (run[j] = run[k] => ~Apart(j, k))
           T == {m \in Nat : \A k \in members : k <= m => \A j \in earlier(k) : Fine(j, k)}
<1>1. Len(lines) \in Nat /\ members \subseteq 1..Len(lines)
  BY GroupNumbers
<1>2. \A k \in members :
        /\ run[k] \in Nat
        /\ earlier(k) # {} =>
             /\ last(k) \in earlier(k) /\ \A j \in earlier(k) : j <= last(k)
             /\ run[k] = run[last(k)] + (IF parted(k) THEN 1 ELSE 0)
  BY SubRunsDefined
<1>3. \A k \in members : infos[k].depth \in Nat
  <2> TAKE k \in members
  <2>1. infos[k] \in LooseInfo
    BY ReadyFacts
  <2> QED
    BY <2>1 DEF LooseInfo
<1> HIDE DEF run, last
<1>4. 0 \in T
  BY <1>1
<1>5. ASSUME NEW m \in Nat, m \in T
      PROVE  m + 1 \in T
  <2> SUFFICES ASSUME NEW k \in members, k <= m + 1, NEW j \in earlier(k)
               PROVE  Fine(j, k)
    <3>1. m + 1 \in Nat
      OBVIOUS
    <3> HIDE DEF Fine, earlier
    <3> QED
      BY <3>1
  <2> DEFINE l == last(k)
  <2>1. /\ l \in earlier(k) /\ j <= l
        /\ run[k] = run[l] + (IF parted(k) THEN 1 ELSE 0)
    BY <1>2
  <2>2. /\ j \in members /\ j < k /\ infos[j].depth = infos[k].depth
        /\ l \in members /\ l < k /\ infos[l].depth = infos[k].depth
        /\ j \in Nat /\ k \in Nat /\ l \in Nat /\ l <= m
        /\ run[j] \in Nat /\ run[k] \in Nat /\ run[l] \in Nat
    BY <1>1, <1>2, <2>1
  <2>3. run[l] <= run[k] /\ (run[l] = run[k] => ~Apart(l, k))
    <3> HIDE DEF Apart, l
    <3> QED
      BY <2>1, <2>2 DEF l
  <2>4. CASE j = l
    <3> HIDE DEF Apart, l
    <3> QED
      BY <2>3, <2>4
  <2>5. CASE j < l
    <3>1. Fine(j, l)
      <4>1. j \in earlier(l)
        BY <2>2, <2>5
      <4> HIDE DEF Fine, earlier
      <4> QED
        BY <1>5, <2>2, <4>1
    <3>2. run[j] <= run[k] /\ (run[j] = run[k] => run[j] = run[l] /\ run[l] = run[k])
      <4> HIDE DEF Apart, l
      <4> QED
        BY <2>2, <2>3, <3>1
    <3>3. ASSUME run[j] = run[k]
          PROVE  ~Apart(j, k)
      <4>1. ~Apart(j, l) /\ ~Apart(l, k)
        <5> HIDE DEF Apart, l
        <5> QED
          BY <2>3, <3>1, <3>2, <3>3
      <4>2. SUFFICES ASSUME NEW x \in (j + 1)..(k - 1),
                            infos[x].kind # "PortListBoundary", infos[x].depth < infos[k].depth
                     PROVE  FALSE
        BY DEF HasDepthDropBelow
      <4>3. CASE x < l
        <5>1. x \in (j + 1)..(l - 1)
          BY <2>2, <4>3
        <5> QED
          BY <2>2, <4>1, <4>2, <5>1 DEF HasDepthDropBelow
      <4>4. CASE x = l
        BY <1>3, <2>2, <4>2, <4>4
      <4>5. CASE x > l
        <5>1. x \in (l + 1)..(k - 1)
          BY <2>2, <4>5
        <5> QED
          BY <4>1, <4>2, <5>1 DEF HasDepthDropBelow
      <4> HIDE DEF l
      <4> QED
        BY <2>2, <4>3, <4>4, <4>5
    <3> HIDE DEF Apart
    <3> QED
      BY <3>2, <3>3
  <2> HIDE DEF l, Fine
  <2> QED
    BY <2>1, <2>2, <2>4, <2>5
<1>6. Len(lines) \in T
  <2> HIDE DEF T
  <2> QED
    BY <1>1, <1>4, <1>5, Induction
<1>7. \A k \in members : \A j \in earlier(k) : Fine(j, k)
  <2> HIDE DEF Fine, earlier
  <2> QED
    BY <1>1, <1>6
<1> HIDE DEF Apart
<1> QED
  BY <1>7 DEF run, Apart

\* The most spaces that one of these lines has more in the source than in the output.
ExcessOf(members) == MaxOf({infos[m].maxExcess : m \in members})

\* The policy lets some lines of the group move by as much, for what was inferred from
\* them.
SomeInfer(group, ctx, displacement) ==
  \E members \in SUBSET group :
    InferAlignPolicy(displacement, [ctx EXCEPT !.groupMaxExcess = ExcessOf(members)])

\* alignGroupAssignments: lines stay, or their operators move to the column of
\* another assignment of the group that nothing parts from them.
LEMMA AssignmentsPadded ==
  ASSUME Ready, NEW group \in SUBSET (DOMAIN lines), NEW ctx, NEW k \in group
  PROVE  LET padded == GroupAssignments(group, ctx)
         IN  \/ padded[k] = lines[k]
             \/ /\ infos[k].equalsPos # npos
                /\ \E j \in group, displacement \in Int :
                     /\ infos[j].equalsPos # npos
                     /\ infos[k].equalsPos <= infos[j].equalsPos
                     /\ padded[k] = MoveTo(lines[k], "op", infos[j].equalsPos)
                     /\ displacement >= infos[j].equalsPos - infos[k].equalsPos
                     /\ SomeInfer(group, ctx, displacement)
                     /\ infos[j].depth = infos[k].depth
                     /\ j < k => ~HasDepthDropBelow(j, k, infos[k].depth)
                     /\ k < j => ~HasDepthDropBelow(k, j, infos[k].depth)
<1> DEFINE padded == GroupAssignments(group, ctx)
           members == {l \in group : IsAlignable(l)}
           subRun == AssignSubRuns(members)
           Bucket(l) == {j \in members : /\ infos[j].depth = infos[l].depth
                                         /\ subRun[j] = subRun[l]}
           bucket == Bucket(k)
           columns == {infos[j].equalsPos : j \in bucket}
           excess == ExcessOf(bucket)
<1>1. CASE padded[k] = lines[k]
  BY <1>1
<1>2. CASE padded[k] # lines[k]
  <2> HIDE DEF subRun
  <2>1. /\ k \in members
        /\ InferAlignPolicy(Max(columns) - Min(columns), [ctx EXCEPT !.groupMaxExcess = excess])
        /\ padded[k] = MoveTo(lines[k], "op", Max(columns))
    BY <1>2 DEF GroupAssignments, subRun, ExcessOf
  <2> HIDE DEF padded, excess
  <2> DEFINE f == [l \in bucket |-> infos[l].equalsPos]
  <2>2. Len(lines) \in Nat /\ bucket \subseteq 1..Len(lines) /\ k \in bucket
    BY <2>1, GroupNumbers
  <2>3. \A l \in members : infos[l].equalsPos \in Int /\ infos[l].equalsPos # npos
    <3> TAKE l \in members
    <3>1. infos[l] \in LooseInfo
      BY ReadyFacts
    <3> QED
      BY <3>1 DEF LooseInfo, IsAlignable
  <2>4. /\ \A x \in columns : \E l \in bucket : x = f[l]
        /\ \A l \in bucket : f[l] \in columns
        /\ \A l \in bucket : f[l] \in Int
        /\ \A l \in bucket : f[l] = infos[l].equalsPos
    BY <2>3
  <2>5. /\ Max(columns) \in columns /\ Min(columns) \in Int
        /\ Min(columns) <= infos[k].equalsPos /\ infos[k].equalsPos <= Max(columns)
    <3> HIDE DEF f, bucket, columns
    <3>1. /\ bucket # {} => Max(columns) \in columns /\ Max(columns) \in Int
                            /\ Min(columns) \in Int
          /\ \A l \in bucket : Min(columns) <= f[l] /\ f[l] <= Max(columns)
      BY <2>2, <2>4, ImageBounds, Zenon
    <3> QED
      BY <2>2, <2>4, <3>1
  <2>6. PICK j \in bucket : Max(columns) = infos[j].equalsPos
    BY <2>5
  <2>7. j \in members /\ infos[j].depth = infos[k].depth /\ subRun[j] = subRun[k]
    OBVIOUS
  <2>8. \A a, b \in members :
          a < b /\ infos[a].depth = infos[b].depth /\ subRun[a] = subRun[b] =>
            ~HasDepthDropBelow(a, b, infos[b].depth)
    <3>1. members \in SUBSET (DOMAIN lines)
      OBVIOUS
    <3> HIDE DEF members
    <3> QED
      BY <3>1, SubRunsUnparted DEF subRun
  <2>9. /\ j < k => ~HasDepthDropBelow(j, k, infos[k].depth)
        /\ k < j => ~HasDepthDropBelow(k, j, infos[k].depth)
    <3> HIDE DEF members
    <3> QED
      BY <2>1, <2>7, <2>8
  <2> DEFINE displacement == Max(columns) - Min(columns)
  <2>10. j \in group /\ infos[j].equalsPos # npos /\ infos[k].equalsPos # npos
    BY <2>1, <2>3, <2>7
  <2>11. displacement \in Int /\ displacement >= infos[j].equalsPos - infos[k].equalsPos
    <3>1. infos[j].equalsPos \in Int /\ infos[k].equalsPos \in Int
      BY <2>1, <2>3, <2>7
    <3> HIDE DEF columns
    <3> QED
      BY <2>5, <2>6, <3>1
  <2>12. /\ padded[k] = MoveTo(lines[k], "op", infos[j].equalsPos)
         /\ InferAlignPolicy(displacement, [ctx EXCEPT !.groupMaxExcess = excess])
         /\ infos[k].equalsPos <= infos[j].equalsPos
    BY <2>1, <2>5, <2>6
  <2>13. SomeInfer(group, ctx, displacement)
    <3>1. bucket \in SUBSET group
      OBVIOUS
    <3> QED
      BY <2>12, <3>1 DEF excess, SomeInfer
  <2> HIDE DEF displacement, columns, members, bucket
  <2> QED
    BY <2>7, <2>9, <2>10, <2>11, <2>12, <2>13 DEF padded
<1> QED
  BY <1>1, <1>2

\* alignGroupTimingControls moves words.
LEMMA TimingControlsKept ==
  ASSUME Ready, NEW group \in SUBSET (DOMAIN lines), NEW k \in group
  PROVE  Kept(GroupTimingControls(group)[k], lines[k])
<1> DEFINE timed == {l \in group : infos[l].kind = "TimingControl"}
           widths == {infos[l].typeWidth : l \in timed}
           maxTypeWidth == MaxOf(widths)
           Target(l) == infos[l].indent + maxTypeWidth
           Equals(l) == infos[l].equalsPos + Target(l) - infos[l].identPos
           ends == {Equals(l) : l \in timed}
           maxEqualsCol == Max(ends)
           one == MoveWord(lines[k], 1, maxEqualsCol + 1 + infos[k].indent)
           other == MoveTo(MoveTo(lines[k], "ident", Target(k)), "op", maxEqualsCol)
<1>1. lines[k] \in LooseLine
  BY ReadyFacts
<1>2. CASE k \notin timed \/ Cardinality(timed) < 2
  <2>1. GroupTimingControls(group)[k] = lines[k]
    BY <1>2 DEF GroupTimingControls
  <2> QED
    BY <1>1, <2>1, KeptItself
<1>3. CASE ~(k \notin timed \/ Cardinality(timed) < 2)
  <2>1. Len(lines) \in Nat /\ timed \subseteq 1..Len(lines) /\ k \in timed
    BY <1>3, GroupNumbers
  <2>2. \A l \in timed : /\ infos[l].typeWidth \in Int /\ infos[l].indent \in Int
                         /\ infos[l].equalsPos \in Int /\ infos[l].identPos \in Int
    <3> TAKE l \in timed
    <3>1. infos[l] \in LooseInfo
      BY ReadyFacts
    <3> QED
      BY <3>1 DEF LooseInfo
  <2>3. maxTypeWidth \in Int
    <3> DEFINE f == [l \in timed |-> infos[l].typeWidth]
    <3>1. /\ \A x \in widths : \E l \in timed : x = f[l]
          /\ \A l \in timed : f[l] \in widths
          /\ \A l \in timed : f[l] \in Int
      BY <2>2
    <3> HIDE DEF f, timed, widths
    <3> QED
      BY <2>1, <3>1, ImageBounds, Zenon
  <2> HIDE DEF maxTypeWidth
  <2>4. \A l \in timed : Target(l) \in Int /\ Equals(l) \in Int
    BY <2>2, <2>3
  <2> HIDE DEF Target, Equals
  <2>5. maxEqualsCol \in Int
    <3> DEFINE f == [l \in timed |-> Equals(l)]
    <3>1. /\ \A x \in ends : \E l \in timed : x = f[l]
          /\ \A l \in timed : f[l] \in ends
          /\ \A l \in timed : f[l] \in Int
      BY <2>4
    <3> HIDE DEF f, timed, ends
    <3>2. timed # {} => Max(ends) \in Int
      BY <2>1, <3>1, ImageBounds, Zenon
    <3> QED
      BY <2>1, <3>2
  <2> HIDE DEF maxEqualsCol
  <2>6. GroupTimingControls(group)[k] \in {one, other}
    BY <1>3 DEF GroupTimingControls, maxEqualsCol, Equals, Target, maxTypeWidth
  <2>7. Kept(one, lines[k])
    <3>1. maxEqualsCol + 1 + infos[k].indent \in Int
      BY <2>1, <2>2, <2>5
    <3> QED
      BY <1>1, <3>1, MoveWordKept
  <2>8. Kept(other, lines[k])
    <3> DEFINE named == MoveTo(lines[k], "ident", Target(k))
    <3>1. Kept(named, lines[k]) /\ named \in LooseLine
      <4>1. Target(k) \in Int
        BY <2>1, <2>4
      <4>2. Kept(named, lines[k])
        BY <1>1, <4>1, MoveToKept
      <4> QED
        BY <4>2 DEF Kept
    <3> HIDE DEF named
    <3>2. Kept(MoveTo(named, "op", maxEqualsCol), named)
      BY <2>5, <3>1, MoveToKept
    <3> QED
      BY <1>1, <3>1, <3>2, KeptOn DEF named, Kept
  <2> HIDE DEF one, other
  <2> QED
    BY <2>6, <2>7, <2>8
<1> QED
  BY <1>2, <1>3

\* alignGroupTrailingComments moves words.
LEMMA TrailingCommentsKept ==
  ASSUME Ready, NEW group \in SUBSET (DOMAIN lines), NEW k \in group
  PROVE  Kept(GroupTrailingComments(group)[k], lines[k])
<1> DEFINE commented == {l \in group : /\ infos[l].kind \notin {"Comment", "Empty"}
                                       /\ Has(lines[l], "comment")}
           End(l) == CodeEnd(lines[l]) + style.SpacesBeforeTrailingComments
           ends == {End(l) : l \in commented}
           column == MaxOf(ends)
<1>1. lines[k] \in LooseLine
  BY ReadyFacts
<1>2. Len(lines) \in Nat /\ commented \subseteq 1..Len(lines)
  BY GroupNumbers
<1>3. \A l \in commented : End(l) \in Int
  <2> TAKE l \in commented
  <2> DEFINE w == IndexOf(lines[l], "comment")
  <2>1. lines[l].words \in Seq(LooseWord)
    <3>1. lines[l] \in LooseLine
      BY ReadyFacts
    <3> QED
      BY <3>1 DEF LooseLine
  <2>2. w \in DOMAIN lines[l].words
    BY IndexOfProperties
  <2> HIDE DEF w
  <2>3. EndBefore(lines[l], w) \in Int
    <3>1. CASE w = 1
      BY <3>1 DEF EndBefore
    <3>2. CASE w # 1
      <4>1. w - 1 \in DOMAIN lines[l].words
        BY <2>1, <2>2, <3>2
      <4>2. lines[l].words[w - 1] \in LooseWord
        BY <2>1, <4>1
      <4> QED
        BY <3>2, <4>2 DEF EndBefore, WordEnd, LooseWord
    <3> QED
      BY <3>1, <3>2
  <2>4. style.SpacesBeforeTrailingComments \in Int
    BY DEF Ready, Style
  <2> QED
    BY <2>3, <2>4 DEF CodeEnd, w
<1> HIDE DEF End
<1>4. column \in Int
  <2> DEFINE f == [l \in commented |-> End(l)]
  <2>1. /\ \A x \in ends : \E l \in commented : x = f[l]
        /\ \A l \in commented : f[l] \in ends
        /\ \A l \in commented : f[l] \in Int
    BY <1>3
  <2> HIDE DEF f, commented, ends
  <2> QED
    BY <1>2, <2>1, ImageBounds, Zenon
<1> HIDE DEF column
<1>5. GroupTrailingComments(group)[k] \in {lines[k], MoveTo(lines[k], "comment", column)}
  BY DEF GroupTrailingComments, column, End
<1>6. Kept(lines[k], lines[k]) /\ Kept(MoveTo(lines[k], "comment", column), lines[k])
  BY <1>1, <1>4, KeptItself, MoveToKept
<1> QED
  BY <1>5, <1>6

\* slot holds one dimension of each of the lines G.
Collected(slot, of, G, n) ==
  /\ n \in Nat /\ G \subseteq 1..n /\ \A l \in G : of[l] \in Dim
  /\ \A d \in slot : \E l \in G : d = of[l]
  /\ \A l \in G : of[l] \in slot

\* emitDimContent writes other spaces.
LEMMA EmitDimContentSame ==
  ASSUME NEW dim \in Dim, NEW n, NEW G, NEW of, NEW slot, Collected(slot, of, G, n)
  PROVE  /\ EmitDimContent(dim, slot) \in Dim
         /\ EmitDimContent(dim, slot).colon = dim.colon
         /\ EmitDimContent(dim, slot).left = dim.left
         /\ EmitDimContent(dim, slot).right = dim.right
<1> USE DEF Collected
<1> DEFINE gap == EmitColon(dim)
           front == [dim EXCEPT !.lead = 0]
           bare == [front EXCEPT !.tail = 0]
           spaced == SpacedBy(bare, gap, gap)
           written == DimWidth(spaced)
           ranges == {d \in slot : d.colon}
           fulls == {d.left + d.right + ColonWidth(d) : d \in slot}
           lefts == {d.left : d \in ranges}
           rights == {d.right : d \in ranges}
           maxFull == MaxOf(fulls)
           maxLeft == MaxOf(lefts)
           maxRight == MaxOf(rights)
           byColon == alignStyle.AlignColon /\ dim.colon
           short == IF byColon THEN maxRight - dim.right ELSE maxFull - written
           inFront == IF alignStyle.PadLeft THEN short ELSE 0
           lead == IF byColon THEN maxLeft - dim.left ELSE inFront
           behind == IF byColon THEN gap + inFront ELSE gap
           tail == IF alignStyle.PadRight /\ ~alignStyle.PadLeft THEN short ELSE 0
           colons == {l \in G : of[l].colon}
<1>1. dim.left \in Int /\ dim.right \in Int
  BY DEF Dim
<1>2. gap \in Int
  BY DEF EmitColon
<1>3. written \in Int
  <2>1. bare \in Dim
    <3>1. front \in Dim
      BY DEF Dim
    <3> HIDE DEF front
    <3> QED
      BY <3>1 DEF Dim
  <2> HIDE DEF bare, gap
  <2>2. spaced \in Dim
    BY <1>2, <2>1, SpacedBySame
  <2> HIDE DEF spaced
  <2> QED
    BY <2>2, DimWidthInt
<1>4. maxFull \in Int
  <2> DEFINE f == [l \in G |-> of[l].left + of[l].right + ColonWidth(of[l])]
  <2>1. \A l \in G : f[l] \in Int
    <3> TAKE l \in G
    <3>1. of[l].left \in Int /\ of[l].right \in Int
      BY DEF Dim
    <3>2. ColonWidth(of[l]) \in Int
      BY DEF ColonWidth
    <3> QED
      BY <3>1, <3>2
  <2>2. /\ \A x \in fulls : \E l \in G : x = f[l]
        /\ \A l \in G : f[l] \in fulls
    OBVIOUS
  <2> HIDE DEF f, fulls
  <2> QED
    BY <2>1, <2>2, ImageBounds, Zenon
<1>5. colons \subseteq 1..n
  OBVIOUS
<1>6. maxLeft \in Int
  <2> DEFINE f == [l \in colons |-> of[l].left]
  <2>1. \A l \in colons : f[l] \in Int
    BY DEF Dim
  <2>2. /\ \A x \in lefts : \E l \in colons : x = f[l]
        /\ \A l \in colons : f[l] \in lefts
    OBVIOUS
  <2> HIDE DEF f, lefts, colons
  <2> QED
    BY <1>5, <2>1, <2>2, ImageBounds, Zenon
<1>7. maxRight \in Int
  <2> DEFINE f == [l \in colons |-> of[l].right]
  <2>1. \A l \in colons : f[l] \in Int
    BY DEF Dim
  <2>2. \A x \in rights : \E l \in colons : x = f[l]
    OBVIOUS
  <2>3. \A l \in colons : f[l] \in rights
    OBVIOUS
  <2> HIDE DEF f, rights, colons
  <2> QED
    BY <1>5, <2>1, <2>2, <2>3, ImageBounds, Zenon
<1> HIDE DEF gap, written, maxFull, maxLeft, maxRight
<1>8. lead \in Int /\ behind \in Int /\ tail \in Int
  BY <1>1, <1>2, <1>3, <1>4, <1>6, <1>7
<1>9. EmitDimContent(dim, slot) =
        [dim EXCEPT !.lead = lead, !.before = gap, !.behind = behind, !.tail = tail]
  BY DEF EmitDimContent, gap, written, maxFull, maxLeft, maxRight
<1> HIDE DEF lead, behind, tail
<1> QED
  BY <1>2, <1>8, <1>9 DEF Dim

\* alignGroupDimensions moves words and writes other spaces into brackets.
LEMMA PackedDimensionsKept ==
  ASSUME Ready, NEW group \in SUBSET (DOMAIN lines), NEW ctx, NEW k \in group
  PROVE  Kept(GroupPackedDimensions(group, ctx)[k], lines[k])
<1> DEFINE decls == {l \in group : infos[l].kind = "Declaration"}
           dimmed == {l \in decls : infos[l].dimPos # npos}
           columns == {infos[l].dimPos : l \in dimmed}
           names == {infos[l].identPos : l \in decls \ dimmed}
           maxDimCol == MaxOf(columns \cup names)
           Slot(j) == {lines[l].dims[j] : l \in {m \in dimmed : j \in DOMAIN lines[m].dims}}
           moved == MoveTo(lines[k], "dim", maxDimCol)
           rewritten == WithDims(moved, [j \in DOMAIN moved.dims |->
                                           EmitDimContent(moved.dims[j], Slot(j))])
<1>1. lines[k] \in LooseLine
  BY ReadyFacts
<1>2. Len(lines) \in Nat /\ decls \subseteq 1..Len(lines)
  BY GroupNumbers
<1>3. maxDimCol \in Int
  <2> DEFINE f == [l \in decls |-> IF infos[l].dimPos # npos THEN infos[l].dimPos
                                   ELSE infos[l].identPos]
             image == columns \cup names
  <2>1. \A l \in decls : f[l] \in Int
    <3> TAKE l \in decls
    <3>1. infos[l] \in LooseInfo
      BY ReadyFacts
    <3> QED
      BY <3>1 DEF LooseInfo
  <2>2. \A x \in image : \E l \in decls : x = f[l]
    OBVIOUS
  <2>3. \A l \in decls : f[l] \in image
    OBVIOUS
  <2> HIDE DEF f, image, decls
  <2> QED
    BY <1>2, <2>1, <2>2, <2>3, ImageBounds, Zenon DEF image
<1> HIDE DEF maxDimCol
<1>4. Kept(moved, lines[k]) /\ moved \in LooseLine
  <2>1. Kept(moved, lines[k])
    BY <1>1, <1>3, MoveToKept
  <2> QED
    BY <2>1 DEF Kept
<1> HIDE DEF moved
<1>5. ASSUME k \in dimmed
      PROVE  Kept(rewritten, lines[k])
  <2>1. Has(moved, "dim")
    <3>1. Has(lines[k], "dim")
      BY <1>5, ReadyFacts
    <3> QED
      BY <1>1, <1>4, <3>1, KeptHas
  <2> DEFINE f == [j \in DOMAIN moved.dims |-> EmitDimContent(moved.dims[j], Slot(j))]
  <2>2. ASSUME NEW j \in DOMAIN moved.dims
        PROVE  /\ f[j] \in Dim /\ f[j].colon = moved.dims[j].colon
               /\ f[j].left = moved.dims[j].left /\ f[j].right = moved.dims[j].right
    <3> DEFINE G == {m \in dimmed : j \in DOMAIN lines[m].dims}
               of == [l \in G |-> lines[l].dims[j]]
               slot == Slot(j)
    <3>1. G \subseteq 1..Len(lines)
      BY <1>2
    <3>2. \A l \in G : of[l] \in Dim
      <4> TAKE l \in G
      <4>1. lines[l].dims \in Seq(Dim)
        <5>1. lines[l] \in LooseLine
          BY ReadyFacts
        <5> QED
          BY <5>1 DEF LooseLine
      <4> QED
        BY <4>1
    <3>3. \A d \in slot : \E l \in G : d = of[l]
      OBVIOUS
    <3>6. \A l \in G : of[l] \in slot
      OBVIOUS
    <3>4. moved.dims[j] \in Dim
      <4>1. moved.dims \in Seq(Dim)
        BY <1>4 DEF LooseLine
      <4> QED
        BY <2>2, <4>1
    <3>5. f[j] = EmitDimContent(moved.dims[j], slot)
      BY <2>2
    <3> HIDE DEF f, G, of, slot
    <3>7. Collected(slot, of, G, Len(lines))
      BY <1>2, <3>1, <3>2, <3>3, <3>6 DEF Collected
    <3> QED
      BY <3>4, <3>5, <3>7, EmitDimContentSame
  <2>3. rewritten = WithDims(moved, [j \in DOMAIN moved.dims |-> f[j]])
    OBVIOUS
  <2> HIDE DEF f, rewritten
  <2>4. Kept(rewritten, moved)
    BY <1>4, <2>1, <2>2, <2>3, RewrittenKept
  <2> QED
    BY <1>1, <1>4, <2>4, KeptOn DEF Kept
<1>6. \/ GroupPackedDimensions(group, ctx)[k] = lines[k]
      \/ k \in dimmed /\ GroupPackedDimensions(group, ctx)[k] \in {moved, rewritten}
  BY DEF GroupPackedDimensions, moved, maxDimCol
<1> HIDE DEF rewritten
<1> QED
  BY <1>1, <1>4, <1>5, <1>6, KeptItself

\* alignGroupDeclarations moves words; some line of the group is a declaration.
LEMMA DeclarationsKept ==
  ASSUME Ready, NEW group \in SUBSET (DOMAIN lines), NEW ctx, NEW k \in group,
         \E l \in group : infos[l].kind = "Declaration"
  PROVE  Kept(GroupDeclarations(group, ctx)[k], lines[k])
<1> DEFINE decls == {l \in group : infos[l].kind = "Declaration"}
           valued == {l \in decls : infos[l].equalsPos # npos}
           types == {infos[l].typeWidth : l \in decls}
           maxTypeWidth == MaxOf(types)
           widths == {infos[l].keywordWidth : l \in decls}
           keywords == MaxOf(widths)
           lengths == {infos[l].equalsPos - infos[l].identPos : l \in valued}
           maxIdentToEquals == MaxOf(lengths)
           groupColumn == infos[Min(decls)].indent + maxTypeWidth
           target == infos[k].indent + maxTypeWidth
           dim == lines[k].words[IndexOf(lines[k], "dim")]
<1>1. lines[k] \in LooseLine /\ infos[k].indent \in Int
  <2>1. lines[k] \in LooseLine /\ infos[k] \in LooseInfo
    BY ReadyFacts
  <2> QED
    BY <2>1 DEF LooseInfo
<1>2. Len(lines) \in Nat /\ decls \subseteq 1..Len(lines) /\ decls # {}
  BY GroupNumbers
<1>3. \A l \in decls :
        /\ infos[l].typeWidth \in Int /\ infos[l].keywordWidth \in Int
        /\ infos[l].identPos \in Int /\ infos[l].equalsPos \in Int /\ infos[l].indent \in Int
  <2> TAKE l \in decls
  <2>1. infos[l] \in LooseInfo
    BY ReadyFacts
  <2> QED
    BY <2>1 DEF LooseInfo
<1>4. maxTypeWidth \in Int
  <2> DEFINE f == [l \in decls |-> infos[l].typeWidth]
  <2>1. /\ \A x \in types : \E l \in decls : x = f[l]
        /\ \A l \in decls : f[l] \in types
        /\ \A l \in decls : f[l] \in Int
    BY <1>3
  <2> HIDE DEF f, decls, types
  <2> QED
    BY <1>2, <2>1, ImageBounds, Zenon
<1>5. keywords \in Int
  <2> DEFINE f == [l \in decls |-> infos[l].keywordWidth]
  <2>1. /\ \A x \in widths : \E l \in decls : x = f[l]
        /\ \A l \in decls : f[l] \in widths
        /\ \A l \in decls : f[l] \in Int
    BY <1>3
  <2> HIDE DEF f, decls, widths
  <2> QED
    BY <1>2, <2>1, ImageBounds, Zenon
<1>6. maxIdentToEquals \in Int
  <2> DEFINE f == [l \in valued |-> infos[l].equalsPos - infos[l].identPos]
  <2>1. \A l \in valued : f[l] \in Int
    BY <1>3
  <2>2. /\ \A x \in lengths : \E l \in valued : x = f[l]
        /\ \A l \in valued : f[l] \in lengths
        /\ valued \subseteq 1..Len(lines)
    BY <1>2
  <2> HIDE DEF f, valued, lengths
  <2> QED
    BY <1>2, <2>1, <2>2, ImageBounds, Zenon
<1>7. groupColumn \in Int
  <2> DEFINE f == [l \in 1..Len(lines) |-> l]
  <2>1. /\ f \in [1..Len(lines) -> Int] /\ decls \in SUBSET Int
        /\ \A x \in decls : \E l \in 1..Len(lines) : x = f[l]
    BY <1>2
  <2>2. Min(decls) \in decls
    <3> HIDE DEF f, decls
    <3> QED
      BY <1>2, <2>1, RangeMin
  <2> HIDE DEF maxTypeWidth
  <2> QED
    BY <1>3, <1>4, <2>2
<1> HIDE DEF maxTypeWidth, keywords, maxIdentToEquals
<1>8. target \in Int
  BY <1>1, <1>4
<1>9. Has(lines[k], "dim") => dim.width \in Int
  <2> SUFFICES ASSUME Has(lines[k], "dim") PROVE dim.width \in Int
    OBVIOUS
  <2>1. IndexOf(lines[k], "dim") \in DOMAIN lines[k].words
    BY IndexOfProperties
  <2>2. dim \in LooseWord
    BY <1>1, <2>1 DEF LooseLine
  <2> HIDE DEF dim
  <2> QED
    BY <2>2 DEF LooseWord
<1> DEFINE Shaped(max) ==
             LET body == MoveWord(lines[k], 2, infos[k].indent + max + 1)
             IN  IF max = 0 \/ infos[k].keywordWidth = 0 THEN lines[k]
                 ELSE IF infos[k].dimPos > lines[k].words[2].at
                      THEN MoveTo(body, "dim", target - dim.width - 1)
                      ELSE body
           Named(max) == MoveTo(Shaped(max), "ident", target)
           Padded(max) == IF k \in valued THEN MoveTo(Named(max), "op", target + maxIdentToEquals)
                          ELSE Named(max)
           carried == MoveTo(lines[k], "ident", groupColumn)
<1>10. ASSUME NEW max \in Int
       PROVE  Kept(Padded(max), lines[k])
  <2> DEFINE body == MoveWord(lines[k], 2, infos[k].indent + max + 1)
             laid == MoveTo(body, "dim", target - dim.width - 1)
  <2>1. Kept(body, lines[k]) /\ body \in LooseLine
    <3>1. infos[k].indent + max + 1 \in Int
      BY <1>1
    <3>2. Kept(body, lines[k])
      BY <1>1, <3>1, MoveWordKept
    <3> QED
      BY <3>2 DEF Kept
  <2> HIDE DEF body, target, dim
  <2>2. Kept(laid, lines[k]) /\ laid \in LooseLine
    <3>1. Has(body, "dim") => target - dim.width - 1 \in Int
      <4>1. Has(body, "dim") => Has(lines[k], "dim")
        BY <1>1, <2>1, KeptHas
      <4> QED
        BY <1>8, <1>9, <4>1
    <3>2. Kept(laid, body)
      BY <2>1, <3>1, MoveToKept
    <3> HIDE DEF laid
    <3>3. laid \in LooseLine
      BY <3>2 DEF Kept
    <3> QED
      BY <1>1, <2>1, <3>2, <3>3, KeptOn
  <2> HIDE DEF laid
  <2>3. Kept(Shaped(max), lines[k]) /\ Shaped(max) \in LooseLine
    <3>1. Shaped(max) \in {lines[k], body, laid}
      BY DEF body, laid
    <3> HIDE DEF Shaped
    <3> QED
      BY <1>1, <2>1, <2>2, <3>1, KeptItself
  <2> HIDE DEF Shaped
  <2>4. Kept(Named(max), lines[k]) /\ Named(max) \in LooseLine
    <3>1. Kept(Named(max), Shaped(max))
      BY <1>8, <2>3, MoveToKept
    <3> HIDE DEF Named
    <3>2. Named(max) \in LooseLine
      BY <3>1 DEF Kept
    <3> QED
      BY <1>1, <2>3, <3>1, <3>2, KeptOn
  <2> HIDE DEF Named
  <2>5. Kept(MoveTo(Named(max), "op", target + maxIdentToEquals), lines[k])
    <3> DEFINE valuedLine == MoveTo(Named(max), "op", target + maxIdentToEquals)
    <3>1. target + maxIdentToEquals \in Int
      BY <1>6, <1>8
    <3>2. Kept(valuedLine, Named(max))
      BY <2>4, <3>1, MoveToKept
    <3> HIDE DEF valuedLine
    <3>3. valuedLine \in LooseLine
      BY <3>2 DEF Kept
    <3>4. Kept(valuedLine, lines[k])
      BY <1>1, <2>4, <3>2, <3>3, KeptOn
    <3> QED
      BY <3>4 DEF valuedLine
  <2> QED
    BY <2>4, <2>5
<1>11. Kept(carried, lines[k])
  BY <1>1, <1>7, MoveToKept
<1> HIDE DEF Padded, carried
<1>12. \E max \in {0, keywords} :
         GroupDeclarations(group, ctx)[k] \in {Padded(max), carried, lines[k]}
  BY DEF GroupDeclarations, Padded, carried, maxTypeWidth, keywords, maxIdentToEquals
<1>13. Kept(lines[k], lines[k])
  BY <1>1, KeptItself
<1> QED
  BY <1>5, <1>10, <1>11, <1>12, <1>13

-----------------------------------------------------------------------------
(* The invariant. *)

\* NoAlignmentAcross and PaddingLimited for one line, written in the place of line k.
AlignedWithin(k, written) ==
  \/ written = lines[k]
  \/ \E j \in DOMAIN lines :
       /\ infos[j].depth = infos[k].depth
       /\ infos[j].equalsPos = Column(written, "op")
       /\ \A m \in (Min({j, k}) + 1)..(Max({j, k}) - 1) :
            /\ infos[m].depth >= infos[k].depth \/ infos[m].kind = "PortListBoundary"
            /\ infos[m].kind = "Empty" => alignStyle.AcrossEmptyLines
            /\ infos[m].kind = "Comment" => alignStyle.AcrossComments
            /\ infos[m].kind = "PortListBoundary" => alignStyle.AcrossParameterPortList

\* The limits that hold for what the passes move by their columns.
WithinLimits(moved) ==
  Limited =>
    /\ ~alignStyle.InferFromSource /\ alignStyle.MaxPadding > 0 => moved <= alignStyle.MaxPadding
    /\ alignStyle.InferFromSource /\ NothingSpaced => moved <= alignStyle.MinPadding

PaddedWell(k, written) ==
  /\ Kept(written, lines[k])
  /\ pass \in DOMAIN Passes /\ Passes[pass] = "Assignments" => AlignedWithin(k, written)
  /\ Has(lines[k], "op") => WithinLimits(Column(written, "op") - Column(lines[k], "op"))

\* The group that is open starts with a line of the kinds the pass is about, and
\* no line since then would have ended it.
GroupOpen ==
  /\ pass \in DOMAIN Passes /\ state.groupStart \in 1..(i - 1)
  /\ infos[state.groupStart].kind \in config.memberKinds
  /\ \A m \in (state.groupStart + 1)..(i - 1) : ~ShouldBreakGroup(infos[m])

\* The first line that is not written yet.
Unwritten == IF state.inGroup THEN state.groupStart ELSE i

LinesTyped ==
  /\ text \in Seq(LooseLine) /\ Len(lines) = Len(text)
  /\ \A k \in DOMAIN lines : Kept(lines[k], text[k])

AInv ==
  /\ style \in Styles /\ Ready /\ LinesTyped
  /\ pass \in 0..(Len(Passes) + 1) /\ i \in 1..(Len(lines) + 1)
  /\ state.inGroup \in BOOLEAN /\ (state.inGroup => GroupOpen)
  /\ result \in Seq(LooseLine) /\ Len(result) = Unwritten - 1
  /\ \A k \in DOMAIN result : PaddedWell(k, result[k])
  /\ pass \notin DOMAIN Passes \/ ~alignStyle.Enabled =>
       i = 1 /\ state = NoGroup /\ result = <<>>

LEMMA PairBounds ==
  ASSUME NEW a \in Int, NEW b \in Int
  PROVE  /\ Min({a, b}) \in {a, b} /\ Min({a, b}) <= a /\ Min({a, b}) <= b
         /\ Max({a, b}) \in {a, b} /\ a <= Max({a, b}) /\ b <= Max({a, b})
<1> DEFINE f == [k \in 1..2 |-> IF k = 1 THEN a ELSE b]
           S == {a, b}
<1>1. f \in [1..2 -> Int] /\ 2 \in Nat /\ S \in SUBSET Int /\ S # {}
  OBVIOUS
<1>2. \A x \in S : \E k \in 1..2 : x = f[k]
  <2>1. f[1] = a /\ f[2] = b /\ 1 \in 1..2 /\ 2 \in 1..2
    OBVIOUS
  <2> QED
    BY <2>1
<1>3. a \in S /\ b \in S
  OBVIOUS
<1> HIDE DEF f, S
<1>4. /\ Min(S) \in S /\ \A x \in S : Min(S) <= x
      /\ Max(S) \in S /\ \A x \in S : x <= Max(S)
  BY <1>1, <1>2, RangeMin, RangeMax
<1> QED
  BY <1>3, <1>4 DEF S

LEMMA StyleTypes ==
  ASSUME style \in Style, pass \in DOMAIN Passes
  PROVE  alignStyle \in AlignConsecutiveStyle /\ style.ContinuationIndentWidth \in Nat
<1>1. Passes[pass] \in PassNames
  BY DEF PassNames
<1> QED
  BY <1>1 DEF alignStyle, Style

\* What a pass tells inferAlignPolicy of the style and of the source.
Tells(ctx) ==
  /\ ctx.enabled = alignStyle.InferFromSource /\ ctx.minGuarantee = FALSE
  /\ ctx.maxPadding = alignStyle.MaxPadding /\ ctx.minPadding = alignStyle.MinPadding
  /\ NothingSpaced => ctx.groupMaxExcess = 0

\* In a text that shows no alignment there is none to infer for any lines.
LEMMA NothingToInfer ==
  ASSUME Ready, LinesTyped, NothingSpaced, NEW members \in SUBSET (DOMAIN lines)
  PROVE  ExcessOf(members) = 0
<1>1. \A m \in members : infos[m].maxExcess = 0
  <2> TAKE m \in members
  <2>1. m \in DOMAIN lines /\ DOMAIN lines = DOMAIN text
    BY DEF Ready, LinesTyped
  <2>2. lines[m].excess = text[m].excess /\ text[m].excess = 0
    BY <2>1 DEF LinesTyped, Kept, NothingSpaced
  <2> QED
    BY <2>1, <2>2, ReadyFacts
<1> DEFINE S == {infos[m].maxExcess : m \in members}
<1>2. S \cup {0} = {0, 0}
  BY <1>1
<1>3. Max({0, 0}) = 0
  BY PairBounds
<1> HIDE DEF S
<1>4. MaxOf(S) = 0
  BY <1>2, <1>3 DEF MaxOf
<1> QED
  BY <1>4 DEF ExcessOf, S

\* A group tells of the style in force and of its own lines.
LEMMA ContextTells ==
  ASSUME Ready, LinesTyped, NEW group \in SUBSET (DOMAIN lines)
  PROVE  Tells(InferContext(group))
<1>1. ASSUME NothingSpaced
      PROVE  InferContext(group).groupMaxExcess = 0
  <2> DEFINE spaced == {j \in group \cap RangeExcessLines(lines) : HasMultiSpaceRange(lines[j])}
             excesses == {infos[k].maxExcess : k \in group}
  <2>1. spaced = {}
    <3> SUFFICES ASSUME NEW j \in group, HasMultiSpaceRange(lines[j])
                 PROVE  FALSE
      OBVIOUS
    <3>1. j \in DOMAIN text /\ j \in DOMAIN lines
      BY DEF Ready, LinesTyped
    <3>2. lines[j].ranges = 0
      BY <1>1, <3>1 DEF LinesTyped, Kept, NothingSpaced
    <3> QED
      BY <3>2 DEF HasMultiSpaceRange
  <2>2. InferContext(group).groupMaxExcess = MaxOf(excesses \cup {lines[k].ranges : k \in spaced})
    BY DEF InferContext
  <2> HIDE DEF spaced, excesses
  <2>3. excesses \cup {lines[k].ranges : k \in spaced} = excesses
    BY <2>1
  <2>4. MaxOf(excesses) = 0
    BY <1>1, NothingToInfer DEF ExcessOf, excesses
  <2> QED
    BY <2>2, <2>3, <2>4
<1>2. /\ InferContext(group).enabled = alignStyle.InferFromSource
      /\ InferContext(group).minGuarantee = FALSE
      /\ InferContext(group).maxPadding = alignStyle.MaxPadding
      /\ InferContext(group).minPadding = alignStyle.MinPadding
  BY DEF InferContext
<1> QED
  BY <1>1, <1>2 DEF Tells

\* So does a group for some of its lines.
LEMMA MembersTell ==
  ASSUME Ready, LinesTyped, NEW group \in SUBSET (DOMAIN lines), NEW members \in SUBSET group
  PROVE  Tells([InferContext(group) EXCEPT !.groupMaxExcess = ExcessOf(members)])
<1> DEFINE ctx == InferContext(group)
           bounded == [ctx EXCEPT !.groupMaxExcess = ExcessOf(members)]
<1>1. Tells(ctx)
  BY ContextTells
<1>2. /\ bounded.enabled = ctx.enabled /\ bounded.minGuarantee = ctx.minGuarantee
      /\ bounded.maxPadding = ctx.maxPadding /\ bounded.minPadding = ctx.minPadding
      /\ bounded.groupMaxExcess = ExcessOf(members)
  BY DEF InferContext
<1>3. NothingSpaced => ExcessOf(members) = 0
  BY NothingToInfer
<1> HIDE DEF ctx, bounded
<1>4. Tells(bounded)
  BY <1>1, <1>2, <1>3 DEF Tells
<1> QED
  BY <1>4 DEF bounded, ctx

\* What the policy lets pass is within the limits.
LEMMA PolicyLimits ==
  ASSUME style \in Style, NEW displacement \in Int, NEW ctx, Tells(ctx),
         InferAlignPolicy(displacement, ctx), NEW moved \in Int, moved <= displacement
  PROVE  WithinLimits(moved)
<1> SUFFICES ASSUME Limited
             PROVE  /\ ~alignStyle.InferFromSource /\ alignStyle.MaxPadding > 0 =>
                         moved <= alignStyle.MaxPadding
                    /\ alignStyle.InferFromSource /\ NothingSpaced =>
                         moved <= alignStyle.MinPadding
  BY DEF WithinLimits
<1>1. /\ alignStyle.MinPadding \in Nat /\ alignStyle.MaxPadding \in Nat
  BY StyleTypes DEF AlignConsecutiveStyle, Limited
<1>2. ASSUME ~alignStyle.InferFromSource, alignStyle.MaxPadding > 0
      PROVE  moved <= alignStyle.MaxPadding
  <2>1. ctx.maxPadding = 0 \/ displacement <= ctx.maxPadding
    BY <1>2 DEF InferAlignPolicy, Tells
  <2> QED
    BY <1>1, <1>2, <2>1 DEF Tells
<1>3. ASSUME alignStyle.InferFromSource, NothingSpaced
      PROVE  moved <= alignStyle.MinPadding
  <2>1. displacement \in 1..alignStyle.MinPadding
    BY <1>3 DEF InferAlignPolicy, Tells
  <2> QED
    BY <1>1, <2>1
<1> QED
  BY <1>2, <1>3

\* A line that stays is padded well.
LEMMA UntouchedWell ==
  ASSUME Ready, NEW k \in DOMAIN lines
  PROVE  PaddedWell(k, lines[k])
<1>1. lines[k] \in LooseLine
  BY ReadyFacts
<1>2. Kept(lines[k], lines[k])
  BY <1>1, KeptItself
<1>3. WithinLimits(Column(lines[k], "op") - Column(lines[k], "op"))
  <2> DEFINE moved == Column(lines[k], "op") - Column(lines[k], "op")
  <2>1. moved = 0
    <3>1. Column(lines[k], "op") \in Int
      BY <1>1, ColumnTypes
    <3> QED
      BY <3>1
  <2>2. Limited => alignStyle.MinPadding \in Nat /\ alignStyle.MaxPadding \in Nat
    BY StyleTypes DEF AlignConsecutiveStyle, Limited, Ready
  <2> HIDE DEF moved
  <2>3. WithinLimits(moved)
    BY <2>1, <2>2 DEF WithinLimits
  <2> QED
    BY <2>3 DEF moved
<1> QED
  BY <1>2, <1>3 DEF PaddedWell, AlignedWithin

\* What a group of assignments reaches across is what the style allows.
LEMMA NotBroken ==
  ASSUME style \in Style, pass \in DOMAIN Passes, Passes[pass] = "Assignments",
         NEW info, ~ShouldBreakGroup(info)
  PROVE  /\ info.kind = "Empty" => alignStyle.AcrossEmptyLines
         /\ info.kind = "Comment" => alignStyle.AcrossComments
         /\ info.kind = "PortListBoundary" => alignStyle.AcrossParameterPortList
<1>1. /\ config.memberKinds = {"Assignment", "Declaration", "DistItem"}
      /\ config.continuationPassThrough = TRUE /\ config.portListAware = TRUE
  BY DEF config, GroupBreakConfig, Config
<1>2. /\ alignStyle.AcrossEmptyLines \in BOOLEAN /\ alignStyle.AcrossComments \in BOOLEAN
      /\ alignStyle.AcrossParameterPortList \in BOOLEAN
  BY StyleTypes DEF AlignConsecutiveStyle
<1>3. CASE info.kind = "Empty"
  BY <1>1, <1>2, <1>3 DEF ShouldBreakGroup
<1>4. CASE info.kind = "Comment"
  BY <1>1, <1>2, <1>4 DEF ShouldBreakGroup
<1>5. CASE info.kind = "PortListBoundary"
  BY <1>1, <1>2, <1>5 DEF ShouldBreakGroup
<1> QED
  BY <1>3, <1>4, <1>5

\* A line whose operator has moved to the column of another line of the group.
LEMMA MovedWell ==
  ASSUME AInv, state.inGroup, NEW k \in state.groupStart..(i - 1),
         NEW j \in state.groupStart..(i - 1), NEW displacement \in Int, NEW ctx, Tells(ctx),
         infos[k].equalsPos # npos, infos[j].equalsPos # npos,
         displacement >= infos[j].equalsPos - infos[k].equalsPos,
         InferAlignPolicy(displacement, ctx),
         Passes[pass] = "Assignments" =>
           /\ infos[j].depth = infos[k].depth
           /\ j < k => ~HasDepthDropBelow(j, k, infos[k].depth)
           /\ k < j => ~HasDepthDropBelow(k, j, infos[k].depth)
  PROVE  PaddedWell(k, MoveTo(lines[k], "op", infos[j].equalsPos))
<1> DEFINE written == MoveTo(lines[k], "op", infos[j].equalsPos)
<1>1. /\ lines \in Seq(LooseLine) /\ Ready /\ GroupOpen /\ style \in Style
      /\ i \in 1..(Len(lines) + 1)
  BY StylesAssumption DEF AInv, Ready
<1>2. /\ state.groupStart \in 1..(i - 1) /\ pass \in DOMAIN Passes
      /\ \A m \in (state.groupStart + 1)..(i - 1) : ~ShouldBreakGroup(infos[m])
  BY <1>1 DEF GroupOpen
<1>3. \A m \in state.groupStart..(i - 1) : m \in DOMAIN lines
  BY <1>1, <1>2
<1>4. /\ lines[k] \in LooseLine /\ infos[j] \in LooseInfo /\ infos[k] \in LooseInfo
      /\ Has(lines[k], "op") /\ infos[k].equalsPos = Column(lines[k], "op")
  BY <1>1, <1>3, ReadyFacts
<1>5. infos[j].equalsPos \in Int /\ infos[k].equalsPos \in Int /\ infos[k].depth \in Nat
  BY <1>4 DEF LooseInfo
<1>6. Kept(written, lines[k]) /\ Column(written, "op") = infos[j].equalsPos
  BY <1>4, <1>5, MoveToKept
<1> HIDE DEF written
<1>7. WithinLimits(Column(written, "op") - Column(lines[k], "op"))
  <2> DEFINE moved == infos[j].equalsPos - infos[k].equalsPos
  <2>1. moved \in Int /\ moved <= displacement
    BY <1>5
  <2>2. Column(written, "op") - Column(lines[k], "op") = moved
    BY <1>4, <1>6
  <2> HIDE DEF moved
  <2>3. WithinLimits(moved)
    BY <1>1, <2>1, PolicyLimits
  <2> QED
    BY <2>2, <2>3
<1>8. ASSUME Passes[pass] = "Assignments"
      PROVE  AlignedWithin(k, written)
  <2>1. j \in DOMAIN lines /\ infos[j].depth = infos[k].depth /\ j \in Int /\ k \in Int
    BY <1>1, <1>2, <1>3, <1>8
  <2>2. ASSUME NEW m \in (Min({j, k}) + 1)..(Max({j, k}) - 1)
        PROVE  /\ infos[m].depth >= infos[k].depth \/ infos[m].kind = "PortListBoundary"
               /\ infos[m].kind = "Empty" => alignStyle.AcrossEmptyLines
               /\ infos[m].kind = "Comment" => alignStyle.AcrossComments
               /\ infos[m].kind = "PortListBoundary" => alignStyle.AcrossParameterPortList
    <3>1. /\ Min({j, k}) \in {j, k} /\ Min({j, k}) <= j /\ Min({j, k}) <= k
          /\ Max({j, k}) \in {j, k} /\ j <= Max({j, k}) /\ k <= Max({j, k})
      BY <2>1, PairBounds
    <3>2. m \in Int /\ ((j < m /\ m < k) \/ (k < m /\ m < j))
      BY <2>1, <3>1
    <3>3. m \in (state.groupStart + 1)..(i - 1) /\ m \in DOMAIN lines
      BY <1>1, <1>2, <1>3, <2>1, <3>2
    <3>4. /\ infos[m].kind = "Empty" => alignStyle.AcrossEmptyLines
          /\ infos[m].kind = "Comment" => alignStyle.AcrossComments
          /\ infos[m].kind = "PortListBoundary" => alignStyle.AcrossParameterPortList
      BY <1>1, <1>2, <1>8, <3>3, NotBroken
    <3>5. infos[m].depth \in Nat
      <4>1. infos[m] \in LooseInfo
        BY <1>1, <3>3, ReadyFacts
      <4> QED
        BY <4>1 DEF LooseInfo
    <3>6. infos[m].depth >= infos[k].depth \/ infos[m].kind = "PortListBoundary"
      <4>1. CASE j < m /\ m < k
        <5>1. m \in (j + 1)..(k - 1) /\ j < k
          BY <2>1, <3>2, <4>1
        <5>2. ~HasDepthDropBelow(j, k, infos[k].depth)
          BY <1>8, <5>1
        <5> QED
          BY <1>5, <3>5, <5>1, <5>2 DEF HasDepthDropBelow
      <4>2. CASE k < m /\ m < j
        <5>1. m \in (k + 1)..(j - 1) /\ k < j
          BY <2>1, <3>2, <4>2
        <5>2. ~HasDepthDropBelow(k, j, infos[k].depth)
          BY <1>8, <5>1
        <5> QED
          BY <1>5, <3>5, <5>1, <5>2 DEF HasDepthDropBelow
      <4> QED
        BY <3>2, <4>1, <4>2
    <3> QED
      BY <3>4, <3>6
  <2> QED
    BY <1>6, <2>1, <2>2 DEF AlignedWithin
<1>9. PaddedWell(k, written)
  BY <1>6, <1>7, <1>8 DEF PaddedWell
<1> QED
  BY <1>9 DEF written

LEMMA GroupWell ==
  ASSUME AInv, state.inGroup
  PROVE  /\ GroupLines(i) \in Seq(LooseLine) /\ Len(GroupLines(i)) = i - state.groupStart
         /\ \A k \in 1..(i - state.groupStart) :
              PaddedWell(state.groupStart + k - 1, GroupLines(i)[k])
<1> DEFINE start == state.groupStart
           group == start..(i - 1)
           ctx == InferContext(group)
           padded == CASE Passes[pass] = "PackedDimensions" -> GroupPackedDimensions(group, ctx)
                       [] Passes[pass] = "Declarations" -> GroupDeclarations(group, ctx)
                       [] Passes[pass] = "TimingControls" -> GroupTimingControls(group)
                       [] Passes[pass] = "Assignments" -> GroupAssignments(group, ctx)
                       [] Passes[pass] = "PortConnections" -> GroupPortConnections(group, ctx)
                       [] Passes[pass] = "TrailingComments" -> GroupTrailingComments(group)
<1>1. /\ lines \in Seq(LooseLine) /\ Ready /\ LinesTyped /\ GroupOpen /\ style \in Style
      /\ i \in 1..(Len(lines) + 1)
  BY StylesAssumption DEF AInv, Ready
<1>2. start \in 1..(i - 1) /\ pass \in DOMAIN Passes
  BY <1>1 DEF GroupOpen
<1>3. group \in SUBSET (DOMAIN lines)
  BY <1>1, <1>2
<1>4. Passes[pass] \in {"PackedDimensions", "Declarations", "TimingControls", "Assignments",
                        "PortConnections", "TrailingComments"}
  BY <1>2 DEF Passes
<1>5. ASSUME NEW k \in group, Kept(padded[k], lines[k]),
             Passes[pass] \notin {"Assignments", "PortConnections"}
      PROVE  PaddedWell(k, padded[k])
  <2> HIDE DEF padded
  <2> QED
    BY <1>5 DEF PaddedWell, WithinLimits, Limited
<1>6. ASSUME NEW k \in group
      PROVE  PaddedWell(k, padded[k])
  <2> HIDE DEF ctx
  <2>1. CASE Passes[pass] = "PackedDimensions"
    <3>1. padded = GroupPackedDimensions(group, ctx)
      BY <2>1
    <3> HIDE DEF padded, group
    <3>2. Kept(padded[k], lines[k])
      BY <1>1, <1>3, <3>1, PackedDimensionsKept
    <3> QED
      BY <1>5, <2>1, <3>2 DEF padded
  <2>2. CASE Passes[pass] = "Declarations"
    <3>1. padded = GroupDeclarations(group, ctx)
      BY <2>2
    <3>2. start \in group /\ infos[start].kind = "Declaration"
      <4>1. config.memberKinds = {"Declaration"}
        BY <2>2 DEF config, GroupBreakConfig, Config
      <4> QED
        BY <1>1, <1>2, <4>1 DEF GroupOpen
    <3> HIDE DEF padded, group
    <3>3. Kept(padded[k], lines[k])
      BY <1>1, <1>3, <3>1, <3>2, DeclarationsKept
    <3> QED
      BY <1>5, <2>2, <3>3 DEF padded
  <2>3. CASE Passes[pass] = "TimingControls"
    <3>1. padded = GroupTimingControls(group)
      BY <2>3
    <3> HIDE DEF padded, group
    <3>2. Kept(padded[k], lines[k])
      BY <1>1, <1>3, <3>1, TimingControlsKept
    <3> QED
      BY <1>5, <2>3, <3>2 DEF padded
  <2>4. CASE Passes[pass] = "TrailingComments"
    <3>1. padded = GroupTrailingComments(group)
      BY <2>4
    <3> HIDE DEF padded, group
    <3>2. Kept(padded[k], lines[k])
      BY <1>1, <1>3, <3>1, TrailingCommentsKept
    <3> QED
      BY <1>5, <2>4, <3>2 DEF padded
  <2>5. CASE Passes[pass] = "Assignments"
    <3>1. padded = GroupAssignments(group, ctx)
      BY <2>5
    <3>2. k \in DOMAIN lines
      BY <1>3
    <3>3. \/ padded[k] = lines[k]
          \/ /\ infos[k].equalsPos # npos
             /\ \E j \in group, displacement \in Int :
                  /\ infos[j].equalsPos # npos
                  /\ padded[k] = MoveTo(lines[k], "op", infos[j].equalsPos)
                  /\ displacement >= infos[j].equalsPos - infos[k].equalsPos
                  /\ SomeInfer(group, ctx, displacement)
                  /\ infos[j].depth = infos[k].depth
                  /\ j < k => ~HasDepthDropBelow(j, k, infos[k].depth)
                  /\ k < j => ~HasDepthDropBelow(k, j, infos[k].depth)
      <4> HIDE DEF padded, group
      <4> QED
        BY <1>1, <1>3, <3>1, AssignmentsPadded
    <3>4. CASE padded[k] = lines[k]
      BY <1>1, <3>2, <3>4, UntouchedWell
    <3>5. CASE padded[k] # lines[k]
      <4> HIDE DEF padded
      <4>1. PICK j \in group, displacement \in Int :
              /\ infos[j].equalsPos # npos
              /\ padded[k] = MoveTo(lines[k], "op", infos[j].equalsPos)
              /\ displacement >= infos[j].equalsPos - infos[k].equalsPos
              /\ SomeInfer(group, ctx, displacement)
              /\ infos[j].depth = infos[k].depth
              /\ j < k => ~HasDepthDropBelow(j, k, infos[k].depth)
              /\ k < j => ~HasDepthDropBelow(k, j, infos[k].depth)
        BY <3>3, <3>5
      <4>0. PICK others \in SUBSET group :
              InferAlignPolicy(displacement, [ctx EXCEPT !.groupMaxExcess = ExcessOf(others)])
        BY <4>1 DEF SomeInfer
      <4> DEFINE bounded == [ctx EXCEPT !.groupMaxExcess = ExcessOf(others)]
      <4>2. Tells(bounded)
        <5> HIDE DEF group
        <5> QED
          BY <1>1, <1>3, MembersTell DEF ctx
      <4>3. InferAlignPolicy(displacement, bounded) /\ infos[k].equalsPos # npos
        BY <3>3, <3>5, <4>1, <4>0
      <4> HIDE DEF bounded
      <4>4. PaddedWell(k, MoveTo(lines[k], "op", infos[j].equalsPos))
        BY <4>1, <4>2, <4>3, MovedWell
      <4> QED
        BY <4>1, <4>4
    <3> QED
      BY <3>4, <3>5
  <2>6. CASE Passes[pass] = "PortConnections"
    <3>1. padded = GroupPortConnections(group, ctx)
      BY <2>6
    <3>2. k \in DOMAIN lines
      BY <1>3
    <3>3. \/ padded[k] = lines[k]
          \/ /\ infos[k].equalsPos # npos
             /\ \E j \in group, displacement \in Int :
                  /\ infos[j].equalsPos # npos
                  /\ padded[k] = MoveTo(lines[k], "op", infos[j].equalsPos)
                  /\ displacement >= infos[j].equalsPos - infos[k].equalsPos
                  /\ InferAlignPolicy(displacement, ctx)
      <4> HIDE DEF padded, group
      <4> QED
        BY <1>1, <1>3, <3>1, PortConnectionsPadded
    <3>4. CASE padded[k] = lines[k]
      BY <1>1, <3>2, <3>4, UntouchedWell
    <3>5. CASE padded[k] # lines[k]
      <4> HIDE DEF padded
      <4>1. PICK j \in group, displacement \in Int :
              /\ infos[j].equalsPos # npos
              /\ padded[k] = MoveTo(lines[k], "op", infos[j].equalsPos)
              /\ displacement >= infos[j].equalsPos - infos[k].equalsPos
              /\ InferAlignPolicy(displacement, ctx)
        BY <3>3, <3>5
      <4>2. infos[k].equalsPos # npos /\ Tells(ctx)
        <5>1. Tells(ctx)
          BY <1>1, <1>3, ContextTells DEF ctx
        <5> QED
          BY <3>3, <3>5, <5>1
      <4>3. PaddedWell(k, MoveTo(lines[k], "op", infos[j].equalsPos))
        BY <2>6, <4>1, <4>2, MovedWell
      <4> QED
        BY <4>1, <4>3
    <3> QED
      BY <3>4, <3>5
  <2> HIDE DEF padded
  <2> QED
    BY <1>4, <2>1, <2>2, <2>3, <2>4, <2>5, <2>6
<1> HIDE DEF padded
<1>7. GroupLines(i) = [k \in 1..(i - start) |-> padded[start + k - 1]]
  BY DEF GroupLines, padded
<1>8. ASSUME NEW k \in 1..(i - start)
      PROVE  /\ PaddedWell(start + k - 1, padded[start + k - 1])
             /\ padded[start + k - 1] \in LooseLine
  <2>1. start + k - 1 \in group
    BY <1>1, <1>2
  <2>2. PaddedWell(start + k - 1, padded[start + k - 1])
    BY <1>6, <2>1
  <2> QED
    BY <2>2 DEF PaddedWell, Kept
<1>9. i - start \in Nat
  BY <1>1, <1>2
<1> HIDE DEF start
<1>10. /\ GroupLines(i) \in Seq(LooseLine) /\ Len(GroupLines(i)) = i - start
       /\ \A k \in 1..(i - start) : PaddedWell(start + k - 1, GroupLines(i)[k])
  BY <1>7, <1>8, <1>9
<1> QED
  BY <1>10 DEF start

\* What is written once the open group is padded.
LEMMA FlushWell ==
  ASSUME AInv, state.inGroup
  PROVE  LET written == result \o GroupLines(i)
         IN  /\ written \in Seq(LooseLine) /\ Len(written) = i - 1
             /\ \A k \in DOMAIN written : PaddedWell(k, written[k])
<1> DEFINE start == state.groupStart
           padded == GroupLines(i)
           written == result \o padded
<1>1. /\ result \in Seq(LooseLine) /\ Len(result) = start - 1
      /\ \A k \in DOMAIN result : PaddedWell(k, result[k])
      /\ start \in 1..(i - 1) /\ i \in 1..(Len(lines) + 1) /\ lines \in Seq(LooseLine)
  BY DEF AInv, Unwritten, GroupOpen, Ready
<1>2. /\ padded \in Seq(LooseLine) /\ Len(padded) = i - start
      /\ \A k \in 1..(i - start) : PaddedWell(start + k - 1, padded[k])
  BY GroupWell
<1> HIDE DEF padded, start
<1>3. written \in Seq(LooseLine) /\ Len(written) = i - 1
  <2>1. written \in Seq(LooseLine) /\ Len(written) = Len(result) + Len(padded)
    <3>1. result \in Seq(LooseLine) /\ padded \in Seq(LooseLine)
      BY <1>1, <1>2
    <3> QED
      BY <3>1
  <2>2. start \in Int /\ i \in Int
    BY <1>1
  <2> HIDE DEF written
  <2> QED
    BY <1>1, <1>2, <2>1, <2>2
<1>4. ASSUME NEW k \in DOMAIN written
      PROVE  PaddedWell(k, written[k])
  <2>1. k \in 1..(i - 1)
    BY <1>3
  <2>2. CASE k < start
    <3>1. k \in DOMAIN result /\ written[k] = result[k]
      BY <1>1, <1>2, <2>1, <2>2
    <3> HIDE DEF written
    <3> QED
      BY <1>1, <3>1
  <2>3. CASE k >= start
    <3> DEFINE place == k - start + 1
    <3>1. place \in 1..(i - start) /\ start + place - 1 = k
      BY <1>1, <2>1, <2>3
    <3>2. written[k] = padded[place]
      BY <1>1, <1>2, <2>1, <2>3
    <3> HIDE DEF written, place
    <3>3. PaddedWell(start + place - 1, padded[place])
      BY <1>2, <3>1
    <3> QED
      BY <3>1, <3>2, <3>3
  <2> QED
    BY <1>1, <2>1, <2>2, <2>3
<1> HIDE DEF written
<1> QED
  BY <1>3, <1>4 DEF written, padded

\* Types of the source are types that the passes keep.
LEMMA LineLoose ==
  ASSUME NEW line \in Line
  PROVE  line \in LooseLine
<1>1. line.words \in Seq(LooseWord)
  <2>1. line.words \in Seq(Word)
    BY DEF Line
  <2>2. ASSUME NEW w \in Word
        PROVE  w \in LooseWord
    BY DEF Word, LooseWord
  <2>3. \A k \in 1..Len(line.words) : line.words[k] \in LooseWord
    BY <2>1, <2>2
  <2> DEFINE words == line.words
  <2> HIDE DEF words
  <2>4. words = [k \in 1..Len(words) |-> words[k]] /\ Len(words) \in Nat
    BY <2>1 DEF words
  <2> QED
    BY <2>3, <2>4 DEF words
<1> QED
  BY <1>1 DEF Line, LooseLine

\* A set of lines that are all the lines of another sequence, kept.
LEMMA AllKept ==
  ASSUME NEW ls \in Seq(LooseLine), NEW f,
         \A k \in DOMAIN ls : Kept(f[k], ls[k])
  PROVE  LET new == [k \in DOMAIN ls |-> f[k]]
         IN  /\ new \in Seq(LooseLine) /\ Len(new) = Len(ls)
             /\ \A k \in DOMAIN new : Kept(new[k], ls[k])
<1>1. DOMAIN ls = 1..Len(ls) /\ Len(ls) \in Nat
  OBVIOUS
<1>2. \A k \in 1..Len(ls) : f[k] \in LooseLine
  BY <1>1 DEF Kept
<1> QED
  BY <1>1, <1>2

LEMMA PrintedTypes ==
  ASSUME style \in Style, NEW source \in Texts
  PROVE  /\ source \in Seq(LooseLine)
         /\ Printed(source) \in Seq(LooseLine) /\ Len(Printed(source)) = Len(source)
         /\ \A k \in DOMAIN source : Kept(Printed(source)[k], source[k])
<1>1. source \in Seq(Line)
  BY TextsAssumption
<1>2. ASSUME NEW k \in DOMAIN source
      PROVE  source[k] \in LooseLine
  BY <1>1, LineLoose
<1>3. ASSUME NEW dim \in Dim
      PROVE  /\ EmitRangeOperator(dim) \in Dim /\ EmitRangeOperator(dim).colon = dim.colon
             /\ EmitRangeOperator(dim).left = dim.left
             /\ EmitRangeOperator(dim).right = dim.right
  <2>1. style.RangeSpacing \in RangeSpacingStyle
    BY DEF Style
  <2>2. dim.before \in Int /\ dim.behind \in Int
    BY DEF Dim
  <2>3. Min({dim.before, 1}) \in Int /\ Min({dim.behind, 1}) \in Int
    BY <2>2, PairMin
  <2>4. CASE style.RangeSpacing = "MatchSource"
    BY <2>4 DEF EmitRangeOperator
  <2>5. CASE style.RangeSpacing = "Always"
    <3>1. EmitRangeOperator(dim) = SpacedBy(dim, 1, 1)
      BY <2>5 DEF EmitRangeOperator
    <3> QED
      BY <3>1, SpacedBySame
  <2>6. CASE style.RangeSpacing = "Never"
    <3>1. EmitRangeOperator(dim) = SpacedBy(dim, 0, 0)
      BY <2>6 DEF EmitRangeOperator
    <3> QED
      BY <3>1, SpacedBySame
  <2>7. CASE style.RangeSpacing = "Preserve"
    BY <2>3, <2>7, SpacedBySame DEF EmitRangeOperator
  <2> QED
    BY <2>1, <2>4, <2>5, <2>6, <2>7 DEF RangeSpacingStyle
<1> DEFINE Respaced(k) == WithDims(source[k], [j \in DOMAIN source[k].dims |->
                                               EmitRangeOperator(source[k].dims[j])])
           f == [k \in DOMAIN source |-> IF Has(source[k], "dim") THEN Respaced(k) ELSE source[k]]
<1>4. ASSUME NEW k \in DOMAIN source, Has(source[k], "dim")
      PROVE  Kept(Respaced(k), source[k])
  <2> DEFINE line == source[k]
             g == [j \in DOMAIN line.dims |-> EmitRangeOperator(line.dims[j])]
  <2>1. line \in LooseLine
    BY <1>2
  <2>2. ASSUME NEW j \in DOMAIN line.dims
        PROVE  /\ g[j] \in Dim /\ g[j].colon = line.dims[j].colon
               /\ g[j].left = line.dims[j].left /\ g[j].right = line.dims[j].right
    <3>1. line.dims[j] \in Dim
      BY <2>1, <2>2 DEF LooseLine
    <3>2. g[j] = EmitRangeOperator(line.dims[j])
      BY <2>2
    <3> HIDE DEF line, g
    <3> QED
      BY <1>3, <3>1, <3>2
  <2>3. Respaced(k) = WithDims(line, [j \in DOMAIN line.dims |-> g[j]])
    OBVIOUS
  <2>4. Has(line, "dim")
    BY <1>4
  <2> HIDE DEF line, g, Respaced
  <2>5. Kept(Respaced(k), line)
    BY <2>1, <2>2, <2>3, <2>4, RewrittenKept
  <2> QED
    BY <2>5 DEF line
<1>5. Printed(source) = f
  BY DEF Printed
<1>6. \A k \in DOMAIN source : Kept(f[k], source[k])
  <2> TAKE k \in DOMAIN source
  <2>1. CASE Has(source[k], "dim")
    <3>1. f[k] = Respaced(k)
      BY <2>1
    <3> HIDE DEF f, Respaced
    <3> QED
      BY <1>4, <2>1, <3>1
  <2>2. CASE ~Has(source[k], "dim")
    <3>1. f[k] = source[k] /\ source[k] \in LooseLine
      BY <1>2, <2>2
    <3> HIDE DEF f
    <3> QED
      BY <3>1, KeptItself
  <2> QED
    BY <2>1, <2>2
<1>7. DOMAIN f = DOMAIN source /\ DOMAIN source = 1..Len(source) /\ Len(source) \in Nat
  BY <1>1
<1> HIDE DEF f
<1>8. source \in Seq(LooseLine)
  BY <1>1, <1>2, <1>7
<1>9. f = [k \in DOMAIN source |-> f[k]]
  BY <1>7 DEF f
<1>10. /\ f \in Seq(LooseLine) /\ Len(f) = Len(source)
       /\ \A k \in DOMAIN f : Kept(f[k], source[k])
  BY <1>6, <1>8, <1>9, AllKept
<1> QED
  BY <1>5, <1>7, <1>8, <1>10

\* normalizeRangeSpacing writes other spaces into brackets.
LEMMA NormalizedKept ==
  ASSUME NEW line \in LooseLine, Has(line, "dim")
  PROVE  Kept(WithDims(line, [j \in DOMAIN line.dims |-> NormalizeBracketRange(line.dims[j])]),
              line)
<1> DEFINE f == [j \in DOMAIN line.dims |-> NormalizeBracketRange(line.dims[j])]
<1>1. ASSUME NEW j \in DOMAIN line.dims
      PROVE  /\ f[j] \in Dim /\ f[j].colon = line.dims[j].colon
             /\ f[j].left = line.dims[j].left /\ f[j].right = line.dims[j].right
  <2>1. line.dims[j] \in Dim
    BY DEF LooseLine
  <2>2. f[j] \in {SpacedBy(line.dims[j], 1, 1), SpacedBy(line.dims[j], 0, 0)}
    BY DEF NormalizeBracketRange
  <2> HIDE DEF f
  <2> QED
    BY <2>1, <2>2, SpacedBySame
<1>2. WithDims(line, [j \in DOMAIN line.dims |-> NormalizeBracketRange(line.dims[j])])
        = WithDims(line, [j \in DOMAIN line.dims |-> f[j]])
  OBVIOUS
<1> HIDE DEF f
<1> QED
  BY <1>1, <1>2, RewrittenKept

-----------------------------------------------------------------------------
(* The steps. *)

LEMMA FlushedWell ==
  ASSUME AInv, ~StillInGroup
  PROVE  /\ Flushed \in Seq(LooseLine) /\ Len(Flushed) = i - 1
         /\ \A k \in DOMAIN Flushed : PaddedWell(k, Flushed[k])
<1>1. CASE state.inGroup
  <2>1. Flushed = result \o GroupLines(i)
    BY <1>1 DEF Flushed, StillInGroup, Breaks
  <2> QED
    BY <1>1, <2>1, FlushWell
<1>2. CASE ~state.inGroup
  <2>1. Flushed = result
    BY <1>2 DEF Flushed, Breaks
  <2>2. /\ result \in Seq(LooseLine) /\ Len(result) = i - 1
        /\ \A k \in DOMAIN result : PaddedWell(k, result[k])
    BY <1>2 DEF AInv, Unwritten
  <2> QED
    BY <2>1, <2>2
<1> QED
  BY <1>1, <1>2

LEMMA WellStays ==
  ASSUME UNCHANGED <<style, text, pass, lines, infos>>,
         NEW written, result' = written,
         \A k \in DOMAIN written : PaddedWell(k, written[k])
  PROVE  (\A k \in DOMAIN result : PaddedWell(k, result[k]))'
<1>1. ASSUME NEW k \in DOMAIN written
      PROVE  PaddedWell(k, result[k])'
  <2>1. PaddedWell(k, written[k])
    OBVIOUS
  <2>2. result'[k] = written[k]
    OBVIOUS
  <2> DEFINE w == written[k]
  <2> HIDE DEF w
  <2> QED
    BY <2>1, <2>2 DEF PaddedWell, AlignedWithin, WithinLimits, Limited, NothingSpaced,
                      alignStyle, w
<1> QED
  BY <1>1

LEMMA LinesStay ==
  ASSUME Ready, LinesTyped, UNCHANGED <<style, text, lines, infos>>
  PROVE  Ready' /\ LinesTyped'
BY DEF Ready, LinesTyped

LEMMA StartGroupKeeps ==
  ASSUME AInv, StartGroup
  PROVE  AInv'
<1>1. /\ pass \in DOMAIN Passes /\ alignStyle.Enabled /\ i \in DOMAIN lines
      /\ infos[i].kind \in config.memberKinds /\ ~StillInGroup
      /\ result' = Flushed
      /\ state' = [groupStart |-> i, inGroup |-> TRUE, groupIndent |-> infos[i].indent,
                   groupDepth |-> infos[i].depth]
      /\ i' = i + 1 /\ UNCHANGED <<style, text, pass, lines, infos>>
  BY DEF StartGroup, Scanning, Starts
<1>2. /\ style \in Styles /\ Ready /\ LinesTyped /\ pass \in 0..(Len(Passes) + 1)
      /\ lines \in Seq(LooseLine)
  BY DEF AInv, Ready
<1>3. Ready' /\ LinesTyped'
  BY <1>1, <1>2, LinesStay
<1>4. /\ Flushed \in Seq(LooseLine) /\ Len(Flushed) = i - 1
      /\ \A k \in DOMAIN Flushed : PaddedWell(k, Flushed[k])
  BY <1>1, FlushedWell
<1>5. (\A k \in DOMAIN result : PaddedWell(k, result[k]))'
  BY <1>1, <1>4, WellStays
<1>6. i \in Nat /\ i >= 1 /\ i + 1 \in 1..(Len(lines) + 1) /\ (i + 1) - 1 = i
  BY <1>1, <1>2
<1>7. /\ state'.inGroup = TRUE /\ state'.groupStart = i
  BY <1>1
<1>8. GroupOpen'
  BY <1>1, <1>6, <1>7 DEF GroupOpen, config
<1>9. result' \in Seq(LooseLine) /\ Len(result') = Unwritten' - 1
  BY <1>1, <1>4, <1>7 DEF Unwritten
<1>10. (pass \in DOMAIN Passes /\ alignStyle.Enabled)'
  BY <1>1 DEF alignStyle
<1> QED
  BY <1>1, <1>2, <1>3, <1>5, <1>6, <1>7, <1>8, <1>9, <1>10 DEF AInv

LEMMA JoinGroupKeeps ==
  ASSUME AInv, JoinGroup
  PROVE  AInv'
<1>1. /\ pass \in DOMAIN Passes /\ alignStyle.Enabled /\ i \in DOMAIN lines
      /\ state.inGroup /\ ~ShouldBreakGroup(infos[i])
      /\ i' = i + 1 /\ UNCHANGED <<style, text, pass, lines, infos, state, result>>
  BY DEF JoinGroup, Scanning, StillInGroup, Breaks
<1>2. /\ style \in Styles /\ Ready /\ LinesTyped /\ pass \in 0..(Len(Passes) + 1)
      /\ lines \in Seq(LooseLine) /\ GroupOpen /\ state.inGroup \in BOOLEAN
      /\ result \in Seq(LooseLine) /\ Len(result) = Unwritten - 1
      /\ \A k \in DOMAIN result : PaddedWell(k, result[k])
  BY <1>1 DEF AInv, Ready
<1>3. Ready' /\ LinesTyped'
  BY <1>1, <1>2, LinesStay
<1>4. (\A k \in DOMAIN result : PaddedWell(k, result[k]))'
  BY <1>1, <1>2, WellStays
<1>5. i \in Nat /\ i >= 1 /\ i + 1 \in 1..(Len(lines) + 1) /\ (i + 1) - 1 = i
  BY <1>1, <1>2
<1>6. GroupOpen'
  <2>1. /\ state.groupStart \in 1..(i - 1)
        /\ infos[state.groupStart].kind \in config.memberKinds
        /\ \A m \in (state.groupStart + 1)..(i - 1) : ~ShouldBreakGroup(infos[m])
    BY <1>2 DEF GroupOpen
  <2>2. \A m \in (state.groupStart + 1)..i : ~ShouldBreakGroup(infos[m])
    <3> TAKE m \in (state.groupStart + 1)..i
    <3>1. CASE m = i
      BY <1>1, <3>1
    <3>2. CASE m # i
      <4>1. m \in (state.groupStart + 1)..(i - 1)
        BY <1>5, <2>1, <3>2
      <4> QED
        BY <2>1, <4>1
    <3> QED
      BY <3>1, <3>2
  <2>3. \A m : ShouldBreakGroup(infos[m])' = ShouldBreakGroup(infos[m])
    BY <1>1 DEF ShouldBreakGroup, config, alignStyle
  <2>4. state'.groupStart \in 1..(i' - 1)
    BY <1>1, <1>5, <2>1
  <2>5. (infos[state.groupStart].kind \in config.memberKinds)'
    BY <1>1, <2>1 DEF config
  <2>6. (\A m \in (state.groupStart + 1)..(i - 1) : ~ShouldBreakGroup(infos[m]))'
    BY <1>1, <1>5, <2>2, <2>3
  <2> QED
    BY <1>1, <2>4, <2>5, <2>6 DEF GroupOpen
<1>7. (pass \in DOMAIN Passes /\ alignStyle.Enabled)'
  BY <1>1 DEF alignStyle
<1>8. result' \in Seq(LooseLine) /\ Len(result') = Unwritten' - 1
  BY <1>1, <1>2 DEF Unwritten
<1> QED
  BY <1>1, <1>2, <1>3, <1>4, <1>5, <1>6, <1>7, <1>8 DEF AInv

LEMMA PassThroughKeeps ==
  ASSUME AInv, PassThrough
  PROVE  AInv'
<1>1. /\ pass \in DOMAIN Passes /\ alignStyle.Enabled /\ i \in DOMAIN lines
      /\ ~StillInGroup /\ result' = Append(Flushed, lines[i]) /\ state' = NoGroup
      /\ i' = i + 1 /\ UNCHANGED <<style, text, pass, lines, infos>>
  BY DEF PassThrough, Scanning
<1>2. /\ style \in Styles /\ Ready /\ LinesTyped /\ pass \in 0..(Len(Passes) + 1)
      /\ lines \in Seq(LooseLine)
  BY DEF AInv, Ready
<1>3. Ready' /\ LinesTyped'
  BY <1>1, <1>2, LinesStay
<1>4. /\ Flushed \in Seq(LooseLine) /\ Len(Flushed) = i - 1
      /\ \A k \in DOMAIN Flushed : PaddedWell(k, Flushed[k])
  BY <1>1, FlushedWell
<1>5. i \in Nat /\ i >= 1 /\ i + 1 \in 1..(Len(lines) + 1) /\ lines[i] \in LooseLine
  BY <1>1, <1>2
<1> DEFINE written == Append(Flushed, lines[i])
<1>6. written \in Seq(LooseLine) /\ Len(written) = i
  BY <1>4, <1>5
<1>7. \A k \in DOMAIN written : PaddedWell(k, written[k])
  <2> TAKE k \in DOMAIN written
  <2>1. CASE k = i
    <3>1. written[k] = lines[i]
      BY <1>4, <1>5, <2>1
    <3> HIDE DEF written
    <3> QED
      BY <1>1, <1>2, <2>1, <3>1, UntouchedWell
  <2>2. CASE k # i
    <3>1. k \in DOMAIN Flushed /\ written[k] = Flushed[k]
      BY <1>4, <1>5, <2>2
    <3> HIDE DEF written
    <3> QED
      BY <1>4, <3>1
  <2> QED
    BY <2>1, <2>2
<1> HIDE DEF written
<1>8. (\A k \in DOMAIN result : PaddedWell(k, result[k]))'
  <2>1. result' = written
    BY <1>1 DEF written
  <2> QED
    BY <1>1, <1>7, <2>1, WellStays
<1>9. state'.inGroup = FALSE
  BY <1>1 DEF NoGroup
<1>10. result' \in Seq(LooseLine) /\ Len(result') = Unwritten' - 1
  BY <1>1, <1>5, <1>6, <1>9 DEF Unwritten, written
<1>11. (pass \in DOMAIN Passes /\ alignStyle.Enabled)'
  BY <1>1 DEF alignStyle
<1> QED
  BY <1>1, <1>2, <1>3, <1>5, <1>8, <1>9, <1>10, <1>11 DEF AInv

\* A pass begins, or all are done.
LEMMA FreshKeeps ==
  ASSUME style' \in Styles, Ready', LinesTyped', pass' \in 0..(Len(Passes) + 1),
         i' = 1, state' = NoGroup, result' = <<>>
  PROVE  AInv'
<1>1. state'.inGroup = FALSE
  BY DEF NoGroup
<1>2. i' \in 1..(Len(lines') + 1)
  <2>1. Len(lines') \in Nat
    BY DEF Ready
  <2> QED
    BY <2>1
<1>3. result' \in Seq(LooseLine) /\ Len(result') = Unwritten' - 1 /\ DOMAIN result' = {}
  BY <1>1 DEF Unwritten
<1> QED
  BY <1>1, <1>2, <1>3 DEF AInv

\* Lines that have all been kept are classified anew.
LEMMA NewLines ==
  ASSUME Ready, LinesTyped, UNCHANGED <<style, text>>, lines' \in Seq(LooseLine),
         Len(lines') = Len(lines), \A k \in DOMAIN lines' : Kept(lines'[k], lines[k]),
         infos' = ClassifyLines(lines')
  PROVE  Ready' /\ LinesTyped'
<1>1. Ready'
  BY ClassifyTypes DEF Ready
<1>2. \A k \in DOMAIN lines' : Kept(lines'[k], text[k])
  <2> TAKE k \in DOMAIN lines'
  <2>1. k \in DOMAIN lines /\ k \in DOMAIN text
    BY DEF Ready, LinesTyped
  <2>2. lines'[k] \in LooseLine /\ lines[k] \in LooseLine /\ text[k] \in LooseLine
    BY <2>1 DEF Ready, LinesTyped
  <2>3. Kept(lines'[k], lines[k]) /\ Kept(lines[k], text[k])
    BY <2>1 DEF LinesTyped
  <2> QED
    BY <2>2, <2>3, KeptOn
<1> QED
  BY <1>1, <1>2 DEF LinesTyped

LEMMA EndPassKeeps ==
  ASSUME AInv, EndPass
  PROVE  AInv'
<1> DEFINE written == IF state.inGroup THEN result \o GroupLines(i) ELSE result
<1>1. /\ pass \in DOMAIN Passes /\ i > Len(lines)
      /\ lines' = written /\ infos' = ClassifyLines(written) /\ pass' = pass + 1
      /\ i' = 1 /\ state' = NoGroup /\ result' = <<>> /\ UNCHANGED <<style, text>>
  BY DEF EndPass
<1>2. /\ style \in Styles /\ Ready /\ LinesTyped /\ i \in 1..(Len(lines) + 1)
      /\ lines \in Seq(LooseLine)
  BY DEF AInv, Ready
<1>3. /\ written \in Seq(LooseLine) /\ Len(written) = i - 1
      /\ \A k \in DOMAIN written : PaddedWell(k, written[k])
  <2>1. CASE state.inGroup
    BY <2>1, FlushWell
  <2>2. CASE ~state.inGroup
    BY <2>2 DEF AInv, Unwritten
  <2> QED
    BY <2>1, <2>2
<1> HIDE DEF written
<1>4. Len(written) = Len(lines)
  BY <1>1, <1>2, <1>3
<1>5. \A k \in DOMAIN written : Kept(written[k], lines[k])
  BY <1>3 DEF PaddedWell
<1>6. Ready' /\ LinesTyped'
  BY <1>1, <1>2, <1>3, <1>4, <1>5, NewLines
<1>7. pass' \in 0..(Len(Passes) + 1)
  BY <1>1 DEF Passes
<1> QED
  BY <1>1, <1>2, <1>6, <1>7, FreshKeeps

LEMMA NormalizeRangeSpacingKeeps ==
  ASSUME AInv, NormalizeRangeSpacing
  PROVE  AInv'
<1> DEFINE Respaced(k) == WithDims(lines[k], [j \in DOMAIN lines[k].dims |->
                                              NormalizeBracketRange(lines[k].dims[j])])
           Chosen(k) == /\ style.align["PackedDimensions"].InferFromSource
                        /\ HasMultiSpaceRange(lines[k]) /\ Has(lines[k], "dim")
                        /\ k \notin PortListAdjacentLines(lines)
           f == [k \in DOMAIN lines |-> IF Chosen(k) THEN Respaced(k) ELSE lines[k]]
<1>1. /\ pass = 0 /\ lines' = f /\ infos' = ClassifyLines(lines') /\ pass' = 1
      /\ UNCHANGED <<style, text, i, state, result>>
  BY DEF NormalizeRangeSpacing
<1>2. /\ style \in Styles /\ Ready /\ LinesTyped /\ lines \in Seq(LooseLine)
      /\ i = 1 /\ state = NoGroup /\ result = <<>>
  <2>1. pass \notin DOMAIN Passes
    BY <1>1 DEF Passes
  <2> QED
    BY <2>1 DEF AInv, Ready
<1>3. ASSUME NEW k \in DOMAIN lines
      PROVE  Kept(f[k], lines[k])
  <2>1. lines[k] \in LooseLine
    BY <1>2
  <2>2. CASE Chosen(k)
    <3>1. f[k] = Respaced(k)
      BY <2>2
    <3>2. Has(lines[k], "dim")
      BY <2>2
    <3> HIDE DEF f
    <3> QED
      BY <2>1, <3>1, <3>2, NormalizedKept
  <2>3. CASE ~Chosen(k)
    <3>1. f[k] = lines[k]
      BY <2>3
    <3> HIDE DEF f
    <3> QED
      BY <2>1, <3>1, KeptItself
  <2> QED
    BY <2>2, <2>3
<1>4. f = [k \in DOMAIN lines |-> f[k]]
  <2>1. DOMAIN f = DOMAIN lines
    OBVIOUS
  <2> HIDE DEF Respaced, Chosen
  <2> QED
    BY <2>1
<1> HIDE DEF f
<1>5. f \in Seq(LooseLine) /\ Len(f) = Len(lines) /\ \A k \in DOMAIN f : Kept(f[k], lines[k])
  BY <1>2, <1>3, <1>4, AllKept
<1>6. Ready' /\ LinesTyped'
  BY <1>1, <1>2, <1>5, NewLines
<1> QED
  BY <1>1, <1>2, <1>6, FreshKeeps DEF Passes

LEMMA SkipPassKeeps ==
  ASSUME AInv, SkipPass
  PROVE  AInv'
<1>1. /\ pass \in DOMAIN Passes /\ ~alignStyle.Enabled /\ pass' = pass + 1
      /\ UNCHANGED <<style, text, lines, infos, i, state, result>>
  BY DEF SkipPass
<1>2. /\ style \in Styles /\ Ready /\ LinesTyped
      /\ i = 1 /\ state = NoGroup /\ result = <<>>
  BY <1>1 DEF AInv
<1>3. Ready' /\ LinesTyped'
  BY <1>1, <1>2, LinesStay
<1>4. pass' \in 0..(Len(Passes) + 1)
  BY <1>1 DEF Passes
<1> QED
  BY <1>1, <1>2, <1>3, <1>4, FreshKeeps

LEMMA AlignmentInit ==
  ASSUME Init
  PROVE  AInv
<1>1. /\ style \in Styles /\ style \in Style /\ pass = 0 /\ lines = text
      /\ infos = ClassifyLines(text) /\ i = 1 /\ state = NoGroup /\ result = <<>>
  BY StylesAssumption DEF Init
<1>2. PICK source \in Texts : text = Printed(source)
  BY DEF Init
<1>3. text \in Seq(LooseLine)
  BY <1>1, <1>2, PrintedTypes
<1>4. Ready
  BY <1>1, <1>3, ClassifyTypes DEF Ready
<1>5. LinesTyped
  <2>1. \A k \in DOMAIN text : text[k] \in LooseLine
    BY <1>3
  <2> QED
    BY <1>1, <1>3, <2>1, KeptItself DEF LinesTyped
<1>6. state.inGroup = FALSE /\ Unwritten = 1
  BY <1>1 DEF NoGroup, Unwritten
<1>7. pass \in 0..(Len(Passes) + 1) /\ i \in 1..(Len(lines) + 1)
  BY <1>1, <1>3 DEF Passes
<1>8. result \in Seq(LooseLine) /\ Len(result) = Unwritten - 1 /\ DOMAIN result = {}
  BY <1>1, <1>6
<1> QED
  BY <1>1, <1>4, <1>5, <1>6, <1>7, <1>8 DEF AInv

LEMMA AlignmentStep ==
  ASSUME AInv, [Next]_vars
  PROVE  AInv'
<1>1. CASE UNCHANGED vars
  <2>1. /\ UNCHANGED <<style, text, lines, infos>> /\ UNCHANGED <<pass, i, state, result>>
    BY <1>1 DEF vars
  <2>2. (\A k \in DOMAIN result : PaddedWell(k, result[k]))'
    BY <2>1, WellStays DEF AInv
  <2>3. Ready' /\ LinesTyped'
    BY <2>1, LinesStay DEF AInv
  <2>4. GroupOpen => GroupOpen'
    BY <2>1 DEF GroupOpen, ShouldBreakGroup, config, alignStyle
  <2> QED
    BY <2>1, <2>2, <2>3, <2>4 DEF AInv, Unwritten, alignStyle
<1> QED
  BY <1>1, NormalizeRangeSpacingKeeps, StartGroupKeeps, JoinGroupKeeps, PassThroughKeeps,
     EndPassKeeps, SkipPassKeeps DEF Next

-----------------------------------------------------------------------------
(* Regions where formatting is off. *)

\* The kinds of lines that no pass but the one over trailing comments moves.
QuietKinds == {"Other", "Empty", "Comment", "PortListBoundary"}

\* What classifyLine and applyLineMetadata take a line for, without its columns.
ReadKind(line, formatOff) ==
  IF ~formatOff /\ line.kind # "Other" THEN line.kind
  ELSE IF formatOff /\ line.text \notin QuietKinds THEN "Other"
  ELSE line.text

LEMMA ReadKinds ==
  ASSUME NEW line \in LooseLine, NEW formatOff \in BOOLEAN
  PROVE  LET info == ApplyLineMetadata(line, ClassifyLine(line, formatOff), formatOff)
         IN  /\ info.kind = ReadKind(line, formatOff)
             /\ info.metadataKind = (~formatOff /\ line.kind # "Other")
<1> DEFINE info == ClassifyLine(line, formatOff)
           deep == [info EXCEPT !.depth = line.depth, !.maxExcess = line.excess]
           declared == ReclassifyAsDeclaration(line, deep)
           chosen == IF line.kind = "Declaration" /\ info.kind = "Other" THEN declared ELSE deep
           told == [chosen EXCEPT !.kind = line.kind, !.metadataKind = TRUE]
           named == IF formatOff \/ line.kind = "Other" THEN deep ELSE told
           last == IF named.kind \in {"PortConnection", "DistItem"}
                   THEN [named EXCEPT !.equalsPos = Column(line, "op")] ELSE named
<1>1. /\ info \in LooseInfo /\ info.metadataKind = FALSE
      /\ info.kind = IF formatOff /\ line.text \notin QuietKinds THEN "Other" ELSE line.text
  <2>1. info \in LooseInfo
    BY ClassifyLineTypes DEF InfoOf
  <2>2. CASE line.text \in QuietKinds
    <3>1. info = PlainInfo(line.text, line)
      BY <2>2 DEF ClassifyLine, QuietKinds
    <3> QED
      BY <2>1, <2>2, <3>1 DEF PlainInfo
  <2>3. CASE line.text \notin QuietKinds /\ formatOff
    <3>1. info = PlainInfo("Other", line)
      BY <2>3 DEF ClassifyLine, QuietKinds
    <3>2. PlainInfo("Other", line).kind = "Other" /\ PlainInfo("Other", line).metadataKind = FALSE
      BY DEF PlainInfo
    <3> HIDE DEF info
    <3> QED
      BY <2>1, <2>3, <3>1, <3>2
  <2>4. CASE line.text \notin QuietKinds /\ ~formatOff
    BY <2>1, <2>4 DEF ClassifyLine, QuietKinds, PlainInfo
  <2> QED
    BY <2>2, <2>3, <2>4
<1> HIDE DEF info
<1>2. deep \in LooseInfo /\ deep.kind = info.kind /\ deep.metadataKind = info.metadataKind
  <2>1. line.depth \in Nat /\ line.excess \in Nat
    BY DEF LooseLine
  <2> QED
    BY <1>1, <2>1 DEF LooseInfo
<1> HIDE DEF deep
<1>3. /\ declared.kind = info.kind /\ declared.metadataKind = info.metadataKind
      /\ "kind" \in DOMAIN declared /\ "metadataKind" \in DOMAIN declared
  <2>1. declared \in {deep, [deep EXCEPT !.typeWidth = Column(line, "ident") - deep.indent,
                                         !.identPos = Column(line, "ident")]}
    BY DEF ReclassifyAsDeclaration
  <2> HIDE DEF declared
  <2> QED
    BY <1>2, <2>1 DEF LooseInfo
<1> HIDE DEF declared
<1>4. /\ chosen.kind = info.kind /\ chosen.metadataKind = info.metadataKind
      /\ "kind" \in DOMAIN chosen /\ "metadataKind" \in DOMAIN chosen
  BY <1>2, <1>3 DEF LooseInfo
<1> HIDE DEF chosen
<1>5. /\ told.kind = line.kind /\ told.metadataKind = TRUE
      /\ "kind" \in DOMAIN told /\ "metadataKind" \in DOMAIN told
  BY <1>4
<1> HIDE DEF told
<1>6. /\ named.kind = ReadKind(line, formatOff)
      /\ named.metadataKind = (~formatOff /\ line.kind # "Other")
      /\ "kind" \in DOMAIN named /\ "metadataKind" \in DOMAIN named
  <2>1. CASE formatOff \/ line.kind = "Other"
    BY <1>1, <1>2, <2>1 DEF ReadKind, LooseInfo
  <2>2. CASE ~(formatOff \/ line.kind = "Other")
    BY <1>5, <2>2 DEF ReadKind
  <2> QED
    BY <2>1, <2>2
<1> HIDE DEF named
<1>7. last.kind = named.kind /\ last.metadataKind = named.metadataKind
  BY <1>6
<1>8. ApplyLineMetadata(line, info, formatOff) = last
  BY DEF ApplyLineMetadata, last, named, told, chosen, declared, deep
<1> HIDE DEF last
<1> QED
  BY <1>6, <1>7, <1>8 DEF info

\* What a line adds to whether formatting is off.
OffAfter(line, before) ==
  CASE line.mark = "slang-format off" -> TRUE
    [] line.mark = "slang-format on" -> FALSE
    [] OTHER -> before

LEMMA FormatOffFollows ==
  ASSUME NEW ls \in Seq(LooseLine)
  PROVE  /\ FormatOff(ls)[0] = FALSE
         /\ \A k \in 1..Len(ls) : /\ FormatOff(ls)[k] = OffAfter(ls[k], FormatOff(ls)[k - 1])
                                  /\ FormatOff(ls)[k] \in BOOLEAN
<1> DEFINE n == Len(ls)
           Value(h, k) == k > 0 /\ CASE ls[k].mark = "slang-format off" -> TRUE
                                     [] ls[k].mark = "slang-format on" -> FALSE
                                     [] OTHER -> h[k - 1]
           Rule(h) == [k \in 0..n |-> Value(h, k)]
           off == CHOOSE h : h = Rule(h)
           step == [pair \in (1..n) \X BOOLEAN |-> OffAfter(ls[pair[1]], pair[2])]
<1>1. n \in Nat
  OBVIOUS
<1>2. PICK f \in [0..n -> BOOLEAN] : Iterates(f, FALSE, step, n)
  <2>1. ASSUME NEW k \in 1..n, NEW b \in BOOLEAN
        PROVE  OffAfter(ls[k], b) \in BOOLEAN
    BY DEF OffAfter
  <2>2. step \in [(1..n) \X BOOLEAN -> BOOLEAN]
    BY <2>1
  <2>3. FALSE \in BOOLEAN
    OBVIOUS
  <2> HIDE DEF step, n
  <2> QED
    BY <1>1, <2>2, <2>3, Recursion
<1>3. /\ f[0] = FALSE
      /\ \A k \in 1..n : f[k] = OffAfter(ls[k], f[k - 1]) /\ f[k - 1] \in BOOLEAN
  <2>1. f[0] = FALSE /\ \A k \in 1..n : f[k] = step[<<k, f[k - 1]>>]
    BY <1>2 DEF Iterates
  <2>2. \A k \in 1..n : f[k - 1] \in BOOLEAN
    BY <1>1, <1>2
  <2>3. ASSUME NEW k \in 1..n
        PROVE  f[k] = OffAfter(ls[k], f[k - 1])
    <3>1. f[k - 1] \in BOOLEAN /\ f[k] = step[<<k, f[k - 1]>>]
      BY <2>1, <2>2
    <3> DEFINE b == f[k - 1]
    <3> HIDE DEF b
    <3>2. b \in BOOLEAN => step[<<k, b>>] = OffAfter(ls[k], b)
      OBVIOUS
    <3> QED
      BY <3>1, <3>2 DEF b
  <2> QED
    BY <2>1, <2>2, <2>3
<1>4. f = Rule(f)
  <2>1. \A k \in 0..n : f[k] = Value(f, k)
    <3> TAKE k \in 0..n
    <3>1. CASE k = 0
      BY <1>3, <3>1
    <3>2. CASE k # 0
      <4>1. k \in 1..n /\ k > 0
        BY <1>1, <3>2
      <4>2. f[k] = OffAfter(ls[k], f[k - 1]) /\ f[k - 1] \in BOOLEAN
        BY <1>3, <4>1
      <4>3. OffAfter(ls[k], f[k - 1]) = (CASE ls[k].mark = "slang-format off" -> TRUE
                                           [] ls[k].mark = "slang-format on" -> FALSE
                                           [] OTHER -> f[k - 1])
        BY DEF OffAfter
      <4>4. f[k] \in BOOLEAN
        BY <1>2, <4>1
      <4> QED
        BY <4>1, <4>2, <4>3, <4>4
    <3> QED
      BY <3>1, <3>2
  <2>2. f = [k \in 0..n |-> f[k]]
    BY <1>2
  <2> HIDE DEF Value
  <2> QED
    BY <2>1, <2>2
<1>5. off = Rule(off)
  <2> HIDE DEF Rule
  <2> QED
    BY <1>4, Zenon
<1>6. FormatOff(ls) = off
  BY DEF FormatOff
<1>7. \A k \in 0..n : off[k] = Value(off, k)
  <2> HIDE DEF off, Value
  <2> QED
    BY <1>5
<1> HIDE DEF off
<1>8. off[0] = FALSE
  <2>1. 0 \in 0..n /\ ~(0 > 0)
    BY <1>1
  <2>2. off[0] = (0 > 0 /\ CASE ls[0].mark = "slang-format off" -> TRUE
                             [] ls[0].mark = "slang-format on" -> FALSE
                             [] OTHER -> off[0 - 1])
    BY <1>7, <2>1
  <2> QED
    BY <2>1, <2>2
<1> DEFINE Typed == {m \in Nat : m <= n => off[m] \in BOOLEAN}
<1>9. 0 \in Typed
  BY <1>8
<1>10. ASSUME NEW k \in 1..n, off[k - 1] \in BOOLEAN
       PROVE  off[k] \in BOOLEAN /\ off[k] = OffAfter(ls[k], off[k - 1])
  <2>1. k \in 0..n /\ k > 0
    BY <1>1
  <2>2. off[k] = (k > 0 /\ CASE ls[k].mark = "slang-format off" -> TRUE
                             [] ls[k].mark = "slang-format on" -> FALSE
                             [] OTHER -> off[k - 1])
    BY <1>7, <2>1
  <2> QED
    BY <1>10, <2>1, <2>2 DEF OffAfter
<1>11. ASSUME NEW m \in Nat, m \in Typed
       PROVE  m + 1 \in Typed
  <2> SUFFICES ASSUME m + 1 <= n
               PROVE  off[m + 1] \in BOOLEAN
    OBVIOUS
  <2>1. off[m] \in BOOLEAN
    BY <1>1, <1>11
  <2>2. m + 1 \in 1..n /\ (m + 1) - 1 = m
    BY <1>1
  <2> QED
    BY <1>10, <2>1, <2>2
<1>12. ASSUME NEW k \in 1..n
       PROVE  off[k - 1] \in BOOLEAN
  <2>1. \A m \in Nat : m \in Typed
    <3> HIDE DEF Typed
    <3> QED
      BY <1>9, <1>11, Induction
  <2>2. k - 1 \in Nat /\ k - 1 <= n
    BY <1>1
  <2> QED
    BY <2>1, <2>2
<1> QED
  BY <1>6, <1>8, <1>10, <1>12

SwitchesOff(line) == line.mark = "slang-format off"

SwitchesOn(line) == line.mark \in {"slang-format on", "verilog_format: on"}

\* Behind a pragma that switches formatting off, it is off up to the next that
\* switches it on.
LEMMA StaysOff ==
  ASSUME NEW ls \in Seq(LooseLine), NEW first \in Nat, NEW k \in Nat,
         1 <= first, first <= k, k <= Len(ls),
         SwitchesOff(ls[first]), \A m \in first..k : ~SwitchesOn(ls[m])
  PROVE  FormatOff(ls)[k] = TRUE
<1> DEFINE n == Len(ls)
           Off(m) == FormatOff(ls)[m] = TRUE
           T == {d \in Nat : first + d <= k => Off(first + d)}
<1>1. n \in Nat /\ k <= n /\ \A m \in 1..n : FormatOff(ls)[m] = OffAfter(ls[m], FormatOff(ls)[m - 1])
  <2>1. n \in Nat
    OBVIOUS
  <2>2. \A m \in 1..n : FormatOff(ls)[m] = OffAfter(ls[m], FormatOff(ls)[m - 1])
    BY FormatOffFollows, Zenon
  <2>3. k <= n
    OBVIOUS
  <2> QED
    BY <2>1, <2>2, <2>3
<1> HIDE DEF n
<1>2. 0 \in T
  <2>1. FormatOff(ls)[first] = OffAfter(ls[first], FormatOff(ls)[first - 1])
    BY <1>1
  <2>2. FormatOff(ls)[first] = TRUE
    BY <2>1 DEF OffAfter, SwitchesOff
  <2>3. first + 0 = first
    <3> HIDE DEF T
    <3> QED
      BY <1>1
  <2> QED
    BY <2>2, <2>3
<1>3. ASSUME NEW d \in Nat, d \in T
      PROVE  d + 1 \in T
  <2> SUFFICES ASSUME first + (d + 1) <= k
               PROVE  Off(first + (d + 1))
    <3> HIDE DEF Off
    <3> QED
      OBVIOUS
  <2>1. /\ first + (d + 1) \in 1..n /\ (first + (d + 1)) - 1 = first + d /\ first + d <= k
        /\ first + (d + 1) \in first..k
    BY <1>1
  <2>2. FormatOff(ls)[first + d] = TRUE
    BY <1>3, <2>1
  <2> DEFINE m == first + (d + 1)
  <2>3. FormatOff(ls)[m] = OffAfter(ls[m], FormatOff(ls)[m - 1])
    BY <1>1, <2>1
  <2>4. ~SwitchesOn(ls[m]) /\ FormatOff(ls)[m - 1] = TRUE
    BY <2>1, <2>2
  <2> HIDE DEF m
  <2>5. FormatOff(ls)[m] = TRUE
    BY <2>3, <2>4 DEF OffAfter, SwitchesOn
  <2> QED
    BY <2>5 DEF m
<1>4. k - first \in T
  <2>1. k - first \in Nat
    BY <1>1
  <2> HIDE DEF T
  <2> QED
    BY <1>2, <1>3, <2>1, Induction
<1>5. first + (k - first) = k /\ k <= k
  BY <1>1
<1> QED
  BY <1>4, <1>5

\* What the lines are read as, before those that carry on a list are found.
Read(ls) ==
  [k \in DOMAIN ls |->
     ApplyLineMetadata(ls[k], ClassifyLine(ls[k], FormatOff(ls)[k]), FormatOff(ls)[k])]

\* followsDeclaration, for lines that are read as read says.
FollowsBy(read, ls, h, k) ==
  LET shown == {j \in 1..(k - 1) : read[j].kind \notin {"Empty", "Comment"}}
      last == Max(shown)
  IN  /\ shown # {}
      /\ \/ read[last].kind \in {"Assignment", "Declaration", "Continuation"}
         \/ /\ read[last].kind = "Other" /\ ~read[last].metadataKind
            /\ IsContinuationLine(ls[last])
            /\ h[last]

Follows(read, ls) ==
  CHOOSE h : h = [k \in 1..Len(ls) |-> FollowsBy(read, ls, h, k)]

LEMMA ClassifiedKind ==
  ASSUME NEW ls \in Seq(LooseLine), NEW k \in DOMAIN ls
  PROVE  ClassifyLines(ls)[k].kind =
           IF /\ Read(ls)[k].kind \in {"Other", "Assignment"} /\ ~Read(ls)[k].metadataKind
              /\ IsContinuationLine(ls[k])
              /\ Follows(Read(ls), ls)[k]
           THEN "Continuation" ELSE Read(ls)[k].kind
<1> DEFINE carried == [Read(ls)[k] EXCEPT !.kind = "Continuation", !.typeWidth = 0,
                              !.keywordWidth = 0, !.dimPos = npos,
                              !.identPos = Indent(ls[k]), !.equalsPos = Column(ls[k], "op")]
<1>1. ClassifyLines(ls)[k] =
        IF /\ Read(ls)[k].kind \in {"Other", "Assignment"} /\ ~Read(ls)[k].metadataKind
           /\ IsContinuationLine(ls[k])
           /\ Follows(Read(ls), ls)[k]
        THEN carried ELSE Read(ls)[k]
  BY DEF ClassifyLines, Read, Follows, FollowsBy
<1>2. Read(ls)[k] \in LooseInfo
  <2>1. ls[k] \in LooseLine
    OBVIOUS
  <2> QED
    BY <2>1, ClassifyLineTypes, MetadataTypes DEF Read, InfoOf
<1>3. carried.kind = "Continuation"
  <2> DEFINE info == Read(ls)[k]
  <2> HIDE DEF info
  <2>1. info \in LooseInfo =>
          [info EXCEPT !.kind = "Continuation", !.typeWidth = 0,
                       !.keywordWidth = 0, !.dimPos = npos,
                       !.identPos = Indent(ls[k]), !.equalsPos = Column(ls[k], "op")].kind
            = "Continuation"
    BY DEF LooseInfo
  <2> QED
    BY <1>2, <2>1 DEF info
<1> HIDE DEF carried
<1> QED
  BY <1>1, <1>3

\* What a text is taken for does not depend on where its words stand.
LEMMA KindsKept ==
  ASSUME NEW ls \in Seq(LooseLine), NEW other \in Seq(LooseLine), Len(ls) = Len(other),
         \A k \in DOMAIN ls : Kept(ls[k], other[k])
  PROVE  \A k \in DOMAIN ls :
           ClassifyLines(ls)[k].kind = ClassifyLines(other)[k].kind
<1> DEFINE n == Len(ls)
           a == Read(ls)
           b == Read(other)
<1>1. n \in Nat /\ DOMAIN ls = 1..n /\ DOMAIN other = 1..n
  OBVIOUS
<1>2. ASSUME NEW k \in 1..n
      PROVE  /\ ls[k].mark = other[k].mark /\ ls[k].text = other[k].text
             /\ ls[k].kind = other[k].kind
             /\ IsContinuationLine(ls[k]) = IsContinuationLine(other[k])
             /\ ls[k] \in LooseLine /\ other[k] \in LooseLine
  <2>1. Kept(ls[k], other[k]) /\ ls[k] \in LooseLine /\ other[k] \in LooseLine
    BY <1>1
  <2>2. IsContinuationLine(ls[k]) = IsContinuationLine(other[k])
    <3>1. /\ Len(ls[k].words) = Len(other[k].words) /\ ls[k].plain = other[k].plain
          /\ \A w \in DOMAIN ls[k].words : ls[k].words[w].what = other[k].words[w].what
      BY <2>1 DEF Kept
    <3>2. Len(ls[k].words) = 2 => 1 \in DOMAIN ls[k].words
      <4>1. ls[k].words \in Seq(LooseWord)
        BY <2>1 DEF LooseLine
      <4> QED
        BY <4>1
    <3> QED
      BY <3>1, <3>2 DEF IsContinuationLine
  <2> QED
    BY <2>1, <2>2 DEF Kept
<1>3. FormatOff(ls) = FormatOff(other)
  <2> DEFINE Rule(ms, h) ==
               [k \in 0..n |-> k > 0 /\ CASE ms[k].mark = "slang-format off" -> TRUE
                                          [] ms[k].mark = "slang-format on" -> FALSE
                                          [] OTHER -> h[k - 1]]
  <2>1. /\ FormatOff(ls) = CHOOSE h : h = Rule(ls, h)
        /\ FormatOff(other) = CHOOSE h : h = Rule(other, h)
    BY DEF FormatOff
  <2>2. \A h : Rule(ls, h) = Rule(other, h)
    <3> TAKE h
    <3>1. \A k \in 0..n : k > 0 => ls[k].mark = other[k].mark
      BY <1>1, <1>2
    <3> QED
      BY <3>1
  <2> HIDE DEF Rule
  <2> QED
    BY <2>1, <2>2
<1>4. ASSUME NEW k \in 1..n
      PROVE  a[k].kind = b[k].kind /\ a[k].metadataKind = b[k].metadataKind
  <2> DEFINE off == FormatOff(ls)[k]
  <2>1. off \in BOOLEAN
    BY FormatOffFollows
  <2>2. /\ a[k] = ApplyLineMetadata(ls[k], ClassifyLine(ls[k], off), off)
        /\ b[k] = ApplyLineMetadata(other[k], ClassifyLine(other[k], off), off)
    BY <1>1, <1>3 DEF Read
  <2> HIDE DEF off, a, b
  <2>3. /\ a[k].kind = ReadKind(ls[k], off) /\ b[k].kind = ReadKind(other[k], off)
        /\ a[k].metadataKind = (~off /\ ls[k].kind # "Other")
        /\ b[k].metadataKind = (~off /\ other[k].kind # "Other")
    BY <1>2, <2>1, <2>2, ReadKinds
  <2> QED
    BY <1>2, <2>3 DEF ReadKind
<1> HIDE DEF a, b
<1>5. ASSUME NEW h, NEW k \in 1..n
      PROVE  FollowsBy(a, ls, h, k) = FollowsBy(b, other, h, k)
  <2> DEFINE one == {j \in 1..(k - 1) : a[j].kind \notin {"Empty", "Comment"}}
             two == {j \in 1..(k - 1) : b[j].kind \notin {"Empty", "Comment"}}
  <2>1. \A j \in 1..(k - 1) : j \in 1..n
    BY <1>1
  <2>2. one = two
    BY <1>4, <2>1
  <2>3. one # {} => Max(one) \in 1..n
    <3> DEFINE f == [j \in 1..n |-> j]
    <3>1. /\ f \in [1..n -> Int] /\ one \in SUBSET Int /\ one \subseteq 1..n
          /\ \A x \in one : \E j \in 1..n : x = f[j]
      BY <1>1, <2>1
    <3> HIDE DEF f, one
    <3>2. one # {} => Max(one) \in one
      BY <1>1, <3>1, RangeMax
    <3> QED
      BY <3>1, <3>2
  <2> DEFINE last == Max(one)
           Test(kind, told, carrying, before) ==
             \/ kind \in {"Assignment", "Declaration", "Continuation"}
             \/ kind = "Other" /\ ~told /\ carrying /\ before
  <2>4. /\ FollowsBy(a, ls, h, k) =
             (one # {} /\ Test(a[last].kind, a[last].metadataKind,
                               IsContinuationLine(ls[last]), h[last]))
        /\ FollowsBy(b, other, h, k) =
             (one # {} /\ Test(b[last].kind, b[last].metadataKind,
                               IsContinuationLine(other[last]), h[last]))
    BY <2>2 DEF FollowsBy
  <2>5. one # {} => /\ a[last].kind = b[last].kind /\ a[last].metadataKind = b[last].metadataKind
                    /\ IsContinuationLine(ls[last]) = IsContinuationLine(other[last])
    <3> HIDE DEF one
    <3> QED
      BY <1>2, <1>4, <2>3
  <2> HIDE DEF last, one, Test
  <2>6. one # {} => Test(a[last].kind, a[last].metadataKind, IsContinuationLine(ls[last]), h[last])
                      = Test(b[last].kind, b[last].metadataKind,
                             IsContinuationLine(other[last]), h[last])
    BY <2>5
  <2>7. CASE one = {}
    BY <2>4, <2>7, Zenon
  <2>8. CASE one # {}
    <3> DEFINE first == Test(a[last].kind, a[last].metadataKind, IsContinuationLine(ls[last]), h[last])
               second == Test(b[last].kind, b[last].metadataKind,
                              IsContinuationLine(other[last]), h[last])
    <3>1. first = second
      BY <2>6, <2>8
    <3>2. FollowsBy(a, ls, h, k) = (one # {} /\ first)
      BY <2>4, Zenon
    <3>3. FollowsBy(b, other, h, k) = (one # {} /\ second)
      BY <2>4, Zenon
    <3> HIDE DEF first, second
    <3>4. (one # {} /\ first) = (one # {} /\ second)
      BY <3>1
    <3> QED
      BY <3>2, <3>3, <3>4
  <2> QED
    BY <2>7, <2>8
<1>6. Follows(a, ls) = Follows(b, other)
  <2> DEFINE Rule(c, ms, h) == [k \in 1..n |-> FollowsBy(c, ms, h, k)]
  <2>1. /\ Follows(a, ls) = CHOOSE h : h = Rule(a, ls, h)
        /\ Follows(b, other) = CHOOSE h : h = Rule(b, other, h)
    BY DEF Follows
  <2>2. \A h : Rule(a, ls, h) = Rule(b, other, h)
    <3> TAKE h
    <3>1. \A k \in 1..n : FollowsBy(a, ls, h, k) = FollowsBy(b, other, h, k)
      BY <1>5
    <3> QED
      BY <3>1, Zenon
  <2> HIDE DEF Rule
  <2> QED
    BY <2>1, <2>2
<1> QED
  <2> TAKE k \in DOMAIN ls
  <2>1. k \in 1..n /\ k \in DOMAIN other
    BY <1>1
  <2>2. a[k].kind = b[k].kind /\ a[k].metadataKind = b[k].metadataKind
    BY <1>4, <2>1
  <2>3. IsContinuationLine(ls[k]) = IsContinuationLine(other[k])
    BY <1>2, <2>1
  <2>4. /\ ClassifyLines(ls)[k].kind =
             IF /\ a[k].kind \in {"Other", "Assignment"} /\ ~a[k].metadataKind
                /\ IsContinuationLine(ls[k]) /\ Follows(a, ls)[k]
             THEN "Continuation" ELSE a[k].kind
        /\ ClassifyLines(other)[k].kind =
             IF /\ b[k].kind \in {"Other", "Assignment"} /\ ~b[k].metadataKind
                /\ IsContinuationLine(other[k]) /\ Follows(b, other)[k]
             THEN "Continuation" ELSE b[k].kind
    BY <2>1, ClassifiedKind DEF a, b
  <2> QED
    BY <1>6, <2>2, <2>3, <2>4

\* A line in which formatting is off, by the spelling that the passes know, is of a
\* quiet kind, unless it is taken to carry on a list.
LEMMA OffKinds ==
  ASSUME NEW ls \in Seq(LooseLine), NEW k \in DOMAIN ls, FormatOff(ls)[k] = TRUE,
         ClassifyLines(ls)[k].kind # "Continuation"
  PROVE  /\ ClassifyLines(ls)[k].kind \in QuietKinds
         /\ ClassifyLines(ls)[k].kind = "PortListBoundary" => ls[k].text = "PortListBoundary"
<1>1. Read(ls)[k] = ApplyLineMetadata(ls[k], ClassifyLine(ls[k], TRUE), TRUE)
  BY DEF Read
<1>2. ls[k] \in LooseLine
  OBVIOUS
<1>3. Read(ls)[k].kind = ReadKind(ls[k], TRUE)
  BY <1>1, <1>2, ReadKinds
<1>4. ClassifyLines(ls)[k].kind = Read(ls)[k].kind
  BY ClassifiedKind
<1> QED
  BY <1>3, <1>4 DEF ReadKind, QuietKinds

\* Formatting is switched off in the spelling that the passes look for.
OneSpelling ==
  \A source \in Texts : \A k \in DOMAIN source : source[k].mark # "verilog_format: off"

\* No line in which it is off is taken to carry on the declarations in front of it.
NothingCarriedOn ==
  \A source \in Texts : \A k \in OffIn(source) : ClassifyLines(source)[k].kind # "Continuation"

\* No range in such a line is spaced by hand, if the style asks for these.
NoRangesSpaced ==
  \A s \in Styles : \A source \in Texts : \A k \in OffIn(source) :
    /\ s.align["PackedDimensions"].InferFromSource /\ s.RangeSpacing = "MatchSource"
    /\ Has(source[k], "dim")
    => source[k].ranges = 0

\* A line that looks like the end of a port list has no comment (it is ")", ");",
\* ") (" or "#(").
BoundariesBare ==
  \A source \in Texts : \A k \in DOMAIN source :
    source[k].text = "PortListBoundary" => ~Has(source[k], "comment")

OffHypotheses == OneSpelling /\ NothingCarriedOn /\ NoRangesSpaced /\ BoundariesBare

\* The lines in which formatting is off have stayed.
OffInv ==
  /\ \E source \in Texts : /\ source \in Seq(LooseLine) /\ Len(text) = Len(source)
                           /\ \A k \in DOMAIN text : Kept(text[k], source[k])
  /\ infos = ClassifyLines(lines)
  /\ \A k \in OffIn(text) : lines[k].words = text[k].words
  /\ \A k \in OffIn(text) : k \in DOMAIN result => result[k].words = lines[k].words

\* Formatting is off in the same lines, whatever is said of words.
LEMMA OffInSame ==
  ASSUME NEW ls, NEW other, DOMAIN ls = DOMAIN other, NEW n \in Nat, DOMAIN ls = 1..n,
         \A k \in DOMAIN ls : ls[k].mark = other[k].mark
  PROVE  OffIn(ls) = OffIn(other)
<1>1. ASSUME NEW k \in DOMAIN ls, NEW start \in 1..(k - 1)
      PROVE  /\ start \in DOMAIN ls /\ \A m \in start..k : m \in DOMAIN ls
  OBVIOUS
<1> QED
  BY <1>1 DEF OffIn

\* What a line in which formatting is off is taken for, in any pass.
LEMMA OffQuiet ==
  ASSUME AInv, OffInv, OffHypotheses, NEW k \in OffIn(text)
  PROVE  /\ k \in DOMAIN lines /\ infos[k].kind \in QuietKinds
         /\ infos[k].kind = "PortListBoundary" => ~Has(lines[k], "comment")
         /\ /\ style.align["PackedDimensions"].InferFromSource
            /\ style.RangeSpacing = "MatchSource" /\ Has(lines[k], "dim")
            => lines[k].ranges = 0
<1>1. /\ text \in Seq(LooseLine) /\ lines \in Seq(LooseLine) /\ Len(lines) = Len(text)
      /\ style \in Styles /\ \A l \in DOMAIN lines : Kept(lines[l], text[l])
  BY DEF AInv, Ready, LinesTyped
<1>2. PICK source \in Texts : /\ source \in Seq(LooseLine) /\ Len(text) = Len(source)
                              /\ \A l \in DOMAIN text : Kept(text[l], source[l])
  BY DEF OffInv
<1> DEFINE n == Len(lines)
<1>3. n \in Nat /\ DOMAIN lines = 1..n /\ DOMAIN text = 1..n /\ DOMAIN source = 1..n
  BY <1>1, <1>2
<1> HIDE DEF n
<1>4. \A l \in 1..n : Kept(lines[l], source[l]) /\ Kept(text[l], source[l])
  <2> TAKE l \in 1..n
  <2>1. lines[l] \in LooseLine /\ text[l] \in LooseLine /\ source[l] \in LooseLine
    BY <1>1, <1>2, <1>3
  <2> QED
    BY <1>1, <1>2, <1>3, <2>1, KeptOn
<1>5. OffIn(text) = OffIn(source)
  <2>1. \A l \in 1..n : text[l].mark = source[l].mark
    BY <1>4 DEF Kept
  <2> QED
    BY <1>3, <2>1, OffInSame
<1>6. k \in OffIn(source) /\ k \in 1..n
  BY <1>3, <1>5 DEF OffIn
<1>7. Kept(lines[k], source[k]) /\ lines[k] \in LooseLine /\ source[k] \in LooseLine
  BY <1>1, <1>2, <1>3, <1>4, <1>6
<1>8. Len(lines) = Len(source) /\ \A l \in DOMAIN lines : Kept(lines[l], source[l])
  BY <1>1, <1>2, <1>3, <1>4
<1>9. infos[k].kind = ClassifyLines(source)[k].kind
  BY <1>1, <1>2, <1>3, <1>6, <1>8, KindsKept DEF OffInv
<1>10. ClassifyLines(source)[k].kind # "Continuation"
  BY <1>6 DEF OffHypotheses, NothingCarriedOn
<1>11. FormatOff(source)[k] = TRUE
  <2>1. PICK start \in 1..(k - 1) :
          /\ source[start].mark \in {"slang-format off", "verilog_format: off"}
          /\ \A m \in start..k : source[m].mark \notin {"slang-format on", "verilog_format: on"}
    BY <1>6 DEF OffIn
  <2>2. start \in Nat /\ k \in Nat /\ 1 <= start /\ start <= k /\ k <= n /\ start \in 1..n
    BY <1>3, <1>6
  <2>3. SwitchesOff(source[start])
    BY <1>2, <1>3, <2>1, <2>2 DEF OffHypotheses, OneSpelling, SwitchesOff
  <2>4. \A m \in start..k : ~SwitchesOn(source[m])
    BY <2>1 DEF SwitchesOn
  <2>5. k <= Len(source)
    BY <1>1, <1>2, <2>2 DEF n
  <2> QED
    BY <1>2, <2>2, <2>3, <2>4, <2>5, StaysOff
<1>12. /\ infos[k].kind \in QuietKinds
       /\ infos[k].kind = "PortListBoundary" => source[k].text = "PortListBoundary"
  BY <1>2, <1>3, <1>6, <1>9, <1>10, <1>11, OffKinds
<1>13. Has(lines[k], "comment") = Has(source[k], "comment") /\ Has(lines[k], "dim") = Has(source[k], "dim")
  BY <1>7, KeptHas
<1>14. source[k].text = "PortListBoundary" => ~Has(source[k], "comment")
  BY <1>2, <1>3, <1>6 DEF OffHypotheses, BoundariesBare
<1>15. lines[k].ranges = source[k].ranges
  BY <1>7 DEF Kept
<1>16. /\ style.align["PackedDimensions"].InferFromSource /\ style.RangeSpacing = "MatchSource"
       /\ Has(source[k], "dim")
       => source[k].ranges = 0
  BY <1>1, <1>2, <1>6 DEF OffHypotheses, NoRangesSpaced
<1> QED
  BY <1>3, <1>6, <1>12, <1>13, <1>14, <1>15, <1>16

\* No pass moves a line of a quiet kind that is in its group.
LEMMA GroupQuiet ==
  ASSUME AInv, state.inGroup, NEW k \in state.groupStart..(i - 1),
         infos[k].kind \in QuietKinds,
         infos[k].kind = "PortListBoundary" => ~Has(lines[k], "comment")
  PROVE  GroupLines(i)[k - state.groupStart + 1] = lines[k]
<1> DEFINE start == state.groupStart
           group == start..(i - 1)
           ctx == InferContext(group)
           padded == CASE Passes[pass] = "PackedDimensions" -> GroupPackedDimensions(group, ctx)
                       [] Passes[pass] = "Declarations" -> GroupDeclarations(group, ctx)
                       [] Passes[pass] = "TimingControls" -> GroupTimingControls(group)
                       [] Passes[pass] = "Assignments" -> GroupAssignments(group, ctx)
                       [] Passes[pass] = "PortConnections" -> GroupPortConnections(group, ctx)
                       [] Passes[pass] = "TrailingComments" -> GroupTrailingComments(group)
<1>1. /\ pass \in DOMAIN Passes /\ start \in 1..(i - 1) /\ i \in Nat
      /\ infos[start].kind \in config.memberKinds
      /\ \A m \in (start + 1)..(i - 1) : ~ShouldBreakGroup(infos[m])
  BY DEF AInv, GroupOpen, Ready
<1> HIDE DEF start
<1>2. GroupLines(i) = [m \in 1..(i - start) |-> padded[start + m - 1]]
  BY DEF GroupLines, padded, start
<1>3. /\ k \in group /\ k - start + 1 \in 1..(i - start) /\ start + (k - start + 1) - 1 = k
  BY <1>1 DEF start
<1>4. padded[k] = lines[k]
  <2> HIDE DEF ctx, group
  <2>1. CASE Passes[pass] = "PackedDimensions"
    <3>1. padded = GroupPackedDimensions(group, ctx)
      BY <2>1
    <3>2. infos[k].kind # "Declaration"
      BY DEF QuietKinds
    <3> HIDE DEF padded
    <3> QED
      BY <1>3, <3>1, <3>2 DEF GroupPackedDimensions
  <2>2. CASE Passes[pass] = "Declarations"
    <3>1. padded = GroupDeclarations(group, ctx)
      BY <2>2
    <3>2. infos[k].kind # "Declaration" /\ infos[k].kind # "Continuation"
      BY DEF QuietKinds
    <3> HIDE DEF padded
    <3> QED
      BY <1>3, <3>1, <3>2 DEF GroupDeclarations
  <2>3. CASE Passes[pass] = "TimingControls"
    <3>1. padded = GroupTimingControls(group)
      BY <2>3
    <3>2. infos[k].kind # "TimingControl"
      BY DEF QuietKinds
    <3> HIDE DEF padded
    <3> QED
      BY <1>3, <3>1, <3>2 DEF GroupTimingControls
  <2>4. CASE Passes[pass] = "Assignments"
    <3>1. padded = GroupAssignments(group, ctx)
      BY <2>4
    <3>2. ~IsAlignable(k)
      BY DEF QuietKinds, IsAlignable
    <3> HIDE DEF padded
    <3> QED
      BY <1>3, <3>1, <3>2 DEF GroupAssignments
  <2>5. CASE Passes[pass] = "PortConnections"
    <3>1. padded = GroupPortConnections(group, ctx)
      BY <2>5
    <3>2. infos[k].kind # "PortConnection"
      BY DEF QuietKinds
    <3> HIDE DEF padded
    <3> QED
      BY <1>3, <3>1, <3>2 DEF GroupPortConnections
  <2>6. CASE Passes[pass] = "TrailingComments"
    <3>1. padded = GroupTrailingComments(group)
      BY <2>6
    <3>2. /\ config.memberKinds = {"Assignment", "Declaration", "TimingControl"}
          /\ config.depthScoped = FALSE
      BY <2>6 DEF config, GroupBreakConfig, Config
    <3>3. infos[k].kind # "Other"
      <4>1. CASE k = start
        BY <1>1, <3>2, <4>1
      <4>2. CASE k # start
        <5>1. ~ShouldBreakGroup(infos[k])
          <6>1. k \in (start + 1)..(i - 1)
            BY <1>1, <4>2 DEF start
          <6> QED
            BY <1>1, <6>1
        <5>2. infos[k].kind = "Other" => ShouldBreakGroup(infos[k])
          BY <3>2 DEF ShouldBreakGroup
        <5> QED
          BY <5>1, <5>2
      <4> QED
        BY <4>1, <4>2
    <3>4. ~(infos[k].kind \notin {"Comment", "Empty"} /\ Has(lines[k], "comment"))
      BY <3>3 DEF QuietKinds
    <3> HIDE DEF padded
    <3> QED
      BY <1>3, <3>1, <3>4 DEF GroupTrailingComments
  <2> QED
    BY <1>1, <2>1, <2>2, <2>3, <2>4, <2>5, <2>6 DEF Passes
<1> HIDE DEF padded
<1> QED
  BY <1>2, <1>3, <1>4 DEF start

\* Nor is one moved when a group is padded and written.
LEMMA FlushQuiet ==
  ASSUME AInv, OffInv, OffHypotheses, state.inGroup, NEW k \in OffIn(text)
  PROVE  LET written == result \o GroupLines(i)
         IN  k \in DOMAIN written => written[k].words = lines[k].words
<1> DEFINE start == state.groupStart
           padded == GroupLines(i)
           written == result \o padded
<1>1. /\ result \in Seq(LooseLine) /\ Len(result) = start - 1
      /\ start \in 1..(i - 1) /\ i \in 1..(Len(lines) + 1) /\ lines \in Seq(LooseLine)
  BY DEF AInv, Unwritten, GroupOpen, Ready
<1>2. padded \in Seq(LooseLine) /\ Len(padded) = i - start
  BY GroupWell
<1>3. \A m \in start..(i - 1) : m = k => padded[m - start + 1] = lines[m]
  BY OffQuiet, GroupQuiet
<1>4. written \in Seq(LooseLine) /\ Len(written) = i - 1
  BY FlushWell
<1>5. k \in DOMAIN result => result[k].words = lines[k].words
  BY DEF OffInv
<1> HIDE DEF padded, start
<1>6. ASSUME k \in DOMAIN written
      PROVE  written[k].words = lines[k].words
  <2>1. k \in 1..(i - 1)
    BY <1>4, <1>6
  <2>2. CASE k < start
    <3>1. k \in DOMAIN result /\ written[k] = result[k]
      BY <1>1, <1>2, <2>1, <2>2
    <3> HIDE DEF written
    <3> QED
      BY <1>5, <3>1
  <2>3. CASE k >= start
    <3> DEFINE place == k - start + 1
    <3>1. place \in 1..(i - start) /\ start + place - 1 = k /\ k \in start..(i - 1)
      BY <1>1, <2>1, <2>3
    <3>2. written[k] = padded[place]
      BY <1>1, <1>2, <2>1, <2>3
    <3>3. padded[place] = lines[k]
      BY <1>3, <3>1
    <3> HIDE DEF written, place
    <3> QED
      BY <3>2, <3>3
  <2>4. k < start \/ k >= start
    BY <1>1, <2>1
  <2> HIDE DEF written
  <2> QED
    BY <2>2, <2>3, <2>4
<1> QED
  BY <1>6 DEF padded

LEMMA FlushedQuiet ==
  ASSUME AInv, OffInv, OffHypotheses, ~StillInGroup, NEW k \in OffIn(text)
  PROVE  k \in DOMAIN Flushed => Flushed[k].words = lines[k].words
<1>1. CASE state.inGroup
  <2>1. Flushed = result \o GroupLines(i)
    BY <1>1 DEF Flushed, StillInGroup, Breaks
  <2> QED
    BY <1>1, <2>1, FlushQuiet
<1>2. CASE ~state.inGroup
  <2>1. Flushed = result
    BY <1>2 DEF Flushed, Breaks
  <2> QED
    BY <2>1 DEF OffInv
<1> QED
  BY <1>1, <1>2

\* Lines, text and what the lines are taken for stay.
LEMMA OffStays ==
  ASSUME OffInv, UNCHANGED <<text, lines, infos>>,
         \A k \in OffIn(text) : k \in DOMAIN result' => result'[k].words = lines[k].words
  PROVE  OffInv'
BY DEF OffInv

LEMMA StartGroupQuiet ==
  ASSUME AInv, OffInv, OffHypotheses, StartGroup
  PROVE  OffInv'
<1>1. ~StillInGroup /\ result' = Flushed /\ UNCHANGED <<text, lines, infos>>
  BY DEF StartGroup, Starts
<1>2. \A k \in OffIn(text) : k \in DOMAIN Flushed => Flushed[k].words = lines[k].words
  BY <1>1, FlushedQuiet
<1> QED
  BY <1>1, <1>2, OffStays

LEMMA PassThroughQuiet ==
  ASSUME AInv, OffInv, OffHypotheses, PassThrough
  PROVE  OffInv'
<1>1. /\ ~StillInGroup /\ result' = Append(Flushed, lines[i]) /\ UNCHANGED <<text, lines, infos>>
      /\ i \in DOMAIN lines
  BY DEF PassThrough, Scanning
<1>2. Flushed \in Seq(LooseLine) /\ Len(Flushed) = i - 1 /\ lines \in Seq(LooseLine)
  BY <1>1, FlushedWell DEF AInv, Ready
<1>3. i \in Nat /\ lines[i] \in LooseLine
  BY <1>1, <1>2
<1> DEFINE written == Append(Flushed, lines[i])
<1>4. ASSUME NEW k \in OffIn(text), k \in DOMAIN written
      PROVE  written[k].words = lines[k].words
  <2>1. k \in 1..i
    BY <1>2, <1>3, <1>4
  <2>2. CASE k = i
    <3>1. written[k] = lines[k]
      BY <1>2, <1>3, <2>2
    <3> QED
      BY <3>1
  <2>3. CASE k # i
    <3>1. k \in DOMAIN Flushed /\ written[k] = Flushed[k]
      BY <1>2, <1>3, <2>1, <2>3
    <3>2. Flushed[k].words = lines[k].words
      BY <1>1, <3>1, FlushedQuiet
    <3> QED
      BY <3>1, <3>2
  <2> QED
    BY <2>2, <2>3
<1> HIDE DEF written
<1> QED
  BY <1>1, <1>4, OffStays DEF written

\* Formatting is off in the same lines of any that are kept.
LEMMA NewLinesQuiet ==
  ASSUME AInv, OffInv, UNCHANGED text, infos' = ClassifyLines(lines'), DOMAIN result' = {},
         \A k \in OffIn(text) : lines'[k].words = lines[k].words
  PROVE  OffInv'
BY DEF OffInv

LEMMA EndPassQuiet ==
  ASSUME AInv, OffInv, OffHypotheses, EndPass
  PROVE  OffInv'
<1> DEFINE written == IF state.inGroup THEN result \o GroupLines(i) ELSE result
<1>1. /\ lines' = written /\ infos' = ClassifyLines(written)
      /\ result' = <<>> /\ UNCHANGED text /\ i > Len(lines)
  BY DEF EndPass
<1>2. /\ i \in 1..(Len(lines) + 1) /\ lines \in Seq(LooseLine) /\ text \in Seq(LooseLine)
      /\ Len(lines) = Len(text)
  BY DEF AInv, Ready, LinesTyped
<1>3. written \in Seq(LooseLine) /\ Len(written) = i - 1
  <2>1. CASE state.inGroup
    BY <2>1, FlushWell
  <2>2. CASE ~state.inGroup
    BY <2>2 DEF AInv, Unwritten
  <2> QED
    BY <2>1, <2>2
<1>4. ASSUME NEW k \in OffIn(text)
      PROVE  written[k].words = lines[k].words
  <2>1. k \in DOMAIN written
    <3>1. k \in DOMAIN text
      BY DEF OffIn
    <3> HIDE DEF written
    <3> QED
      BY <1>1, <1>2, <1>3, <3>1
  <2>2. CASE state.inGroup
    <3>1. written = result \o GroupLines(i)
      BY <2>2
    <3> HIDE DEF written
    <3> QED
      BY <2>1, <2>2, <3>1, FlushQuiet
  <2>3. CASE ~state.inGroup
    <3>1. written = result
      BY <2>3
    <3> HIDE DEF written
    <3> QED
      BY <2>1, <3>1 DEF OffInv
  <2> QED
    BY <2>2, <2>3
<1> HIDE DEF written
<1> QED
  BY <1>1, <1>4, NewLinesQuiet

LEMMA NormalizeRangeSpacingQuiet ==
  ASSUME AInv, OffInv, OffHypotheses, NormalizeRangeSpacing
  PROVE  OffInv'
<1>1. /\ infos' = ClassifyLines(lines') /\ UNCHANGED <<style, text, result>> /\ pass = 0
  BY DEF NormalizeRangeSpacing
<1>2. DOMAIN result' = {}
  <2>1. pass \notin DOMAIN Passes
    BY <1>1 DEF Passes
  <2>2. result' = <<>>
    BY <1>1, <2>1 DEF AInv
  <2> QED
    BY <2>2
<1>3. ASSUME NEW k \in OffIn(text)
      PROVE  lines'[k] = lines[k]
  <2>1. /\ k \in DOMAIN lines
        /\ /\ style.align["PackedDimensions"].InferFromSource
           /\ style.RangeSpacing = "MatchSource" /\ Has(lines[k], "dim")
           => lines[k].ranges = 0
    BY OffQuiet
  <2>2. ~(/\ style.align["PackedDimensions"].InferFromSource
          /\ HasMultiSpaceRange(lines[k]) /\ Has(lines[k], "dim"))
    BY <2>1 DEF HasMultiSpaceRange
  <2> QED
    BY <2>1, <2>2 DEF NormalizeRangeSpacing
<1> QED
  BY <1>1, <1>2, <1>3, NewLinesQuiet

LEMMA OffInit ==
  ASSUME Init
  PROVE  OffInv
<1>1. /\ style \in Style /\ lines = text /\ infos = ClassifyLines(text) /\ result = <<>>
  BY StylesAssumption DEF Init
<1>2. PICK source \in Texts : text = Printed(source)
  BY DEF Init
<1>3. /\ source \in Seq(LooseLine) /\ Len(text) = Len(source) /\ text \in Seq(LooseLine)
      /\ \A k \in DOMAIN source : Kept(text[k], source[k])
  BY <1>1, <1>2, PrintedTypes
<1>4. DOMAIN text = DOMAIN source
  BY <1>3
<1> QED
  BY <1>1, <1>3, <1>4 DEF OffInv

LEMMA OffStep ==
  ASSUME AInv, OffInv, OffHypotheses, [Next]_vars
  PROVE  OffInv'
<1>1. CASE UNCHANGED vars
  BY <1>1 DEF OffInv, vars
<1>2. CASE JoinGroup
  BY <1>2 DEF JoinGroup, OffInv
<1>3. CASE SkipPass
  BY <1>3 DEF SkipPass, OffInv
<1> QED
  BY <1>1, <1>2, <1>3, StartGroupQuiet, PassThroughQuiet, EndPassQuiet,
     NormalizeRangeSpacingQuiet DEF Next

LEMMA OffLinesStay ==
  ASSUME AInv, OffInv
  PROVE  OffLinesUntouched
<1> DEFINE start == Unwritten
           rest == SubSeq(lines, start, Len(lines))
<1>1. /\ text \in Seq(LooseLine) /\ Len(lines) = Len(text) /\ lines \in Seq(LooseLine)
      /\ result \in Seq(LooseLine) /\ Len(result) = start - 1
  BY DEF AInv, Ready, LinesTyped
<1>2. start \in 1..(Len(lines) + 1)
  <2>1. i \in 1..(Len(lines) + 1) /\ (state.inGroup => state.groupStart \in 1..(i - 1))
    BY DEF AInv, GroupOpen
  <2> QED
    BY <1>1, <2>1 DEF Unwritten
<1>3. Whole = result \o rest
  BY DEF Whole, Unwritten
<1> HIDE DEF start
<1>4. rest \in Seq(LooseLine) /\ Len(rest) = Len(lines) - start + 1
  BY <1>1, <1>2
<1>5. ASSUME NEW k \in OffIn(text)
      PROVE  Whole[k].words = text[k].words
  <2>1. k \in 1..Len(text)
    <3>1. k \in DOMAIN text
      BY DEF OffIn
    <3> QED
      BY <1>1, <3>1
  <2>2. \/ Whole[k] = result[k] /\ k \in DOMAIN result
        \/ Whole[k] = lines[k]
    BY <1>1, <1>2, <1>3, <1>4, <2>1
  <2>3. /\ lines[k].words = text[k].words
        /\ k \in DOMAIN result => result[k].words = lines[k].words
    BY <2>1 DEF OffInv
  <2> QED
    BY <2>2, <2>3
<1> QED
  BY <1>5 DEF OffLinesUntouched

-----------------------------------------------------------------------------
(* The layout of lines. *)

\* A line whose words have a width and do not overlap.
Snug(line) == IsLaidOut(line) /\ \A w \in DOMAIN line.words : line.words[w].width > 0

Straight(line, was) == Snug(line) /\ LaidOut(line, was)

LEMMA SnugFacts ==
  ASSUME NEW line \in LooseLine, Snug(line), NEW k \in DOMAIN line.words
  PROVE  /\ DOMAIN line.words = 1..Len(line.words) /\ Len(line.words) \in Nat /\ k \in Nat \ {0}
         /\ line.words[k].at \in Nat /\ line.words[k].width \in Nat \ {0}
         /\ EndBefore(line, k) \in Nat /\ EndBefore(line, k) <= line.words[k].at
         /\ k > 1 => /\ EndBefore(line, k) = line.words[k - 1].at + line.words[k - 1].width
                     /\ k - 1 \in DOMAIN line.words
         /\ \A v \in 1..(k - 1) :
              /\ line.words[v].at + line.words[v].width <= line.words[k].at
              /\ line.words[v].at + line.words[v].width <= EndBefore(line, k)
         /\ \A v \in DOMAIN line.words :
              v >= k => line.words[v].at \in Nat /\ line.words[k].at <= line.words[v].at
         /\ Indent(line) = line.words[1].at
<1>1. line.words \in Seq(LooseWord) /\ k \in DOMAIN line.words
  BY DEF LooseLine
<1> DEFINE ws == line.words
<1> HIDE DEF ws
<1>2. DOMAIN ws = 1..Len(ws) /\ Len(ws) \in Nat /\ ws \in Seq(LooseWord) /\ k \in DOMAIN ws
  BY <1>1 DEF ws
<1>3. \A v \in DOMAIN ws : ws[v] \in LooseWord
  BY <1>2
<1>4. \A v \in DOMAIN ws : ws[v].at \in Nat /\ ws[v].width \in Nat \ {0}
  <2> TAKE v \in DOMAIN ws
  <2>1. ws[v].at \in Int /\ ws[v].width \in Int
    BY <1>3 DEF LooseWord
  <2>2. ws[v].at >= 0 /\ ws[v].width > 0
    BY DEF Snug, IsLaidOut, ws
  <2> QED
    BY <2>1, <2>2
<1>5. \A w \in DOMAIN ws : \A v \in 1..(w - 1) : ws[v].at + ws[v].width <= ws[w].at
  BY DEF Snug, IsLaidOut, WordEnd, ws
<1>6. k > 1 => EndBefore(line, k) = ws[k - 1].at + ws[k - 1].width /\ k - 1 \in DOMAIN ws
  BY <1>2 DEF EndBefore, WordEnd, ws
<1>7. k = 1 => EndBefore(line, k) = 0
  BY DEF EndBefore
<1>8. EndBefore(line, k) \in Nat /\ EndBefore(line, k) <= ws[k].at
  <2>1. CASE k = 1
    BY <1>2, <1>4, <1>7, <2>1
  <2>2. CASE k > 1
    <3>1. k - 1 \in 1..(k - 1) /\ k - 1 \in DOMAIN ws
      BY <1>2, <2>2
    <3>2. ws[k - 1].at + ws[k - 1].width <= ws[k].at
      BY <1>2, <1>5, <3>1
    <3>3. ws[k - 1].at \in Nat /\ ws[k - 1].width \in Nat
      BY <1>4, <3>1
    <3> QED
      BY <1>6, <2>2, <3>2, <3>3
  <2> QED
    BY <1>2, <2>1, <2>2
<1>9. ASSUME NEW v \in 1..(k - 1)
      PROVE  ws[v].at + ws[v].width <= ws[k].at /\ ws[v].at + ws[v].width <= EndBefore(line, k)
  <2>1. v \in DOMAIN ws /\ k > 1 /\ k - 1 \in DOMAIN ws
    BY <1>2
  <2>2. ws[v].at + ws[v].width <= ws[k].at
    BY <1>2, <1>5
  <2>3. CASE v = k - 1
    BY <1>4, <1>6, <2>1, <2>2, <2>3
  <2>4. CASE v < k - 1
    <3>1. v \in 1..((k - 1) - 1)
      BY <1>2, <2>1, <2>4
    <3>2. ws[v].at + ws[v].width <= ws[k - 1].at
      BY <1>5, <2>1, <3>1
    <3>3. /\ ws[v].at \in Nat /\ ws[v].width \in Nat /\ ws[k - 1].at \in Nat
          /\ ws[k - 1].width \in Nat
      BY <1>4, <2>1
    <3> QED
      BY <1>6, <2>1, <2>2, <3>2, <3>3
  <2> QED
    BY <1>2, <2>3, <2>4
<1>10. ASSUME NEW v \in DOMAIN ws, v >= k
       PROVE  ws[v].at \in Nat /\ ws[k].at <= ws[v].at
  <2>1. ws[v].at \in Nat /\ ws[k].at \in Nat /\ ws[k].width \in Nat
    BY <1>2, <1>4
  <2>2. CASE v = k
    BY <2>1, <2>2
  <2>3. CASE v > k
    <3>1. k \in 1..(v - 1)
      BY <1>2, <2>3
    <3>2. ws[k].at + ws[k].width <= ws[v].at
      BY <1>5, <3>1
    <3> QED
      BY <2>1, <3>2
  <2> QED
    BY <1>2, <1>10, <2>2, <2>3
<1>11. Indent(line) = ws[1].at
  <2>1. line.words # <<>>
    BY <1>2 DEF ws
  <2> QED
    BY <2>1 DEF Indent, ws
<1> QED
  BY <1>2, <1>4, <1>6, <1>8, <1>9, <1>10, <1>11 DEF ws

\* A word that moves, with all behind it, to where there is room for it.
LEMMA MoveWordSnug ==
  ASSUME NEW line \in LooseLine, Snug(line), NEW k \in DOMAIN line.words, NEW column \in Int,
         column >= EndBefore(line, k)
  PROVE  LET moved == MoveWord(line, k, column)
         IN  /\ moved \in LooseLine /\ Snug(moved)
             /\ moved.dims = line.dims /\ DOMAIN moved.words = DOMAIN line.words
             /\ \A w \in DOMAIN line.words :
                  /\ moved.words[w].at = IF w < k THEN line.words[w].at
                                         ELSE line.words[w].at + column - line.words[k].at
                  /\ moved.words[w].width = line.words[w].width
                  /\ moved.words[w].what = line.words[w].what
<1> DEFINE moved == MoveWord(line, k, column)
           old == line.words
           new == moved.words
           shift == column - old[k].at
<1>1. /\ DOMAIN old = 1..Len(old) /\ Len(old) \in Nat /\ k \in Nat \ {0}
      /\ \A w \in DOMAIN old : old[w].at \in Nat /\ old[w].width \in Nat \ {0}
      /\ old[k].at \in Nat
  BY SnugFacts
<1>2. moved \in LooseLine /\ Kept(moved, line)
  <2>1. Kept(moved, line)
    BY <1>1, MoveWordKept
  <2> QED
    BY <2>1 DEF Kept
<1> DEFINE at(w) == IF w < k THEN old[w].at ELSE old[w].at + column - old[k].at
           word(w) == IF w < k THEN old[w] ELSE [old[w] EXCEPT !.at = @ + column - old[k].at]
           words == [w \in DOMAIN old |-> word(w)]
<1>3. moved.dims = line.dims /\ new = words /\ DOMAIN new = DOMAIN old
  <2>1. moved = [line EXCEPT !.words = words]
    BY DEF MoveWord
  <2>2. DOMAIN words = DOMAIN old
    OBVIOUS
  <2> HIDE DEF moved, words
  <2>3. moved.dims = line.dims /\ moved.words = words
    BY <2>1 DEF LooseLine
  <2> QED
    BY <2>2, <2>3
<1>4. ASSUME NEW w \in DOMAIN old
      PROVE  new[w].at = at(w) /\ new[w].width = old[w].width /\ new[w].what = old[w].what
  <2>1. new[w] = word(w)
    BY <1>3
  <2>2. old[w] \in LooseWord
    BY DEF LooseLine
  <2> HIDE DEF old, new, moved
  <2> QED
    BY <2>1, <2>2 DEF LooseWord
<1>5. /\ \A w \in DOMAIN old : \A v \in 1..(w - 1) : old[v].at + old[v].width <= old[w].at
      /\ \A v \in 1..(k - 1) : old[v].at + old[v].width <= EndBefore(line, k)
      /\ \A w \in DOMAIN old : w >= k => old[k].at <= old[w].at
      /\ EndBefore(line, k) \in Nat
  BY SnugFacts
<1> HIDE DEF moved, old, new, word, words, shift
<1>6. ASSUME NEW w \in DOMAIN old
      PROVE  /\ new[w].at >= 0 /\ new[w].width > 0
             /\ \A v \in 1..(w - 1) : new[v].at + new[v].width <= new[w].at
  <2>1. w \in Nat /\ old[w].at \in Nat /\ old[w].width \in Nat \ {0}
    BY <1>1
  <2>2. CASE w < k
    <3>1. new[w].at >= 0 /\ new[w].width > 0
      BY <1>4, <2>1, <2>2
    <3>2. ASSUME NEW v \in 1..(w - 1)
          PROVE  new[v].at + new[v].width <= new[w].at
      <4>1. v \in DOMAIN old /\ v < k
        BY <1>1, <2>1, <2>2
      <4>2. new[v].at = old[v].at /\ new[v].width = old[v].width /\ new[w].at = old[w].at
        BY <1>4, <2>2, <4>1
      <4> QED
        BY <1>5, <4>2
    <3> QED
      BY <3>1, <3>2
  <2>3. CASE ~(w < k)
    <3>1. new[w].at = old[w].at + column - old[k].at /\ new[w].width = old[w].width
      BY <1>4, <2>3
    <3>2. old[k].at <= old[w].at
      BY <1>1, <1>5, <2>1, <2>3
    <3>3. new[w].at >= column /\ new[w].at >= 0 /\ new[w].width > 0 /\ new[w].at \in Int
      BY <1>1, <1>5, <2>1, <3>1, <3>2
    <3>4. ASSUME NEW v \in 1..(w - 1)
          PROVE  new[v].at + new[v].width <= new[w].at
      <4>1. v \in DOMAIN old /\ v \in Nat /\ old[v].at \in Nat /\ old[v].width \in Nat
        BY <1>1, <2>1
      <4>2. CASE v < k
        <5>1. new[v].at = old[v].at /\ new[v].width = old[v].width
          BY <1>4, <4>1, <4>2
        <5>2. old[v].at + old[v].width <= EndBefore(line, k)
          BY <1>1, <1>5, <4>1, <4>2
        <5> QED
          BY <1>5, <3>3, <4>1, <5>1, <5>2
      <4>3. CASE ~(v < k)
        <5>1. new[v].at = old[v].at + column - old[k].at /\ new[v].width = old[v].width
          BY <1>4, <4>1, <4>3
        <5>2. old[v].at + old[v].width <= old[w].at
          BY <1>5
        <5> QED
          BY <1>1, <2>1, <3>1, <4>1, <5>1, <5>2
      <4> QED
        BY <4>2, <4>3
    <3> QED
      BY <3>3, <3>4
  <2> QED
    BY <2>2, <2>3
<1>7. Snug(moved)
  <2>1. Has(moved, "dim") => Has(line, "dim")
    BY <1>3, <1>4 DEF Has, new, old
  <2>2. (Has(line, "dim") => line.dims # <<>>) /\ SpacesCounted(line.dims)
    BY DEF Snug, IsLaidOut
  <2> QED
    BY <1>3, <1>6, <2>1, <2>2 DEF Snug, IsLaidOut, WordEnd, new
<1> QED
  BY <1>1, <1>2, <1>3, <1>4, <1>7 DEF moved, old, new

\* It stays laid out as printed when it keeps a gap where the printer left one, and the
\* line its indentation.
LEMMA MoveStraight ==
  ASSUME NEW line \in LooseLine, NEW was, Straight(line, was), NEW k \in DOMAIN line.words,
         NEW column \in Int, column >= EndBefore(line, k),
         k > 1 /\ Gap(was, k) > 0 => column > EndBefore(line, k),
         k = 1 => IsContinuationLine(was) \/ column = Indent(was)
  PROVE  Straight(MoveWord(line, k, column), was)
<1> DEFINE moved == MoveWord(line, k, column)
           old == line.words
           new == moved.words
<1>1. /\ DOMAIN old = 1..Len(old) /\ Len(old) \in Nat /\ k \in Nat \ {0}
      /\ \A w \in DOMAIN old : old[w].at \in Nat /\ old[w].width \in Nat \ {0}
      /\ EndBefore(line, k) \in Nat /\ Indent(line) = old[1].at
      /\ k > 1 => EndBefore(line, k) = old[k - 1].at + old[k - 1].width
  BY SnugFacts DEF Straight
<1>2. /\ moved \in LooseLine /\ Snug(moved) /\ moved.dims = line.dims /\ DOMAIN new = DOMAIN old
      /\ \A w \in DOMAIN old :
           /\ new[w].at = IF w < k THEN old[w].at ELSE old[w].at + column - old[k].at
           /\ new[w].width = old[w].width /\ new[w].what = old[w].what
  BY MoveWordSnug DEF Straight
<1> HIDE DEF moved
<1>3. /\ IsContinuationLine(was) \/ Indent(line) = Indent(was)
      /\ SpacesCounted(line.dims)
      /\ \A w \in DOMAIN line.words :
           /\ line.words[w].what = "dim" => line.words[w].width = DimsWidth(line.dims)
           /\ w > 1 => Gap(line, w) >= 0 /\ (Gap(was, w) > 0 => Gap(line, w) > 0)
  BY DEF Straight, LaidOut
<1>4. IsContinuationLine(was) \/ Indent(moved) = Indent(was)
  <2>1. 1 \in DOMAIN old /\ 1 \in DOMAIN new /\ Indent(moved) = new[1].at
    <3>1. 1 \in DOMAIN old /\ 1 \in DOMAIN new
      BY <1>1, <1>2
    <3>2. moved.words # <<>>
      BY <3>1
    <3> QED
      BY <3>1, <3>2 DEF Indent
  <2>2. CASE k = 1
    BY <1>1, <1>2, <2>1, <2>2
  <2>3. CASE k > 1
    BY <1>1, <1>2, <1>3, <2>1, <2>3
  <2> QED
    BY <1>1, <2>2, <2>3
<1>5. ASSUME NEW w \in DOMAIN new, w > 1
      PROVE  Gap(moved, w) >= 0 /\ (Gap(was, w) > 0 => Gap(moved, w) > 0)
  <2>1. w \in Nat /\ w \in DOMAIN old /\ w - 1 \in DOMAIN old /\ w - 1 \in Nat
    BY <1>1, <1>2, <1>5
  <2>2. /\ Gap(line, w) = old[w].at - (old[w - 1].at + old[w - 1].width)
        /\ Gap(moved, w) = new[w].at - (new[w - 1].at + new[w - 1].width)
    BY <1>5 DEF Gap, EndBefore, WordEnd
  <2>3. Gap(line, w) >= 0 /\ (Gap(was, w) > 0 => Gap(line, w) > 0)
    BY <1>3, <1>5, <2>1
  <2>4. /\ old[w].at \in Nat /\ old[w - 1].at \in Nat /\ old[w - 1].width \in Nat
        /\ old[k].at \in Nat
    BY <1>1, <2>1
  <2>5. new[w - 1].width = old[w - 1].width
    BY <1>2, <2>1
  <2> HIDE DEF old, new
  <2>6. CASE w < k
    <3>1. new[w].at = old[w].at /\ new[w - 1].at = old[w - 1].at
      BY <1>1, <1>2, <2>1, <2>6
    <3> QED
      BY <2>2, <2>3, <2>5, <3>1
  <2>7. CASE w = k
    <3>1. new[w].at = column /\ new[w - 1].at = old[w - 1].at
      BY <1>1, <1>2, <2>1, <2>4, <2>7
    <3>2. new[w - 1].at + new[w - 1].width = EndBefore(line, k)
      BY <1>1, <1>5, <2>5, <2>7, <3>1
    <3>3. Gap(moved, w) = column - EndBefore(line, k)
      BY <2>2, <3>1, <3>2
    <3>4. Gap(was, w) > 0 => column > EndBefore(line, k)
      BY <1>5, <2>7
    <3> HIDE DEF Gap
    <3> QED
      BY <1>1, <3>3, <3>4
  <2>8. CASE w > k
    <3>1. /\ new[w].at = old[w].at + column - old[k].at
          /\ new[w - 1].at = old[w - 1].at + column - old[k].at
      BY <1>1, <1>2, <2>1, <2>8
    <3>2. Gap(moved, w) = Gap(line, w)
      BY <2>2, <2>4, <2>5, <3>1
    <3> QED
      BY <2>3, <3>2
  <2> QED
    BY <1>1, <2>1, <2>6, <2>7, <2>8
<1>6. \A w \in DOMAIN moved.words :
        /\ moved.words[w].at >= 0
        /\ moved.words[w].what = "dim" => moved.words[w].width = DimsWidth(moved.dims)
  BY <1>2, <1>3 DEF Snug, IsLaidOut
<1> QED
  BY <1>2, <1>3, <1>4, <1>5, <1>6 DEF Straight, LaidOut, moved

\* The order of the words tells where they are.
LEMMA OrderFacts ==
  ASSUME NEW line \in LooseLine, IsInOrder(line)
  PROVE  /\ Has(line, "keyword") => IndexOf(line, "keyword") = 1
         /\ Has(line, "op") => IndexOf(line, "op") > 1
         /\ Has(line, "op") /\ Has(line, "ident") => IndexOf(line, "ident") < IndexOf(line, "op")
         /\ \A w \in DOMAIN line.words :
              line.words[w].what \in {"dim", "ident"} => w = IndexOf(line, line.words[w].what)
         /\ Has(line, "dim") =>
              /\ Has(line, "ident") /\ IndexOf(line, "dim") > 1
              /\ IndexOf(line, "ident") = IndexOf(line, "dim") + 1
<1>1. DOMAIN line.words = 1..Len(line.words) /\ Len(line.words) \in Nat
  BY DEF LooseLine
<1>2. \A what : Has(line, what) => /\ IndexOf(line, what) \in DOMAIN line.words
                                   /\ line.words[IndexOf(line, what)].what = what
  BY IndexOfProperties
<1>3. \A w \in DOMAIN line.words :
        /\ line.words[w].what = "keyword" => w = 1
        /\ line.words[w].what \in {"dim", "op"} => w > 1
        /\ line.words[w].what \in {"dim", "ident"} =>
             \A v \in 1..(w - 1) : line.words[v].what # line.words[w].what
                                   /\ line.words[v].what # "op"
        /\ line.words[w].what = "dim" => w + 1 \in DOMAIN line.words
                                         /\ line.words[w + 1].what = "ident"
  BY DEF IsInOrder
<1>4. ASSUME NEW w \in DOMAIN line.words, line.words[w].what \in {"dim", "ident"}
      PROVE  w = IndexOf(line, line.words[w].what)
  <2> DEFINE what == line.words[w].what
             v == IndexOf(line, what)
  <2>1. Has(line, what)
    BY DEF Has
  <2>2. v \in DOMAIN line.words /\ line.words[v].what = what
    BY <1>2, <2>1
  <2> HIDE DEF v
  <2>3. v \in Nat /\ w \in Nat /\ v >= 1 /\ w >= 1
    BY <1>1, <2>2
  <2>4. ~(v < w)
    <3> SUFFICES ASSUME v < w PROVE FALSE
      OBVIOUS
    <3>1. v \in 1..(w - 1)
      BY <2>3
    <3> QED
      BY <1>3, <1>4, <2>2, <3>1
  <2>5. ~(w < v)
    <3> SUFFICES ASSUME w < v PROVE FALSE
      OBVIOUS
    <3>1. w \in 1..(v - 1)
      BY <2>3
    <3> QED
      BY <1>3, <1>4, <2>2, <3>1
  <2> QED
    BY <2>3, <2>4, <2>5 DEF v
<1>5. ASSUME Has(line, "op"), Has(line, "ident")
      PROVE  IndexOf(line, "ident") < IndexOf(line, "op")
  <2> DEFINE v == IndexOf(line, "ident")
             w == IndexOf(line, "op")
  <2>1. /\ v \in DOMAIN line.words /\ line.words[v].what = "ident"
        /\ w \in DOMAIN line.words /\ line.words[w].what = "op"
    BY <1>2, <1>5
  <2> HIDE DEF v, w
  <2>2. v \in Nat /\ w \in Nat /\ w >= 1 /\ v # w
    BY <1>1, <2>1
  <2>3. ~(w < v)
    <3> SUFFICES ASSUME w < v PROVE FALSE
      OBVIOUS
    <3>1. w \in 1..(v - 1)
      BY <2>2
    <3> QED
      BY <1>3, <2>1, <3>1
  <2> QED
    BY <2>2, <2>3 DEF v, w
<1>6. ASSUME Has(line, "dim")
      PROVE  /\ Has(line, "ident") /\ IndexOf(line, "dim") > 1
             /\ IndexOf(line, "ident") = IndexOf(line, "dim") + 1
  <2> DEFINE w == IndexOf(line, "dim")
  <2>1. w \in DOMAIN line.words /\ line.words[w].what = "dim"
    BY <1>2, <1>6
  <2> HIDE DEF w
  <2>2. w > 1 /\ w + 1 \in DOMAIN line.words /\ line.words[w + 1].what = "ident"
    BY <1>3, <2>1
  <2>3. w + 1 = IndexOf(line, "ident")
    BY <1>4, <2>2
  <2> QED
    BY <2>2, <2>3 DEF w, Has
<1> QED
  BY <1>2, <1>3, <1>4, <1>5, <1>6

\* The columns of a line in which a word has moved.
LEMMA ShiftedColumn ==
  ASSUME NEW line \in LooseLine, Snug(line), NEW k \in DOMAIN line.words, NEW column \in Int,
         column >= EndBefore(line, k), NEW what, Has(line, what)
  PROVE  LET moved == MoveWord(line, k, column)
         IN  /\ Has(moved, what) /\ IndexOf(moved, what) = IndexOf(line, what)
             /\ Column(moved, what) =
                  IF IndexOf(line, what) < k THEN Column(line, what)
                  ELSE Column(line, what) + column - line.words[k].at
<1> DEFINE moved == MoveWord(line, k, column)
           w == IndexOf(line, what)
<1>1. /\ DOMAIN moved.words = DOMAIN line.words
      /\ \A v \in DOMAIN line.words :
           /\ moved.words[v].at = IF v < k THEN line.words[v].at
                                  ELSE line.words[v].at + column - line.words[k].at
           /\ moved.words[v].what = line.words[v].what
  BY MoveWordSnug
<1> HIDE DEF moved
<1>2. Has(moved, what) /\ IndexOf(moved, what) = w
  BY <1>1, IndexOfSame
<1>3. w \in DOMAIN line.words
  BY IndexOfProperties
<1>4. Column(moved, what) = moved.words[w].at /\ Column(line, what) = line.words[w].at
  BY <1>2 DEF Column
<1> HIDE DEF w
<1>5. Column(moved, what) = IF w < k THEN Column(line, what)
                            ELSE Column(line, what) + column - line.words[k].at
  BY <1>1, <1>3, <1>4
<1> QED
  BY <1>2, <1>5 DEF moved, w

\* A word that moves to the right has room.
LEMMA MoveToRight ==
  ASSUME NEW line \in LooseLine, NEW was, Straight(line, was), NEW what, Has(line, what),
         NEW column \in Int, column >= Column(line, what),
         IndexOf(line, what) > 1 \/ IsContinuationLine(was)
  PROVE  /\ Straight(MoveTo(line, what, column), was)
         /\ MoveTo(line, what, column) = MoveWord(line, IndexOf(line, what), column)
         /\ column >= EndBefore(line, IndexOf(line, what))
<1> DEFINE k == IndexOf(line, what)
<1>1. k \in DOMAIN line.words /\ Column(line, what) = line.words[k].at
  BY IndexOfProperties DEF Column
<1>2. MoveTo(line, what, column) = MoveWord(line, k, column)
  BY DEF MoveTo
<1> HIDE DEF k
<1>3. /\ EndBefore(line, k) \in Nat /\ EndBefore(line, k) <= line.words[k].at
      /\ line.words[k].at \in Nat /\ k \in Nat \ {0}
  BY <1>1, SnugFacts DEF Straight
<1>4. k > 1 /\ Gap(was, k) > 0 => line.words[k].at > EndBefore(line, k)
  <2> SUFFICES ASSUME k > 1, Gap(was, k) > 0 PROVE line.words[k].at > EndBefore(line, k)
    OBVIOUS
  <2>1. Gap(line, k) > 0
    BY <1>1 DEF Straight, LaidOut
  <2>2. Gap(line, k) = line.words[k].at - EndBefore(line, k)
    BY DEF Gap
  <2> HIDE DEF Gap
  <2> QED
    BY <1>3, <2>1, <2>2
<1>5. column >= EndBefore(line, k) /\ (k > 1 /\ Gap(was, k) > 0 => column > EndBefore(line, k))
  BY <1>1, <1>3, <1>4
<1>6. k = 1 => IsContinuationLine(was)
  BY DEF k
<1> QED
  BY <1>1, <1>2, <1>5, <1>6, MoveStraight DEF k

-----------------------------------------------------------------------------
(* The layout of dimensions. *)

\* A line with other spaces in its brackets is laid out as before.
LEMMA WithDimsSnug ==
  ASSUME NEW line \in LooseLine, Snug(line), IsInOrder(line), Has(line, "dim"),
         NEW dims \in Seq(Dim), SameDims(dims, line.dims), SpacesCounted(dims)
  PROVE  LET wide == WithDims(line, dims)
         IN  /\ wide \in LooseLine /\ Snug(wide) /\ wide.dims = dims
             /\ DOMAIN wide.words = DOMAIN line.words /\ Indent(wide) = Indent(line)
             /\ \A w \in DOMAIN line.words :
                  /\ wide.words[w].what = line.words[w].what
                  /\ wide.words[w].what = "dim" => wide.words[w].width = DimsWidth(dims)
                  /\ w > 1 => Gap(wide, w) = Gap(line, w)
<1> DEFINE old == line.words
           d == IndexOf(line, "dim")
           grown == DimsWidth(dims) - old[d].width
           word(j) == CASE j < d -> old[j]
                        [] j = d -> [old[j] EXCEPT !.width = @ + grown]
                        [] j > d -> [old[j] EXCEPT !.at = @ + grown]
           words == [j \in DOMAIN old |-> word(j)]
           wide == WithDims(line, dims)
           new == wide.words
<1>1. /\ old \in Seq(LooseWord) /\ DOMAIN old = 1..Len(old) /\ Len(old) \in Nat
      /\ d \in DOMAIN old /\ d \in Nat /\ d > 1 /\ old[d].what = "dim"
      /\ \A w \in DOMAIN old : old[w].what = "dim" => w = d
  <2>1. old \in Seq(LooseWord)
    BY DEF LooseLine
  <2>2. d \in DOMAIN old /\ old[d].what = "dim" /\ d > 1
    BY IndexOfProperties, OrderFacts
  <2>3. \A w \in DOMAIN old : old[w].what = "dim" => w = d
    BY OrderFacts
  <2> QED
    BY <2>1, <2>2, <2>3
<1>2. /\ \A w \in DOMAIN old : /\ w \in Nat /\ old[w] \in LooseWord
                               /\ old[w].at \in Nat /\ old[w].width \in Nat \ {0}
      /\ \A w \in DOMAIN old : \A v \in 1..(w - 1) : old[v].at + old[v].width <= old[w].at
  <2>1. \A w \in DOMAIN old : w \in Nat /\ old[w] \in LooseWord
    BY <1>1
  <2>2. \A w \in DOMAIN old : old[w].at \in Nat /\ old[w].width \in Nat \ {0}
    BY SnugFacts
  <2>3. \A w \in DOMAIN old : \A v \in 1..(w - 1) : old[v].at + old[v].width <= old[w].at
    BY SnugFacts
  <2> QED
    BY <2>1, <2>2, <2>3
<1>3. wide \in LooseLine /\ wide.dims = dims /\ new = words
  <2>1. Kept(wide, line)
    BY WithDimsKept
  <2>2. wide = [line EXCEPT !.dims = dims, !.words = words]
    BY DEF WithDims
  <2> HIDE DEF wide, words
  <2>3. wide.dims = dims /\ wide.words = words
    BY <2>2 DEF LooseLine
  <2> QED
    BY <2>1, <2>3 DEF Kept
<1>4. DimsWidth(dims) \in Nat \ {0}
  <2>1. line.dims # <<>> /\ line.dims \in Seq(Dim)
    BY DEF Snug, IsLaidOut, LooseLine
  <2>2. dims # <<>>
    BY <2>1 DEF SameDims
  <2> QED
    BY <2>2, DimsWidthBounds
<1>5. grown \in Int /\ old[d].width + grown = DimsWidth(dims)
  <2>1. old[d].width \in Nat
    BY <1>1, <1>2
  <2> HIDE DEF old, d
  <2> QED
    BY <1>4, <2>1
<1> HIDE DEF grown, d, old
<1>6. ASSUME NEW w \in DOMAIN old
      PROVE  /\ new[w].at = IF w <= d THEN old[w].at ELSE old[w].at + grown
             /\ new[w].width = IF w = d THEN DimsWidth(dims) ELSE old[w].width
             /\ new[w].what = old[w].what
  <2>1. new[w] = word(w)
    BY <1>3
  <2>2. w \in Nat /\ old[w] \in LooseWord
    BY <1>2
  <2> HIDE DEF new, words, wide
  <2>3. CASE w < d
    <3>1. new[w] = old[w]
      BY <1>1, <2>1, <2>2, <2>3
    <3> QED
      BY <1>1, <2>2, <2>3, <3>1
  <2>4. CASE w = d
    <3>1. new[w] = [old[w] EXCEPT !.width = @ + grown]
      BY <1>1, <2>1, <2>2, <2>4
    <3> QED
      BY <1>1, <1>5, <2>2, <2>4, <3>1 DEF LooseWord
  <2>5. CASE w > d
    <3>1. new[w] = [old[w] EXCEPT !.at = @ + grown]
      BY <1>1, <2>1, <2>2, <2>5
    <3> QED
      BY <1>1, <2>2, <2>5, <3>1 DEF LooseWord
  <2> QED
    BY <1>1, <2>2, <2>3, <2>4, <2>5
<1>7. DOMAIN new = DOMAIN old
  BY <1>3
<1> HIDE DEF new, word, words, wide
<1>8. ASSUME NEW w \in DOMAIN old, NEW v \in 1..(w - 1)
      PROVE  new[v].at + new[v].width <= new[w].at
  <2>1. /\ v \in DOMAIN old /\ v \in Nat /\ w \in Nat /\ v < w
        /\ old[v].at \in Nat /\ old[v].width \in Nat /\ old[w].at \in Nat
        /\ old[v].at + old[v].width <= old[w].at
    <3>1. v \in DOMAIN old
      BY <1>1, <1>2
    <3> QED
      BY <1>1, <1>2, <3>1
  <2>2. CASE w <= d
    <3>1. v < d
      BY <1>1, <2>1, <2>2
    <3>2. new[v].at = old[v].at /\ new[v].width = old[v].width /\ new[w].at = old[w].at
      BY <1>1, <1>6, <2>1, <2>2, <3>1
    <3> QED
      BY <2>1, <3>2
  <2>3. CASE w > d
    <3>1. new[w].at = old[w].at + grown
      BY <1>1, <1>6, <2>1, <2>3
    <3>2. CASE v < d
      <4>1. new[v].at = old[v].at /\ new[v].width = old[v].width
        BY <1>1, <1>6, <2>1, <3>2
      <4>2. v \in 1..(d - 1) /\ d \in 1..(w - 1)
        BY <1>1, <2>1, <2>3, <3>2
      <4>3. /\ old[v].at + old[v].width <= old[d].at /\ old[d].at + old[d].width <= old[w].at
            /\ old[d].at \in Nat /\ old[d].width \in Nat
        BY <1>1, <1>2, <4>2
      <4>4. old[w].at + grown >= old[d].at + DimsWidth(dims) /\ DimsWidth(dims) \in Nat
        <5>1. old[w].at \in Int /\ old[d].at \in Int /\ old[d].width \in Int /\ grown \in Int
          BY <1>5, <2>1, <4>3
        <5>2. \A a, b, x, g, n \in Int : b + g = n /\ a + b <= x => x + g >= a + n
          OBVIOUS
        <5>3. DimsWidth(dims) \in Nat
          BY <1>4
        <5> QED
          BY <1>5, <4>3, <5>1, <5>2, <5>3
      <4>5. new[v].at + new[v].width <= old[d].at
        BY <4>1, <4>3
      <4> DEFINE behind == new[v].at + new[v].width
                 place == new[w].at
                 grows == DimsWidth(dims)
      <4>6. place >= old[d].at + grows /\ grows \in Nat
        BY <3>1, <4>4
      <4>7. behind \in Int /\ place \in Int /\ old[d].at \in Int
        BY <1>5, <2>1, <3>1, <4>1, <4>3
      <4> HIDE DEF behind, place, grows
      <4>8. behind <= place
        <5>1. behind <= old[d].at
          BY <4>5 DEF behind
        <5> QED
          BY <4>6, <4>7, <5>1
      <4> QED
        BY <4>8 DEF behind, place
    <3>3. CASE v = d
      <4>1. new[v].at = old[v].at /\ new[v].width = DimsWidth(dims)
        BY <1>1, <1>6, <2>1, <3>3
      <4>2. old[v].width + grown = DimsWidth(dims)
        BY <1>5, <3>3
      <4> QED
        BY <1>4, <1>5, <2>1, <3>1, <4>1, <4>2
    <3>4. CASE v > d
      <4>1. new[v].at = old[v].at + grown /\ new[v].width = old[v].width
        BY <1>1, <1>6, <2>1, <3>4
      <4> QED
        BY <1>5, <2>1, <3>1, <4>1
    <3> QED
      BY <1>1, <2>1, <3>2, <3>3, <3>4
  <2> QED
    BY <1>1, <2>1, <2>2, <2>3
<1>9. ASSUME NEW w \in DOMAIN old
      PROVE  new[w].at >= 0 /\ new[w].width > 0
  <2>1. new[w].width > 0
    <3>1. old[w].width > 0 /\ DimsWidth(dims) > 0
      BY <1>2, <1>4
    <3>2. new[w].width = DimsWidth(dims) \/ new[w].width = old[w].width
      BY <1>6
    <3> QED
      BY <3>1, <3>2
  <2>2. CASE w <= d
    BY <1>2, <1>6, <2>1, <2>2
  <2>3. CASE w > d
    <3>1. d \in 1..(w - 1) /\ w \in Nat
      BY <1>1, <1>2, <2>3
    <3>2. old[d].at + old[d].width <= old[w].at /\ old[d].at \in Nat /\ old[d].width \in Nat
      BY <1>1, <1>2, <3>1
    <3>3. new[w].at = old[w].at + grown /\ old[w].at \in Nat
      BY <1>1, <1>2, <1>6, <2>3
    <3> QED
      BY <1>4, <1>5, <2>1, <3>2, <3>3
  <2> QED
    BY <1>1, <1>2, <2>1, <2>2, <2>3
<1>10. Snug(wide)
  <2>1. Has(wide, "dim") => wide.dims # <<>>
    <3>1. line.dims # <<>> /\ line.dims \in Seq(Dim)
      BY DEF Snug, IsLaidOut, LooseLine
    <3> QED
      BY <1>3, <3>1 DEF SameDims
  <2> QED
    BY <1>3, <1>7, <1>8, <1>9, <2>1 DEF Snug, IsLaidOut, WordEnd, new
<1>11. Indent(wide) = Indent(line)
  <2>1. 1 \in DOMAIN old /\ 1 <= d
    BY <1>1
  <2>2. wide.words # <<>> /\ line.words # <<>> /\ new[1].at = old[1].at
    BY <1>6, <1>7, <2>1 DEF new, old
  <2> QED
    BY <2>2 DEF Indent, new, old
<1>12. ASSUME NEW w \in DOMAIN old, w > 1
       PROVE  Gap(wide, w) = Gap(line, w)
  <2>1. /\ w \in Nat /\ w - 1 \in DOMAIN old /\ old[w].at \in Nat /\ old[w - 1].at \in Nat
        /\ old[w - 1].width \in Nat
    <3>1. w \in Nat /\ w - 1 \in DOMAIN old
      BY <1>1, <1>2, <1>12
    <3> QED
      BY <1>2, <3>1
  <2>2. /\ Gap(wide, w) = new[w].at - (new[w - 1].at + new[w - 1].width)
        /\ Gap(line, w) = old[w].at - (old[w - 1].at + old[w - 1].width)
    BY <1>12 DEF Gap, EndBefore, WordEnd, new, old
  <2> HIDE DEF Gap
  <2>3. CASE w <= d
    <3>1. w - 1 <= d /\ w - 1 # d
      BY <1>1, <2>1, <2>3
    <3>2. /\ new[w].at = old[w].at /\ new[w - 1].at = old[w - 1].at
          /\ new[w - 1].width = old[w - 1].width
      BY <1>6, <2>1, <2>3, <3>1
    <3> QED
      BY <2>2, <3>2
  <2>4. CASE w - 1 = d
    <3>1. w > d /\ w - 1 <= d
      BY <1>1, <2>1, <2>4
    <3>2. /\ new[w].at = old[w].at + grown /\ new[w - 1].at = old[w - 1].at
          /\ new[w - 1].width = DimsWidth(dims) /\ old[w - 1].width + grown = DimsWidth(dims)
      BY <1>1, <1>5, <1>6, <2>1, <2>4, <3>1
    <3> QED
      BY <1>4, <1>5, <2>1, <2>2, <3>2
  <2>5. CASE w - 1 > d
    <3>1. ~(w <= d) /\ ~(w - 1 <= d) /\ w - 1 # d
      BY <1>1, <2>1, <2>5
    <3>2. /\ new[w].at = old[w].at + grown /\ new[w - 1].at = old[w - 1].at + grown
          /\ new[w - 1].width = old[w - 1].width
      BY <1>6, <2>1, <3>1
    <3> QED
      BY <1>5, <2>1, <2>2, <3>2
  <2> QED
    BY <1>1, <2>1, <2>3, <2>4, <2>5
<1>13. \A w \in DOMAIN old : new[w].what = "dim" => new[w].width = DimsWidth(dims)
  BY <1>1, <1>6
<1> QED
  BY <1>3, <1>6, <1>7, <1>10, <1>11, <1>12, <1>13 DEF wide, new, old

LEMMA WithDimsStraight ==
  ASSUME NEW line \in LooseLine, NEW was, Straight(line, was), IsInOrder(line),
         Has(line, "dim"), NEW dims \in Seq(Dim), SameDims(dims, line.dims),
         SpacesCounted(dims)
  PROVE  Straight(WithDims(line, dims), was)
<1> DEFINE wide == WithDims(line, dims)
<1>1. /\ Snug(wide) /\ wide.dims = dims
      /\ DOMAIN wide.words = DOMAIN line.words /\ Indent(wide) = Indent(line)
      /\ \A w \in DOMAIN line.words :
           /\ wide.words[w].what = "dim" => wide.words[w].width = DimsWidth(dims)
           /\ w > 1 => Gap(wide, w) = Gap(line, w)
  BY WithDimsSnug DEF Straight
<1> HIDE DEF wide
<1>2. \A w \in DOMAIN wide.words : wide.words[w].at >= 0
  BY <1>1 DEF Snug, IsLaidOut
<1>3. \A w \in DOMAIN wide.words :
        w > 1 => Gap(wide, w) >= 0 /\ (Gap(was, w) > 0 => Gap(wide, w) > 0)
  <2>1. \A w \in DOMAIN line.words :
          w > 1 => Gap(line, w) >= 0 /\ (Gap(was, w) > 0 => Gap(line, w) > 0)
    BY DEF Straight, LaidOut
  <2> HIDE DEF Gap
  <2> QED
    BY <1>1, <2>1
<1>4. IsContinuationLine(was) \/ Indent(wide) = Indent(was)
  BY <1>1 DEF Straight, LaidOut
<1> QED
  BY <1>1, <1>2, <1>3, <1>4 DEF Straight, LaidOut, wide

\* Zero counts for the largest of numbers.
LEMMA MaxOfBounds ==
  ASSUME NEW n \in Nat, NEW G, G \subseteq 1..n, NEW f, \A k \in G : f[k] \in Int,
         NEW image, \A x \in image : \E k \in G : x = f[k], \A k \in G : f[k] \in image
  PROVE  MaxOf(image) \in Nat /\ \A k \in G : f[k] <= MaxOf(image)
<1> DEFINE H == G \cup {n + 1}
           g == [k \in H |-> IF k \in G THEN f[k] ELSE 0]
           wide == image \cup {0}
<1>1. n + 1 \in Nat /\ H \subseteq 1..(n + 1) /\ n + 1 \notin G
  OBVIOUS
<1>2. \A k \in H : g[k] \in Int
  OBVIOUS
<1>3. ASSUME NEW x \in wide
      PROVE  \E k \in H : x = g[k]
  <2>1. CASE x \in image
    <3>1. PICK k \in G : x = f[k]
      BY <2>1
    <3>2. k \in H /\ x = g[k]
      BY <3>1
    <3> QED
      BY <3>2
  <2>2. CASE x = 0
    <3>1. n + 1 \in H /\ g[n + 1] = 0
      BY <1>1
    <3> QED
      BY <2>2, <3>1
  <2> QED
    BY <2>1, <2>2
<1>4. \A k \in H : g[k] \in wide
  OBVIOUS
<1>5. n + 1 \in H /\ g[n + 1] = 0 /\ \A k \in G : k \in H /\ g[k] = f[k]
  BY <1>1
<1> HIDE DEF H, g, wide
<1>6. Max(wide) \in Int /\ \A k \in H : g[k] <= Max(wide)
  <2>1. /\ H # {} => Max(wide) \in wide /\ Max(wide) \in Int /\ Min(wide) \in Int
        /\ \A k \in H : Min(wide) <= g[k] /\ g[k] <= Max(wide)
    BY <1>1, <1>2, <1>3, <1>4, ImageBounds, Zenon
  <2> QED
    BY <1>5, <2>1
<1>7. MaxOf(image) = Max(wide)
  BY DEF MaxOf, wide
<1> QED
  BY <1>5, <1>6, <1>7

\* emitDimContent takes no spaces away from a dimension that is one of those it is
\* measured with.
LEMMA EmitDimContentCounted ==
  ASSUME NEW dim \in Dim, NEW n, NEW G, NEW of, NEW slot, Collected(slot, of, G, n),
         dim \in slot
  PROVE  LET emitted == EmitDimContent(dim, slot)
         IN  {emitted.lead, emitted.before, emitted.behind, emitted.tail} \subseteq Nat
<1> DEFINE gap == EmitColon(dim)
           front == [dim EXCEPT !.lead = 0]
           bare == [front EXCEPT !.tail = 0]
           spaced == SpacedBy(bare, gap, gap)
           written == DimWidth(spaced)
           ranges == {d \in slot : d.colon}
           fulls == {d.left + d.right + ColonWidth(d) : d \in slot}
           lefts == {d.left : d \in ranges}
           rights == {d.right : d \in ranges}
           maxFull == MaxOf(fulls)
           maxLeft == MaxOf(lefts)
           maxRight == MaxOf(rights)
           byColon == alignStyle.AlignColon /\ dim.colon
           short == IF byColon THEN maxRight - dim.right ELSE maxFull - written
           inFront == IF alignStyle.PadLeft THEN short ELSE 0
           lead == IF byColon THEN maxLeft - dim.left ELSE inFront
           behind == IF byColon THEN gap + inFront ELSE gap
           tail == IF alignStyle.PadRight /\ ~alignStyle.PadLeft THEN short ELSE 0
           colons == {l \in G : of[l].colon}
<1>1. dim.left \in Nat /\ dim.right \in Nat /\ dim.colon \in BOOLEAN
  BY DEF Dim
<1>2. gap \in Nat
  BY DEF EmitColon
<1>3. /\ n \in Nat /\ G \subseteq 1..n /\ \A l \in G : of[l] \in Dim
      /\ \A d \in slot : \E l \in G : d = of[l]
      /\ \A l \in G : of[l] \in slot
  BY DEF Collected
<1>4. PICK own \in G : dim = of[own]
  BY <1>3
<1>5. ColonWidth(dim) \in Nat /\ written <= dim.left + dim.right + ColonWidth(dim) /\ written \in Nat
  <2>1. /\ bare \in Dim /\ bare.colon = dim.colon /\ bare.left = dim.left
        /\ bare.right = dim.right /\ bare.lead = 0 /\ bare.tail = 0
    <3>1. /\ front \in Dim /\ front.colon = dim.colon /\ front.left = dim.left
          /\ front.right = dim.right /\ front.lead = 0
      BY DEF Dim
    <3> HIDE DEF front
    <3> QED
      BY <3>1 DEF Dim
  <2> HIDE DEF bare, gap
  <2>2. /\ dim.colon => /\ spaced.colon /\ spaced.left = dim.left /\ spaced.right = dim.right
                        /\ spaced.lead = 0 /\ spaced.tail = 0
                        /\ spaced.before = gap /\ spaced.behind = gap
        /\ ~dim.colon => spaced = bare
    BY <1>2, <2>1 DEF SpacedBy, Dim
  <2> HIDE DEF spaced
  <2>3. CASE dim.colon
    <3>1. written = dim.left + gap + 1 + gap + dim.right
      BY <1>1, <1>2, <2>2, <2>3 DEF DimWidth
    <3>2. ColonWidth(dim) = 1 + gap + gap
      BY <2>3 DEF ColonWidth, EmitColon, gap
    <3> HIDE DEF written
    <3> QED
      BY <1>1, <1>2, <3>1, <3>2
  <2>4. CASE ~dim.colon
    <3>1. written = dim.left
      BY <1>1, <2>1, <2>2, <2>4 DEF DimWidth
    <3>2. ColonWidth(dim) = 0
      BY <2>4 DEF ColonWidth
    <3> HIDE DEF written
    <3>3. written \in Nat /\ ColonWidth(dim) \in Nat
      BY <1>1, <3>1, <3>2
    <3>4. dim.left <= dim.left + dim.right + 0
      BY <1>1
    <3> QED
      BY <3>1, <3>2, <3>3, <3>4
  <2> QED
    BY <2>3, <2>4
<1>6. dim.left + dim.right + ColonWidth(dim) <= maxFull /\ maxFull \in Nat
  <2> DEFINE f == [l \in G |-> of[l].left + of[l].right + ColonWidth(of[l])]
  <2>1. \A l \in G : f[l] \in Int
    <3> TAKE l \in G
    <3>1. of[l].left \in Int /\ of[l].right \in Int
      BY <1>3 DEF Dim
    <3>2. ColonWidth(of[l]) \in Int
      BY DEF ColonWidth
    <3> QED
      BY <3>1, <3>2
  <2>2. /\ \A x \in fulls : \E l \in G : x = f[l]
        /\ \A l \in G : f[l] \in fulls
    BY <1>3
  <2>3. f[own] = dim.left + dim.right + ColonWidth(dim)
    BY <1>4
  <2> HIDE DEF f, fulls
  <2>4. maxFull \in Nat /\ \A l \in G : f[l] <= maxFull
    BY <1>3, <2>1, <2>2, MaxOfBounds, Zenon
  <2> QED
    BY <1>4, <2>3, <2>4
<1>7. colons \subseteq 1..n /\ (dim.colon => own \in colons)
  BY <1>3, <1>4
<1>8. maxLeft \in Nat /\ (dim.colon => dim.left <= maxLeft)
  <2> DEFINE f == [l \in colons |-> of[l].left]
  <2>1. \A l \in colons : f[l] \in Int
    BY <1>3 DEF Dim
  <2>2. /\ \A x \in lefts : \E l \in colons : x = f[l]
        /\ \A l \in colons : f[l] \in lefts
    BY <1>3
  <2>3. dim.colon => f[own] = dim.left
    BY <1>4, <1>7
  <2> HIDE DEF f, lefts, colons
  <2>4. maxLeft \in Nat /\ \A l \in colons : f[l] <= maxLeft
    BY <1>3, <1>7, <2>1, <2>2, MaxOfBounds, Zenon
  <2> QED
    BY <1>7, <2>3, <2>4
<1>9. maxRight \in Nat /\ (dim.colon => dim.right <= maxRight)
  <2> DEFINE f == [l \in colons |-> of[l].right]
  <2>1. \A l \in colons : f[l] \in Int
    BY <1>3 DEF Dim
  <2>2. \A x \in rights : \E l \in colons : x = f[l]
    BY <1>3
  <2>3. \A l \in colons : f[l] \in rights
    BY <1>3
  <2>4. dim.colon => f[own] = dim.right
    BY <1>4, <1>7
  <2> HIDE DEF f, rights, colons
  <2>5. maxRight \in Nat /\ \A l \in colons : f[l] <= maxRight
    BY <1>3, <1>7, <2>1, <2>2, <2>3, MaxOfBounds, Zenon
  <2> QED
    BY <1>7, <2>4, <2>5
<1> HIDE DEF gap, written, maxFull, maxLeft, maxRight
<1>10. short \in Nat
  <2>1. CASE byColon
    BY <1>1, <1>9, <2>1
  <2>2. CASE ~byColon
    BY <1>1, <1>5, <1>6, <2>2
  <2> QED
    BY <2>1, <2>2
<1>11. byColon => maxLeft - dim.left \in Nat
  BY <1>1, <1>8
<1> HIDE DEF short, byColon
<1>12. lead \in Nat /\ behind \in Nat /\ tail \in Nat
  BY <1>2, <1>10, <1>11
<1>13. EmitDimContent(dim, slot) =
         [dim EXCEPT !.lead = lead, !.before = gap, !.behind = behind, !.tail = tail]
  BY DEF EmitDimContent, gap, written, maxFull, maxLeft, maxRight, short, byColon
<1> HIDE DEF lead, behind, tail
<1> QED
  BY <1>2, <1>12, <1>13 DEF Dim

-----------------------------------------------------------------------------
(* What is known of a line that is taken for something. *)

\* A line that waits for a delay, and what looks as if it waits for something.
IsDelayed(line) == line.text = "TimingControl" /\ Has(line, "ident") /\ Has(line, "op")

IsTiming(line) == "TimingControl" \in {line.text, line.kind}

\* The positions that are used to pad a line are those of its words.
InfoFits(info, line) ==
  /\ info.indent = Indent(line)
  /\ \/ info.keywordWidth = 0
     \/ /\ Has(line, "keyword") /\ info.dimPos = Column(line, "dim")
        /\ info.keywordWidth = line.words[IndexOf(line, "keyword")].width
  /\ info.kind = "Declaration" /\ info.identPos > info.indent =>
       /\ Has(line, "ident") /\ info.identPos = Column(line, "ident")
       /\ info.typeWidth = info.identPos - info.indent
  /\ info.kind = "Continuation" => IsContinuationLine(line)
  /\ info.kind = "TimingControl" =>
       /\ IsTiming(line)
       /\ IsDelayed(line) => /\ info.identPos = Column(line, "ident")
                             /\ info.equalsPos = Column(line, "op")
                             /\ info.typeWidth = info.identPos - info.indent
  /\ StartsWith(line, "comment") => info.kind \in {"Comment", "Empty"}

\* What the text alone says.
LEMMA ClassifyLineFits ==
  ASSUME NEW line \in LooseLine, NEW formatOff
  PROVE  LET seen == ClassifyLine(line, formatOff)
             bare == {"Empty", "Comment", "PortListBoundary"}
         IN  /\ seen \in LooseInfo /\ seen.indent = Indent(line)
             /\ line.text \in bare => seen.kind = line.text
             /\ \/ seen.identPos = 0 /\ seen.keywordWidth = 0
                   /\ seen.kind \in bare \cup {"Other"}
                \/ /\ seen.kind = line.text /\ line.text \notin bare \cup {"Other"}
                   /\ seen.identPos = Column(line, "ident") /\ seen.equalsPos = Column(line, "op")
                   /\ line.text # "Assignment" => seen.typeWidth = seen.identPos - seen.indent
                   /\ \/ seen.keywordWidth = 0
                      \/ /\ Has(line, "keyword") /\ seen.dimPos = Column(line, "dim")
                         /\ seen.keywordWidth = line.words[IndexOf(line, "keyword")].width
             /\ seen.kind = line.text \/ (formatOff /\ seen.kind = "Other")
<1> DEFINE bare == {"Empty", "Comment", "PortListBoundary"}
           seen == ClassifyLine(line, formatOff)
           keyword == IF line.text = "Declaration" /\ Has(line, "keyword")
                      THEN line.words[IndexOf(line, "keyword")].width ELSE 0
           type == IF line.text = "Assignment" THEN 0 ELSE Column(line, "ident") - Indent(line)
           dimAt == IF line.text = "Declaration" THEN Column(line, "dim") ELSE npos
           full == [PlainInfo(line.text, line) EXCEPT
                      !.keywordWidth = keyword, !.typeWidth = type,
                      !.identPos = Column(line, "ident"), !.equalsPos = Column(line, "op"),
                      !.dimPos = dimAt]
           claim ==
             /\ seen.indent = Indent(line)
             /\ line.text \in bare => seen.kind = line.text
             /\ \/ seen.identPos = 0 /\ seen.keywordWidth = 0
                   /\ seen.kind \in bare \cup {"Other"}
                \/ /\ seen.kind = line.text /\ line.text \notin bare \cup {"Other"}
                   /\ seen.identPos = Column(line, "ident") /\ seen.equalsPos = Column(line, "op")
                   /\ line.text # "Assignment" => seen.typeWidth = seen.identPos - seen.indent
                   /\ \/ seen.keywordWidth = 0
                      \/ /\ Has(line, "keyword") /\ seen.dimPos = Column(line, "dim")
                         /\ seen.keywordWidth = line.words[IndexOf(line, "keyword")].width
             /\ seen.kind = line.text \/ (formatOff /\ seen.kind = "Other")
<1>1. seen \in LooseInfo
  BY ClassifyLineTypes DEF InfoOf
<1>2. ASSUME line.text \in bare
      PROVE  claim
  <2>1. seen = PlainInfo(line.text, line)
    BY <1>2 DEF ClassifyLine
  <2> HIDE DEF seen
  <2> QED
    BY <1>1, <1>2, <2>1 DEF PlainInfo
<1>3. ASSUME line.text = "Other" \/ (line.text \notin bare /\ formatOff)
      PROVE  claim
  <2>1. seen = PlainInfo("Other", line)
    BY <1>3 DEF ClassifyLine
  <2> HIDE DEF seen
  <2> QED
    BY <1>1, <1>3, <2>1 DEF PlainInfo
<1>4. ASSUME line.text \notin bare \cup {"Other"} /\ ~formatOff
      PROVE  claim
  <2>1. seen = full
    BY <1>4 DEF ClassifyLine
  <2> HIDE DEF keyword, type, dimAt
  <2>2. /\ full.kind = line.text /\ full.indent = Indent(line) /\ full.keywordWidth = keyword
        /\ full.typeWidth = type /\ full.identPos = Column(line, "ident")
        /\ full.equalsPos = Column(line, "op") /\ full.dimPos = dimAt
    BY DEF PlainInfo
  <2> HIDE DEF seen, full
  <2>3. keyword = 0 \/ (/\ Has(line, "keyword") /\ dimAt = Column(line, "dim")
                        /\ keyword = line.words[IndexOf(line, "keyword")].width)
    BY DEF keyword, dimAt
  <2>4. line.text # "Assignment" => type = full.identPos - full.indent
    BY <2>2 DEF type
  <2>5. /\ seen.kind = line.text /\ line.text \notin bare \cup {"Other"}
        /\ seen.identPos = Column(line, "ident") /\ seen.equalsPos = Column(line, "op")
        /\ line.text # "Assignment" => seen.typeWidth = seen.identPos - seen.indent
        /\ \/ seen.keywordWidth = 0
           \/ /\ Has(line, "keyword") /\ seen.dimPos = Column(line, "dim")
              /\ seen.keywordWidth = line.words[IndexOf(line, "keyword")].width
    BY <1>4, <2>1, <2>2, <2>3, <2>4
  <2> QED
    BY <1>1, <1>4, <2>1, <2>2, <2>5
<1> QED
  BY <1>1, <1>2, <1>3, <1>4

\* What the tree says replaces the kind, and finds the name of a declaration.
LEMMA MetadataFits ==
  ASSUME NEW line \in LooseLine, NEW info, InfoOf(info, line), NEW formatOff
  PROVE  LET read == ApplyLineMetadata(line, info, formatOff)
             declared == /\ ~formatOff /\ line.kind = "Declaration" /\ info.kind = "Other"
                         /\ Len(line.words) >= 2 /\ line.words[2].what = "ident"
         IN  /\ read \in LooseInfo /\ read.indent = info.indent
             /\ read.keywordWidth = info.keywordWidth /\ read.dimPos = info.dimPos
             /\ read.kind = IF formatOff \/ line.kind = "Other" THEN info.kind ELSE line.kind
             /\ read.identPos = IF declared THEN Column(line, "ident") ELSE info.identPos
             /\ read.typeWidth = IF declared THEN Column(line, "ident") - info.indent
                                 ELSE info.typeWidth
             /\ read.kind \notin {"PortConnection", "DistItem"} =>
                  read.equalsPos = info.equalsPos
<1> DEFINE deep == [info EXCEPT !.depth = line.depth, !.maxExcess = line.excess]
           named == Len(line.words) >= 2 /\ line.words[2].what = "ident"
           redone == line.kind = "Declaration" /\ info.kind = "Other"
           declared == ~formatOff /\ redone /\ named
           position == Column(line, "ident")
           width == position - deep.indent
           found == [deep EXCEPT !.typeWidth = width, !.identPos = position]
           chosen == IF redone THEN ReclassifyAsDeclaration(line, deep) ELSE deep
           told == [chosen EXCEPT !.kind = line.kind, !.metadataKind = TRUE]
           kept == IF formatOff \/ line.kind = "Other" THEN deep ELSE told
           column == Column(line, "op")
           last == IF kept.kind \in {"PortConnection", "DistItem"}
                   THEN [kept EXCEPT !.equalsPos = column] ELSE kept
           read == ApplyLineMetadata(line, info, formatOff)
<1>1. read = last /\ read \in LooseInfo
  BY MetadataTypes DEF ApplyLineMetadata, InfoOf
<1>2. /\ info \in LooseInfo /\ line.depth \in Nat /\ line.excess \in Nat /\ line.kind \in Kinds
      /\ position \in Int /\ column \in Int
  BY ColumnTypes DEF InfoOf, LooseLine
<1>3. /\ deep \in LooseInfo /\ deep.indent = info.indent /\ deep.kind = info.kind
      /\ deep.keywordWidth = info.keywordWidth /\ deep.dimPos = info.dimPos
      /\ deep.identPos = info.identPos /\ deep.typeWidth = info.typeWidth
      /\ deep.equalsPos = info.equalsPos
  BY <1>2 DEF LooseInfo
<1>4. chosen = IF redone /\ named THEN found ELSE deep
  BY DEF ReclassifyAsDeclaration
<1> HIDE DEF deep, chosen, position
<1>5. width \in Int
  BY <1>2, <1>3 DEF LooseInfo
<1> HIDE DEF width
<1>6. /\ found \in LooseInfo /\ found.indent = info.indent
      /\ found.keywordWidth = info.keywordWidth /\ found.dimPos = info.dimPos
      /\ found.identPos = position /\ found.typeWidth = width
      /\ found.equalsPos = info.equalsPos
  BY <1>2, <1>3, <1>5 DEF LooseInfo
<1> HIDE DEF found
<1>7. /\ chosen \in LooseInfo /\ chosen.indent = info.indent
      /\ chosen.keywordWidth = info.keywordWidth /\ chosen.dimPos = info.dimPos
      /\ chosen.identPos = IF redone /\ named THEN position ELSE info.identPos
      /\ chosen.typeWidth = IF redone /\ named THEN width ELSE info.typeWidth
      /\ chosen.equalsPos = info.equalsPos
  BY <1>3, <1>4, <1>6
<1> HIDE DEF redone, named
<1>8. /\ told \in LooseInfo /\ told.indent = chosen.indent
      /\ told.keywordWidth = chosen.keywordWidth /\ told.dimPos = chosen.dimPos
      /\ told.identPos = chosen.identPos /\ told.typeWidth = chosen.typeWidth
      /\ told.equalsPos = chosen.equalsPos /\ told.kind = line.kind
  BY <1>2, <1>7 DEF LooseInfo
<1> HIDE DEF told
<1>9. /\ kept \in LooseInfo /\ kept.indent = info.indent
      /\ kept.keywordWidth = info.keywordWidth /\ kept.dimPos = info.dimPos
      /\ kept.kind = IF formatOff \/ line.kind = "Other" THEN info.kind ELSE line.kind
      /\ kept.identPos = IF declared THEN position ELSE info.identPos
      /\ kept.typeWidth = IF declared THEN width ELSE info.typeWidth
      /\ kept.equalsPos = info.equalsPos
  <2>1. CASE formatOff \/ line.kind = "Other"
    <3>1. kept = deep /\ ~declared
      BY <2>1 DEF redone
    <3> HIDE DEF kept, declared
    <3> QED
      BY <1>3, <2>1, <3>1
  <2>2. CASE ~(formatOff \/ line.kind = "Other")
    <3>1. kept = told /\ (declared <=> redone /\ named)
      BY <2>2
    <3> HIDE DEF kept, declared
    <3> QED
      BY <1>7, <1>8, <2>2, <3>1
  <2> QED
    BY <2>1, <2>2
<1> HIDE DEF kept, declared, column
<1>10. /\ last.indent = kept.indent /\ last.kind = kept.kind
       /\ last.keywordWidth = kept.keywordWidth /\ last.dimPos = kept.dimPos
       /\ last.identPos = kept.identPos /\ last.typeWidth = kept.typeWidth
       /\ kept.kind \notin {"PortConnection", "DistItem"} => last.equalsPos = kept.equalsPos
  BY <1>2, <1>9 DEF LooseInfo
<1> HIDE DEF last, read
<1>11. width = position - info.indent
  BY <1>3 DEF width
<1> QED
  BY <1>1, <1>9, <1>10, <1>11 DEF read, declared, redone, named, position

LEMMA IndentCounted ==
  ASSUME NEW line \in LooseLine, Snug(line)
  PROVE  Indent(line) \in Nat
<1>1. CASE line.words = <<>>
  BY <1>1 DEF Indent
<1>2. CASE line.words # <<>>
  <2>1. 1 \in DOMAIN line.words
    BY <1>2 DEF LooseLine
  <2> QED
    BY <2>1, SnugFacts
<1> QED
  BY <1>1, <1>2

LEMMA ReadFits ==
  ASSUME NEW line \in LooseLine, Snug(line), IsInOrder(line), IsRecognised(line), NEW off
  PROVE  LET read == ApplyLineMetadata(line, ClassifyLine(line, off), off)
         IN  read \in LooseInfo /\ InfoFits(read, line) /\ read.kind # "Continuation"
<1> DEFINE bare == {"Empty", "Comment", "PortListBoundary"}
           seen == ClassifyLine(line, off)
           read == ApplyLineMetadata(line, seen, off)
           declared == /\ ~off /\ line.kind = "Declaration" /\ seen.kind = "Other"
                       /\ Len(line.words) >= 2 /\ line.words[2].what = "ident"
<1>1. /\ seen \in LooseInfo /\ seen.indent = Indent(line)
      /\ line.text \in bare => seen.kind = line.text
      /\ \/ seen.identPos = 0 /\ seen.keywordWidth = 0
            /\ seen.kind \in bare \cup {"Other"}
         \/ /\ seen.kind = line.text /\ line.text \notin bare \cup {"Other"}
            /\ seen.identPos = Column(line, "ident") /\ seen.equalsPos = Column(line, "op")
            /\ line.text # "Assignment" => seen.typeWidth = seen.identPos - seen.indent
            /\ \/ seen.keywordWidth = 0
               \/ /\ Has(line, "keyword") /\ seen.dimPos = Column(line, "dim")
                  /\ seen.keywordWidth = line.words[IndexOf(line, "keyword")].width
      /\ seen.kind = line.text \/ (off /\ seen.kind = "Other")
  BY ClassifyLineFits
<1>2. InfoOf(seen, line)
  BY ClassifyLineTypes
<1> HIDE DEF seen
<1>3. /\ read \in LooseInfo /\ read.indent = seen.indent
      /\ read.keywordWidth = seen.keywordWidth /\ read.dimPos = seen.dimPos
      /\ read.kind = IF off \/ line.kind = "Other" THEN seen.kind ELSE line.kind
      /\ read.identPos = IF declared THEN Column(line, "ident") ELSE seen.identPos
      /\ read.typeWidth = IF declared THEN Column(line, "ident") - seen.indent
                          ELSE seen.typeWidth
      /\ read.kind \notin {"PortConnection", "DistItem"} => read.equalsPos = seen.equalsPos
  BY <1>2, MetadataFits
<1> HIDE DEF read
<1>4. Indent(line) \in Nat /\ (Column(line, "ident") # npos => Has(line, "ident"))
  BY IndentCounted, ColumnTypes
<1>5. read.kind # "Continuation"
  <2>1. line.text # "Continuation" /\ line.kind # "Continuation"
    BY DEF IsRecognised
  <2> QED
    BY <1>1, <1>3, <2>1
<1>6. ASSUME read.kind = "Declaration", read.identPos > read.indent
      PROVE  /\ Has(line, "ident") /\ read.identPos = Column(line, "ident")
             /\ read.typeWidth = read.identPos - read.indent
  <2>1. CASE declared
    <3>1. 2 \in DOMAIN line.words /\ line.words[2].what = "ident"
      BY <2>1 DEF LooseLine
    <3>2. Has(line, "ident")
      BY <3>1 DEF Has
    <3> QED
      BY <1>3, <2>1, <3>2
  <2>2. CASE ~declared
    <3>1. read.identPos = seen.identPos /\ read.typeWidth = seen.typeWidth
      BY <1>3, <2>2
    <3>2. seen.identPos # 0
      BY <1>1, <1>3, <1>4, <1>6, <3>1
    <3>3. /\ seen.kind = line.text /\ line.text \notin bare \cup {"Other"}
          /\ seen.identPos = Column(line, "ident")
          /\ line.text # "Assignment" => seen.typeWidth = seen.identPos - seen.indent
      BY <1>1, <3>2
    <3>4. Has(line, "ident")
      BY <1>1, <1>3, <1>4, <1>6, <3>1, <3>3 DEF npos
    <3>5. line.text # "Assignment"
      <4> SUFFICES ASSUME line.text = "Assignment" PROVE FALSE
        OBVIOUS
      <4>1. line.kind = "Declaration"
        BY <1>3, <1>6, <3>3
      <4>2. StartsWith(line, "ident")
        BY <4>1 DEF IsRecognised
      <4>3. 1 \in DOMAIN line.words /\ line.words[1].what = "ident" /\ line.words # <<>>
        BY <4>2 DEF StartsWith, LooseLine
      <4>4. IndexOf(line, "ident") = 1
        BY <4>3, OrderFacts
      <4>5. Column(line, "ident") = Indent(line)
        BY <3>4, <4>3, <4>4 DEF Column, Indent
      <4> QED
        BY <1>1, <1>3, <1>4, <1>6, <3>1, <3>3, <4>5
    <3> QED
      BY <1>3, <3>1, <3>3, <3>4, <3>5
  <2> QED
    BY <2>1, <2>2
<1>7. ASSUME read.kind = "TimingControl"
      PROVE  /\ IsTiming(line)
             /\ IsDelayed(line) => /\ read.identPos = Column(line, "ident")
                                   /\ read.equalsPos = Column(line, "op")
                                   /\ read.typeWidth = read.identPos - read.indent
  <2>1. IsTiming(line)
    BY <1>1, <1>3, <1>7 DEF IsTiming
  <2>2. ASSUME IsDelayed(line)
        PROVE  /\ read.identPos = Column(line, "ident") /\ read.equalsPos = Column(line, "op")
               /\ read.typeWidth = read.identPos - read.indent
    <3>1. line.text = "TimingControl"
      BY <2>2 DEF IsDelayed
    <3>2. seen.kind = "TimingControl"
      BY <1>1, <1>3, <1>7, <3>1
    <3>3. ~declared
      BY <3>2
    <3> HIDE DEF declared
    <3> QED
      BY <1>1, <1>3, <1>7, <3>1, <3>2, <3>3
  <2> QED
    BY <2>1, <2>2
<1>8. StartsWith(line, "comment") => read.kind \in {"Comment", "Empty"}
  <2> SUFFICES ASSUME StartsWith(line, "comment") PROVE read.kind \in {"Comment", "Empty"}
    OBVIOUS
  <2>1. line.text = "Comment" /\ line.kind \in {"Comment", "Other"}
    BY DEF IsRecognised
  <2> QED
    BY <1>1, <1>3, <2>1
<1>9. \/ read.keywordWidth = 0
      \/ /\ Has(line, "keyword") /\ read.dimPos = Column(line, "dim")
         /\ read.keywordWidth = line.words[IndexOf(line, "keyword")].width
  BY <1>1, <1>3
<1> HIDE DEF declared
<1> QED
  BY <1>1, <1>3, <1>5, <1>6, <1>7, <1>8, <1>9 DEF InfoFits, read, seen

\* Lines that are laid out and in order are taken for what they are.
LEMMA ClassifyFits ==
  ASSUME NEW ls \in Seq(LooseLine),
         \A k \in DOMAIN ls : Snug(ls[k]) /\ IsInOrder(ls[k]) /\ IsRecognised(ls[k])
  PROVE  \A k \in DOMAIN ls : InfoFits(ClassifyLines(ls)[k], ls[k])
<1> DEFINE off == FormatOff(ls)
           seen(k) == ApplyLineMetadata(ls[k], ClassifyLine(ls[k], off[k]), off[k])
           carried(k) == [seen(k) EXCEPT !.kind = "Continuation", !.typeWidth = 0,
                              !.keywordWidth = 0, !.dimPos = npos,
                              !.identPos = Indent(ls[k]), !.equalsPos = Column(ls[k], "op")]
<1>1. \A k \in DOMAIN ls :
        \/ ClassifyLines(ls)[k] = seen(k)
        \/ IsContinuationLine(ls[k]) /\ ClassifyLines(ls)[k] = carried(k)
  BY DEF ClassifyLines, seen
<1> SUFFICES ASSUME NEW k \in DOMAIN ls
             PROVE  InfoFits(ClassifyLines(ls)[k], ls[k])
  OBVIOUS
<1>2. seen(k) \in LooseInfo /\ InfoFits(seen(k), ls[k])
  <2>1. ls[k] \in LooseLine
    OBVIOUS
  <2> QED
    BY <2>1, ReadFits
<1> DEFINE info == seen(k)
           indent == Indent(ls[k])
           column == Column(ls[k], "op")
<1>3. ASSUME IsContinuationLine(ls[k])
      PROVE  InfoFits(carried(k), ls[k])
  <2>1. carried(k) = [info EXCEPT !.kind = "Continuation", !.typeWidth = 0,
                              !.keywordWidth = 0, !.dimPos = npos,
                              !.identPos = indent, !.equalsPos = column]
    OBVIOUS
  <2>2. ~StartsWith(ls[k], "comment")
    BY <1>3 DEF IsContinuationLine, StartsWith
  <2> HIDE DEF carried, info, indent, column
  <2>3. info \in LooseInfo /\ info.indent = Indent(ls[k])
    BY <1>2 DEF info, InfoFits
  <2>4. /\ carried(k).kind = "Continuation" /\ carried(k).keywordWidth = 0
        /\ carried(k).indent = info.indent
    BY <2>1, <2>3 DEF LooseInfo
  <2> QED
    BY <1>3, <2>2, <2>3, <2>4 DEF InfoFits
<1> HIDE DEF seen, carried
<1> QED
  BY <1>1, <1>2, <1>3

-----------------------------------------------------------------------------
(* The groups keep the layout. *)

\* The lines of a pass as the groups need them.
Arranged ==
  \A k \in DOMAIN lines :
    /\ Straight(lines[k], text[k]) /\ InfoFits(infos[k], lines[k])
    /\ IsInOrder(lines[k]) /\ HasNamesApart(lines[k])
    /\ IsContinuationLine(lines[k]) => IsContinuationLine(text[k])
    /\ lines[k].text = "TimingControl" => ~StartsWith(lines[k], "ident")

LEMMA OperatorStraight ==
  ASSUME Ready, Arranged, NEW k \in DOMAIN lines, NEW j \in DOMAIN lines,
         infos[k].equalsPos # npos, infos[k].equalsPos <= infos[j].equalsPos
  PROVE  Straight(MoveTo(lines[k], "op", infos[j].equalsPos), text[k])
<1>1. /\ lines[k] \in LooseLine /\ Has(lines[k], "op")
      /\ infos[k].equalsPos = Column(lines[k], "op") /\ infos[j].equalsPos \in Int
  <2>1. infos[j] \in LooseInfo
    BY ReadyFacts
  <2> QED
    BY <2>1, ReadyFacts DEF LooseInfo
<1>2. Straight(lines[k], text[k]) /\ IsInOrder(lines[k])
  BY DEF Arranged
<1>3. IndexOf(lines[k], "op") > 1
  BY <1>1, <1>2, OrderFacts
<1> QED
  BY <1>1, <1>2, <1>3, MoveToRight

LEMMA PortConnectionsStraight ==
  ASSUME Ready, Arranged, NEW group \in SUBSET (DOMAIN lines), NEW ctx, NEW k \in group
  PROVE  Straight(GroupPortConnections(group, ctx)[k], text[k])
<1>1. CASE GroupPortConnections(group, ctx)[k] = lines[k]
  BY <1>1 DEF Arranged
<1>2. CASE GroupPortConnections(group, ctx)[k] # lines[k]
  <2>1. PICK j \in group :
          /\ infos[k].equalsPos # npos /\ infos[k].equalsPos <= infos[j].equalsPos
          /\ GroupPortConnections(group, ctx)[k] = MoveTo(lines[k], "op", infos[j].equalsPos)
    BY <1>2, PortConnectionsPadded
  <2> QED
    BY <2>1, OperatorStraight
<1> QED
  BY <1>1, <1>2

LEMMA AssignmentsStraight ==
  ASSUME Ready, Arranged, NEW group \in SUBSET (DOMAIN lines), NEW ctx, NEW k \in group
  PROVE  Straight(GroupAssignments(group, ctx)[k], text[k])
<1>1. CASE GroupAssignments(group, ctx)[k] = lines[k]
  BY <1>1 DEF Arranged
<1>2. CASE GroupAssignments(group, ctx)[k] # lines[k]
  <2>1. PICK j \in group :
          /\ infos[k].equalsPos # npos /\ infos[k].equalsPos <= infos[j].equalsPos
          /\ GroupAssignments(group, ctx)[k] = MoveTo(lines[k], "op", infos[j].equalsPos)
    BY <1>2, AssignmentsPadded
  <2> QED
    BY <2>1, OperatorStraight
<1> QED
  BY <1>1, <1>2

\* A comment moves to where at least one space is left behind the code.
LEMMA TrailingCommentsStraight ==
  ASSUME Ready, Arranged, style.SpacesBeforeTrailingComments > 0,
         NEW group \in SUBSET (DOMAIN lines), NEW k \in group
  PROVE  Straight(GroupTrailingComments(group)[k], text[k])
<1> DEFINE commented == {l \in group : /\ infos[l].kind \notin {"Comment", "Empty"}
                                       /\ Has(lines[l], "comment")}
           End(l) == CodeEnd(lines[l]) + style.SpacesBeforeTrailingComments
           ends == {End(l) : l \in commented}
           column == MaxOf(ends)
           w == IndexOf(lines[k], "comment")
<1>1. Len(lines) \in Nat /\ commented \subseteq 1..Len(lines)
  BY GroupNumbers
<1>2. \A l \in DOMAIN lines : lines[l] \in LooseLine /\ Snug(lines[l])
  BY ReadyFacts DEF Arranged, Straight
<1>3. style.SpacesBeforeTrailingComments \in Nat
  BY DEF Ready, Style
<1>4. \A l \in commented : End(l) \in Int
  <2> TAKE l \in commented
  <2>1. EndBefore(lines[l], IndexOf(lines[l], "comment")) \in Nat
    BY <1>2, IndexOfProperties, SnugFacts
  <2> QED
    BY <1>3, <2>1 DEF CodeEnd
<1>5. column \in Nat /\ \A l \in commented : End(l) <= column
  <2> DEFINE f == [l \in commented |-> End(l)]
  <2>1. /\ \A x \in ends : \E l \in commented : x = f[l]
        /\ \A l \in commented : f[l] \in ends
        /\ \A l \in commented : f[l] \in Int
    BY <1>4
  <2>2. \A l \in commented : f[l] = End(l)
    OBVIOUS
  <2> HIDE DEF f, commented, ends, End
  <2>3. column \in Nat /\ \A l \in commented : f[l] <= column
    BY <1>1, <2>1, MaxOfBounds, Zenon
  <2> QED
    BY <2>2, <2>3
<1> HIDE DEF column
<1>6. ASSUME k \in commented
      PROVE  Straight(MoveTo(lines[k], "comment", column), text[k])
  <2>1. /\ w \in DOMAIN lines[k].words /\ lines[k].words[w].what = "comment"
        /\ Has(lines[k], "comment")
    BY <1>6, IndexOfProperties
  <2>2. EndBefore(lines[k], w) \in Nat /\ w \in Nat \ {0}
    BY <1>2, <2>1, SnugFacts
  <2>3. column > EndBefore(lines[k], w)
    <3>1. End(k) = EndBefore(lines[k], w) + style.SpacesBeforeTrailingComments
      BY DEF CodeEnd
    <3>2. End(k) <= column /\ column \in Nat
      BY <1>5, <1>6
    <3> HIDE DEF End, w
    <3> QED
      BY <1>3, <2>2, <3>1, <3>2
  <2>4. w # 1
    <3> SUFFICES ASSUME w = 1 PROVE FALSE
      OBVIOUS
    <3>1. StartsWith(lines[k], "comment")
      BY <2>1 DEF StartsWith
    <3>2. InfoFits(infos[k], lines[k])
      BY DEF Arranged
    <3> QED
      BY <1>6, <3>1, <3>2 DEF InfoFits
  <2>5. MoveTo(lines[k], "comment", column) = MoveWord(lines[k], w, column)
    BY <2>1 DEF MoveTo
  <2>6. Straight(lines[k], text[k])
    BY DEF Arranged
  <2> HIDE DEF w
  <2>7. Straight(MoveWord(lines[k], w, column), text[k])
    BY <1>2, <1>5, <2>1, <2>2, <2>3, <2>4, <2>6, MoveStraight
  <2> QED
    BY <2>5, <2>7
<1>7. \/ GroupTrailingComments(group)[k] = lines[k]
      \/ /\ k \in commented
         /\ GroupTrailingComments(group)[k] = MoveTo(lines[k], "comment", column)
  BY DEF GroupTrailingComments, column
<1>8. Straight(lines[k], text[k])
  BY DEF Arranged
<1> HIDE DEF commented
<1> QED
  BY <1>6, <1>7, <1>8

LEMMA OrderKept ==
  ASSUME NEW a \in LooseLine, NEW b \in LooseLine, Kept(a, b), IsInOrder(b)
  PROVE  IsInOrder(a)
<1>1. /\ DOMAIN a.words = DOMAIN b.words /\ DOMAIN a.words = 1..Len(a.words)
      /\ Len(a.words) \in Nat /\ \A w \in DOMAIN a.words : a.words[w].what = b.words[w].what
  BY DEF Kept, LooseLine
<1>2. ASSUME NEW w \in DOMAIN a.words
      PROVE  {a.words[v].what : v \in 1..(w - 1)} = {b.words[v].what : v \in 1..(w - 1)}
  <2>1. \A v \in 1..(w - 1) : a.words[v].what = b.words[v].what
    BY <1>1
  <2> QED
    BY <2>1
<1> QED
  BY <1>1, <1>2 DEF IsInOrder

\* Dimensions move to the widest column, and are written no narrower than they need.
LEMMA PackedDimensionsStraight ==
  ASSUME Ready, Arranged, NEW group \in SUBSET (DOMAIN lines), NEW ctx, NEW k \in group
  PROVE  Straight(GroupPackedDimensions(group, ctx)[k], text[k])
<1> DEFINE decls == {l \in group : infos[l].kind = "Declaration"}
           dimmed == {l \in decls : infos[l].dimPos # npos}
           columns == {infos[l].dimPos : l \in dimmed}
           names == {infos[l].identPos : l \in decls \ dimmed}
           maxDimCol == MaxOf(columns \cup names)
           Slot(j) == {lines[l].dims[j] : l \in {m \in dimmed : j \in DOMAIN lines[m].dims}}
           moved == MoveTo(lines[k], "dim", maxDimCol)
           rewritten == WithDims(moved, [j \in DOMAIN moved.dims |->
                                           EmitDimContent(moved.dims[j], Slot(j))])
<1>1. /\ lines[k] \in LooseLine /\ Straight(lines[k], text[k]) /\ IsInOrder(lines[k])
      /\ k \in DOMAIN lines
  BY ReadyFacts DEF Arranged
<1>2. Len(lines) \in Nat /\ decls \subseteq 1..Len(lines)
  BY GroupNumbers
<1>3. maxDimCol \in Nat /\ (k \in dimmed => infos[k].dimPos <= maxDimCol)
  <2> DEFINE f == [l \in decls |-> IF infos[l].dimPos # npos THEN infos[l].dimPos
                                   ELSE infos[l].identPos]
             image == columns \cup names
  <2>1. \A l \in decls : f[l] \in Int
    <3> TAKE l \in decls
    <3>1. infos[l] \in LooseInfo
      BY ReadyFacts
    <3> QED
      BY <3>1 DEF LooseInfo
  <2>2. \A x \in image : \E l \in decls : x = f[l]
    OBVIOUS
  <2>3. \A l \in decls : f[l] \in image
    OBVIOUS
  <2>4. k \in dimmed => k \in decls /\ f[k] = infos[k].dimPos
    OBVIOUS
  <2> HIDE DEF f, image, decls
  <2>5. MaxOf(image) \in Nat /\ \A l \in decls : f[l] <= MaxOf(image)
    BY <1>2, <2>1, <2>2, <2>3, MaxOfBounds, Zenon
  <2> HIDE DEF dimmed
  <2> QED
    BY <2>4, <2>5 DEF image
<1> HIDE DEF maxDimCol
<1>4. ASSUME k \in dimmed
      PROVE  Straight(moved, text[k]) /\ Straight(rewritten, text[k])
  <2>1. Has(lines[k], "dim") /\ infos[k].dimPos = Column(lines[k], "dim")
    <3>1. InfoOf(infos[k], lines[k]) /\ infos[k].dimPos # npos
      BY <1>4 DEF Ready
    <3> QED
      BY <3>1, ReadyFacts DEF InfoOf
  <2> DEFINE d == IndexOf(lines[k], "dim")
  <2>2. d \in DOMAIN lines[k].words /\ d > 1
    BY <1>1, <2>1, IndexOfProperties, OrderFacts
  <2>3. /\ Straight(moved, text[k]) /\ moved = MoveWord(lines[k], d, maxDimCol)
        /\ maxDimCol >= EndBefore(lines[k], d)
    <3>1. maxDimCol >= Column(lines[k], "dim")
      BY <1>3, <1>4, <2>1
    <3> QED
      BY <1>1, <1>3, <2>1, <2>2, <3>1, MoveToRight
  <2>4. /\ Kept(moved, lines[k]) /\ moved \in LooseLine /\ moved.dims = lines[k].dims
        /\ IsInOrder(moved) /\ Has(moved, "dim")
    <3>1. Kept(moved, lines[k])
      BY <1>1, <1>3, MoveToKept
    <3> HIDE DEF d
    <3>2. moved.dims = lines[k].dims
      BY <1>1, <1>3, <2>2, <2>3, MoveWordSnug DEF Straight
    <3> HIDE DEF moved
    <3>3. moved \in LooseLine
      BY <3>1 DEF Kept
    <3> QED
      BY <1>1, <2>1, <3>1, <3>2, <3>3, OrderKept, KeptHas
  <2> HIDE DEF moved, d
  <2> DEFINE dims == [j \in DOMAIN moved.dims |-> EmitDimContent(moved.dims[j], Slot(j))]
  <2>5. ASSUME NEW j \in DOMAIN moved.dims
        PROVE  /\ dims[j] \in Dim /\ dims[j].colon = moved.dims[j].colon
               /\ dims[j].left = moved.dims[j].left /\ dims[j].right = moved.dims[j].right
               /\ {dims[j].lead, dims[j].before, dims[j].behind, dims[j].tail} \subseteq Nat
    <3> DEFINE G == {m \in dimmed : j \in DOMAIN lines[m].dims}
               of == [l \in G |-> lines[l].dims[j]]
               slot == Slot(j)
    <3>1. G \subseteq 1..Len(lines)
      BY <1>2
    <3>2. \A l \in G : of[l] \in Dim
      <4> TAKE l \in G
      <4>1. lines[l].dims \in Seq(Dim)
        <5>1. lines[l] \in LooseLine
          BY ReadyFacts
        <5> QED
          BY <5>1 DEF LooseLine
      <4> QED
        BY <4>1
    <3>3. \A x \in slot : \E l \in G : x = of[l]
      OBVIOUS
    <3>4. \A l \in G : of[l] \in slot
      OBVIOUS
    <3>5. moved.dims[j] \in Dim
      <4>1. moved.dims \in Seq(Dim)
        BY <2>4 DEF LooseLine
      <4> QED
        BY <2>5, <4>1
    <3>6. moved.dims[j] \in slot
      <4>1. k \in G
        BY <1>4, <2>4, <2>5
      <4> QED
        BY <2>4, <4>1
    <3>7. dims[j] = EmitDimContent(moved.dims[j], slot)
      BY <2>5
    <3> HIDE DEF dims, G, of, slot
    <3>8. Collected(slot, of, G, Len(lines))
      BY <1>2, <3>1, <3>2, <3>3, <3>4 DEF Collected
    <3>9. /\ dims[j] \in Dim /\ dims[j].colon = moved.dims[j].colon
          /\ dims[j].left = moved.dims[j].left /\ dims[j].right = moved.dims[j].right
      BY <3>5, <3>7, <3>8, EmitDimContentSame
    <3>10. {dims[j].lead, dims[j].before, dims[j].behind, dims[j].tail} \subseteq Nat
      BY <3>5, <3>6, <3>7, <3>8, EmitDimContentCounted
    <3> QED
      BY <3>9, <3>10
  <2>6. rewritten = WithDims(moved, dims)
    OBVIOUS
  <2>7. dims \in Seq(Dim) /\ SameDims(dims, moved.dims) /\ SpacesCounted(dims)
    <3>1. moved.dims \in Seq(Dim)
      BY <2>4 DEF LooseLine
    <3>2. DOMAIN dims = 1..Len(moved.dims) /\ Len(moved.dims) \in Nat
          /\ DOMAIN moved.dims = 1..Len(moved.dims)
      BY <3>1
    <3> HIDE DEF Slot
    <3>3. dims = [j \in 1..Len(moved.dims) |-> dims[j]]
      BY <3>2
    <3> HIDE DEF dims
    <3>4. dims \in Seq(Dim) /\ Len(dims) = Len(moved.dims)
      <4>1. \A j \in 1..Len(moved.dims) : dims[j] \in Dim
        BY <2>5, <3>2
      <4> DEFINE m == Len(moved.dims)
      <4>2. m \in Nat /\ dims = [j \in 1..m |-> dims[j]] /\ \A j \in 1..m : dims[j] \in Dim
        BY <3>2, <3>3, <4>1
      <4> HIDE DEF m
      <4>3. dims \in Seq(Dim) /\ Len(dims) = m
        BY <4>2
      <4> QED
        BY <4>3 DEF m
    <3>5. SameDims(dims, moved.dims)
      BY <2>5, <3>2, <3>4 DEF SameDims
    <3>6. SpacesCounted(dims)
      BY <2>5, <3>2 DEF SpacesCounted
    <3> QED
      BY <3>4, <3>5, <3>6
  <2> HIDE DEF dims, rewritten
  <2>8. Straight(rewritten, text[k])
    BY <2>3, <2>4, <2>6, <2>7, WithDimsStraight
  <2> QED
    BY <2>3, <2>8
<1>5. \/ GroupPackedDimensions(group, ctx)[k] = lines[k]
      \/ k \in dimmed /\ GroupPackedDimensions(group, ctx)[k] \in {moved, rewritten}
  BY DEF GroupPackedDimensions, moved, maxDimCol
<1> HIDE DEF rewritten, moved, dimmed
<1> QED
  BY <1>1, <1>4, <1>5

\* Of lines that wait for something, all wait for a delay, or there is one only.
DelaysOnly(ls) ==
  \A j \in DOMAIN ls : \A k \in DOMAIN ls \ {j} :
    IsTiming(ls[j]) /\ IsTiming(ls[k]) => IsDelayed(ls[j])

\* Where there are two members there is another one.
LEMMA AnotherMember ==
  ASSUME NEW S, NEW k \in S, ~(Cardinality(S) < 2)
  PROVE  \E j \in S : j # k
<1> SUFFICES ASSUME \A j \in S : j = k PROVE FALSE
  OBVIOUS
<1>1. S = {k}
  OBVIOUS
<1>2. Cardinality({k}) = 1
  BY FS_Singleton
<1> QED
  BY <1>1, <1>2

\* The names of lines that wait for a delay move behind the longest delay, their
\* operators behind the longest name.
LEMMA TimingControlsStraight ==
  ASSUME Ready, Arranged, DelaysOnly(lines), NEW group \in SUBSET (DOMAIN lines),
         NEW k \in group
  PROVE  Straight(GroupTimingControls(group)[k], text[k])
<1> DEFINE timed == {l \in group : infos[l].kind = "TimingControl"}
           widths == {infos[l].typeWidth : l \in timed}
           maxTypeWidth == MaxOf(widths)
           Target(l) == infos[l].indent + maxTypeWidth
           Equals(l) == infos[l].equalsPos + Target(l) - infos[l].identPos
           ends == {Equals(l) : l \in timed}
           maxEqualsCol == Max(ends)
           named == MoveTo(lines[k], "ident", Target(k))
           line == lines[k]
           w == IndexOf(lines[k], "ident")
           v == IndexOf(lines[k], "op")
<1>1. /\ line \in LooseLine /\ Straight(line, text[k]) /\ IsInOrder(line)
      /\ line.text = "TimingControl" => ~StartsWith(line, "ident")
  BY ReadyFacts DEF Arranged
<1>2. CASE k \notin timed \/ Cardinality(timed) < 2
  <2>1. GroupTimingControls(group)[k] = lines[k]
    BY <1>2 DEF GroupTimingControls
  <2> QED
    BY <1>1, <2>1
<1>3. CASE ~(k \notin timed \/ Cardinality(timed) < 2)
  <2>1. Len(lines) \in Nat /\ timed \subseteq 1..Len(lines) /\ k \in timed
    BY <1>3, GroupNumbers
  <2>2. \A l \in timed : /\ infos[l].typeWidth \in Int /\ infos[l].indent \in Int
                         /\ infos[l].equalsPos \in Int /\ infos[l].identPos \in Int
    <3> TAKE l \in timed
    <3>1. infos[l] \in LooseInfo
      BY ReadyFacts
    <3> QED
      BY <3>1 DEF LooseInfo
  <2>3. IsDelayed(line)
    <3>1. PICK j \in timed : j # k
      <4> HIDE DEF timed
      <4> QED
        BY <1>3, <2>1, AnotherMember
    <3>2. IsTiming(lines[k]) /\ IsTiming(lines[j])
      BY <2>1 DEF Arranged, InfoFits
    <3> QED
      BY <2>1, <3>1, <3>2 DEF DelaysOnly
  <2>4. /\ infos[k].identPos = Column(line, "ident") /\ infos[k].equalsPos = Column(line, "op")
        /\ infos[k].typeWidth = infos[k].identPos - infos[k].indent
    BY <2>1, <2>3 DEF Arranged, InfoFits
  <2>5. maxTypeWidth \in Int /\ infos[k].typeWidth <= maxTypeWidth
    <3> DEFINE f == [l \in timed |-> infos[l].typeWidth]
    <3>1. /\ \A x \in widths : \E l \in timed : x = f[l]
          /\ \A l \in timed : f[l] \in widths
          /\ \A l \in timed : f[l] \in Int
      BY <2>2
    <3>2. f[k] = infos[k].typeWidth
      BY <2>1
    <3> HIDE DEF f, timed, widths
    <3>3. MaxOf(widths) \in Nat /\ \A l \in timed : f[l] <= MaxOf(widths)
      BY <2>1, <3>1, MaxOfBounds, Zenon
    <3> QED
      BY <2>1, <3>2, <3>3
  <2> HIDE DEF maxTypeWidth
  <2>6. \A l \in timed : Target(l) \in Int /\ Equals(l) \in Int
    BY <2>2, <2>5
  <2>7. Target(k) >= Column(line, "ident")
    BY <2>1, <2>2, <2>4, <2>5
  <2>8. Equals(k) = Column(line, "op") + Target(k) - Column(line, "ident")
    BY <2>4
  <2> HIDE DEF Target, Equals
  <2>9. maxEqualsCol \in Int /\ Equals(k) <= maxEqualsCol
    <3> DEFINE f == [l \in timed |-> Equals(l)]
    <3>1. /\ \A x \in ends : \E l \in timed : x = f[l]
          /\ \A l \in timed : f[l] \in ends
          /\ \A l \in timed : f[l] \in Int
      BY <2>6
    <3>2. f[k] = Equals(k)
      BY <2>1
    <3> HIDE DEF f, timed, ends
    <3>3. /\ timed # {} => Max(ends) \in ends /\ Max(ends) \in Int /\ Min(ends) \in Int
          /\ \A l \in timed : Min(ends) <= f[l] /\ f[l] <= Max(ends)
      BY <2>1, <3>1, ImageBounds, Zenon
    <3> QED
      BY <2>1, <3>2, <3>3
  <2> HIDE DEF maxEqualsCol
  <2>10. /\ Has(line, "ident") /\ Has(line, "op") /\ w \in DOMAIN line.words
         /\ w \in Nat /\ w > 1 /\ v \in Nat /\ w < v
         /\ line.words[w].at = Column(line, "ident") /\ line.words[w].at \in Nat
    <3>1. Has(line, "ident") /\ Has(line, "op") /\ w \in DOMAIN line.words /\ v \in DOMAIN line.words
          /\ line.words[w].what = "ident" /\ line.text = "TimingControl"
      BY <2>3, IndexOfProperties DEF IsDelayed
    <3>2. w \in Nat \ {0} /\ v \in Nat \ {0} /\ line.words[w].at \in Nat
      BY <1>1, <3>1, SnugFacts DEF Straight
    <3>3. w < v
      BY <1>1, <3>1, OrderFacts
    <3>4. w # 1
      <4> SUFFICES ASSUME w = 1 PROVE FALSE
        OBVIOUS
      <4>1. StartsWith(line, "ident")
        BY <3>1 DEF StartsWith
      <4> QED
        BY <1>1, <3>1, <4>1
    <3>5. line.words[w].at = Column(line, "ident")
      BY <3>1 DEF Column
    <3> HIDE DEF w, v, line
    <3> QED
      BY <3>1, <3>2, <3>3, <3>4, <3>5
  <2> HIDE DEF line, timed
  <2>11. /\ Straight(named, text[k]) /\ named = MoveWord(line, w, Target(k))
         /\ Target(k) >= EndBefore(line, w)
    BY <1>1, <2>1, <2>6, <2>7, <2>10, MoveToRight DEF line
  <2>12. /\ Has(named, "op") /\ IndexOf(named, "op") = v
         /\ Column(named, "op") = Equals(k)
    <3>1. Has(named, "op") /\ IndexOf(named, "op") = v
          /\ Column(named, "op") = IF v < w THEN Column(line, "op")
                                   ELSE Column(line, "op") + Target(k) - line.words[w].at
      BY <1>1, <2>1, <2>6, <2>10, <2>11, ShiftedColumn DEF Straight, line
    <3> HIDE DEF named, w, v
    <3> QED
      BY <2>8, <2>10, <3>1
  <2>13. named \in LooseLine
    BY <1>1, <2>1, <2>6, <2>10, <2>11, MoveWordSnug DEF Straight
  <2> HIDE DEF named, w, v
  <2>14. Straight(MoveTo(named, "op", maxEqualsCol), text[k])
    BY <2>9, <2>10, <2>11, <2>12, <2>13, MoveToRight
  <2>15. infos[k].equalsPos # npos
    <3>1. Column(line, "op") \in Nat
      <4>1. Column(line, "op") = line.words[v].at /\ v \in DOMAIN line.words
        BY <2>10, IndexOfProperties DEF Column, v, line
      <4> QED
        BY <1>1, <4>1, SnugFacts DEF Straight
    <3> QED
      BY <2>4, <3>1 DEF npos
  <2>16. GroupTimingControls(group)[k] = MoveTo(named, "op", maxEqualsCol)
    BY <1>3, <2>15 DEF GroupTimingControls, maxEqualsCol, Equals, Target, maxTypeWidth, named, timed
  <2> QED
    BY <2>14, <2>16
<1> QED
  BY <1>2, <1>3

\* A name that moves to where it stays apart from what precedes it takes its operator
\* along.
LEMMA NameMoves ==
  ASSUME NEW line \in LooseLine, NEW was, Straight(line, was), IsInOrder(line),
         Has(line, "ident"), IndexOf(line, "ident") > 1, NEW target \in Int,
         target > EndBefore(line, IndexOf(line, "ident"))
  PROVE  LET named == MoveTo(line, "ident", target)
         IN  /\ named \in LooseLine /\ Straight(named, was)
             /\ Has(line, "op") =>
                  /\ Has(named, "op") /\ IndexOf(named, "op") > 1
                  /\ Column(named, "op") = Column(line, "op") + target - Column(line, "ident")
<1> DEFINE w == IndexOf(line, "ident")
           v == IndexOf(line, "op")
           named == MoveWord(line, w, target)
<1>1. /\ w \in DOMAIN line.words /\ Column(line, "ident") = line.words[w].at
      /\ MoveTo(line, "ident", target) = named
  BY IndexOfProperties DEF Column, MoveTo
<1>2. w \in Nat /\ EndBefore(line, w) \in Nat
  BY <1>1, SnugFacts DEF Straight
<1> HIDE DEF w
<1>3. target >= EndBefore(line, w) /\ w > 1
  BY <1>2 DEF w
<1>4. named \in LooseLine
  BY <1>1, <1>3, MoveWordSnug DEF Straight
<1>5. Straight(named, was)
  <2>1. ~(w = 1) /\ target > EndBefore(line, w)
    BY <1>2, <1>3 DEF w
  <2> QED
    BY <1>1, <1>3, <2>1, MoveStraight
<1>6. ASSUME Has(line, "op")
      PROVE  /\ Has(named, "op") /\ IndexOf(named, "op") > 1
             /\ Column(named, "op") = Column(line, "op") + target - Column(line, "ident")
  <2>1. v > 1 /\ w < v /\ v \in DOMAIN line.words
    BY <1>6, OrderFacts, IndexOfProperties DEF w
  <2>2. v \in Nat
    BY <2>1, SnugFacts DEF Straight
  <2>3. /\ Has(named, "op") /\ IndexOf(named, "op") = v
        /\ Column(named, "op") = IF v < w THEN Column(line, "op")
                                 ELSE Column(line, "op") + target - line.words[w].at
    BY <1>1, <1>3, <1>6, ShiftedColumn DEF Straight
  <2> HIDE DEF named, v
  <2> QED
    BY <1>1, <1>2, <2>1, <2>2, <2>3
<1> QED
  BY <1>1, <1>4, <1>5, <1>6

\* A line that starts with a keyword: what follows the keyword moves behind the widest
\* one, dimensions behind a type in front of the name.
LEMMA KeywordLineStraight ==
  ASSUME NEW line \in LooseLine, NEW was, Straight(line, was), IsInOrder(line),
         HasNamesApart(line), Has(line, "keyword"), Has(line, "ident"),
         NEW max \in Int, line.words[1].width <= max, NEW target \in Int,
         ~Has(line, "dim") => target >= max + Column(line, "ident") - line.words[1].width,
         Has(line, "dim") =>
           /\ target >= Indent(line) + max + 2 + Column(line, "ident") - Column(line, "dim")
           /\ target >= max + 1 + EndBefore(line, IndexOf(line, "dim")) - line.words[1].width
                          + Column(line, "ident") - Column(line, "dim")
  PROVE  LET body == MoveWord(line, 2, Indent(line) + max + 1)
             dim == line.words[IndexOf(line, "dim")]
             shaped == IF Column(line, "dim") > line.words[2].at
                       THEN MoveTo(body, "dim", target - dim.width - 1) ELSE body
         IN  /\ shaped \in LooseLine /\ Straight(shaped, was) /\ IsInOrder(shaped)
             /\ Has(shaped, "ident") /\ IndexOf(shaped, "ident") > 1
             /\ target > EndBefore(shaped, IndexOf(shaped, "ident"))
             /\ Has(line, "op") =>
                  /\ Has(shaped, "op")
                  /\ Column(shaped, "op") - Column(shaped, "ident")
                       = Column(line, "op") - Column(line, "ident")
<1> DEFINE ws == line.words
           w == IndexOf(line, "ident")
           d == IndexOf(line, "dim")
           v == IndexOf(line, "op")
           indent == Indent(line)
           column == indent + max + 1
           body == MoveWord(line, 2, column)
           shaped == IF Column(line, "dim") > ws[2].at
                     THEN MoveTo(body, "dim", target - ws[d].width - 1) ELSE body
<1>1. Snug(line) /\ line.words = ws
  BY DEF Straight
<1>2. /\ w \in DOMAIN ws /\ ws[w].what = "ident" /\ Column(line, "ident") = ws[w].at
      /\ IndexOf(line, "keyword") = 1 /\ 1 \in DOMAIN ws /\ ws[1].what = "keyword"
  BY IndexOfProperties, OrderFacts DEF Column
<1>3. Has(line, "dim") => /\ d \in DOMAIN ws /\ d > 1 /\ w = d + 1
                          /\ Column(line, "dim") = ws[d].at
  BY IndexOfProperties, OrderFacts DEF Column
<1>4. Has(line, "op") => v \in DOMAIN ws /\ v > w /\ Column(line, "op") = ws[v].at
  BY IndexOfProperties, OrderFacts DEF Column
<1>5. /\ DOMAIN ws = 1..Len(ws) /\ Len(ws) \in Nat /\ indent = ws[1].at
      /\ \A u \in DOMAIN ws : /\ ws[u].at \in Nat /\ ws[u].width \in Nat \ {0}
                              /\ EndBefore(line, u) \in Nat /\ EndBefore(line, u) <= ws[u].at
                              /\ u > 1 => EndBefore(line, u) = ws[u - 1].at + ws[u - 1].width
  BY <1>1, <1>2, SnugFacts
<1>6. w > 1 /\ 2 \in DOMAIN ws /\ w \in Nat
  <2>1. w # 1
    BY <1>2
  <2> HIDE DEF w, ws
  <2> QED
    BY <1>2, <1>5, <2>1
<1>7. ws[2].at > ws[1].at + ws[1].width /\ ws[w].at > EndBefore(line, w)
  <2>1. EndBefore(line, 2) = ws[1].at + ws[1].width
    <3>1. 2 > 1 /\ 2 - 1 = 1
      OBVIOUS
    <3> HIDE DEF ws, w
    <3>2. EndBefore(line, 2) = ws[2 - 1].at + ws[2 - 1].width
      BY <1>5, <1>6, <3>1
    <3> QED
      BY <3>1, <3>2
  <2>2. \A u \in DOMAIN ws :
          u > 1 /\ (ws[u].what = "ident" \/ ws[u - 1].what = "keyword") => ws[u].at > EndBefore(line, u)
    BY DEF HasNamesApart
  <2>3. ws[2].at > EndBefore(line, 2)
    <3>1. 2 > 1 /\ 2 - 1 = 1
      OBVIOUS
    <3> HIDE DEF ws, w
    <3> QED
      BY <1>2, <1>6, <2>2, <3>1
  <2> HIDE DEF ws, w
  <2> QED
    BY <1>2, <1>6, <2>1, <2>2, <2>3
<1>8. column \in Int /\ column > EndBefore(line, 2) /\ column >= EndBefore(line, 2)
  <2>1. EndBefore(line, 2) = ws[1].at + ws[1].width /\ ws[1].width <= max
    BY <1>5, <1>6
  <2>2. ws[1].at \in Nat /\ ws[1].width \in Nat
    BY <1>2, <1>5
  <2> HIDE DEF ws, indent
  <2> QED
    BY <1>5, <2>1, <2>2
<1> HIDE DEF column
<1>9. Straight(body, was)
  BY <1>6, <1>8, MoveStraight
<1>10. /\ body \in LooseLine /\ DOMAIN body.words = DOMAIN ws
       /\ \A u \in DOMAIN ws :
            /\ body.words[u].at = IF u < 2 THEN ws[u].at ELSE ws[u].at + column - ws[2].at
            /\ body.words[u].width = ws[u].width
            /\ body.words[u].what = ws[u].what
  BY <1>1, <1>6, <1>8, MoveWordSnug
<1>11. \A what : Has(body, what) = Has(line, what) /\ IndexOf(body, what) = IndexOf(line, what)
  <2> HIDE DEF body
  <2> QED
    BY <1>10, IndexOfSame
<1> HIDE DEF body
<1>12. IsInOrder(body)
  <2>1. Kept(body, line)
    BY <1>8, MoveWordKept DEF body
  <2> QED
    BY <1>10, <2>1, OrderKept
<1>13. \A u \in DOMAIN ws : u > 1 => EndBefore(body, u) = body.words[u - 1].at + ws[u - 1].width
  <2> TAKE u \in DOMAIN ws
  <2>1. u > 1 => EndBefore(body, u) = body.words[u - 1].at + body.words[u - 1].width
    BY <1>9, <1>10, SnugFacts DEF Straight
  <2>2. u > 1 => u - 1 \in DOMAIN ws
    BY <1>5
  <2> QED
    BY <1>10, <2>1, <2>2
<1>14. Column(body, "ident") = ws[w].at + column - ws[2].at
  <2>1. Column(body, "ident") = body.words[w].at
    BY <1>11 DEF Column
  <2> HIDE DEF w, ws
  <2> QED
    BY <1>2, <1>6, <1>10, <2>1
<1>15. Has(line, "op") =>
         Has(body, "op") /\ Column(body, "op") = ws[v].at + column - ws[2].at
  <2> SUFFICES ASSUME Has(line, "op")
               PROVE  Has(body, "op") /\ Column(body, "op") = ws[v].at + column - ws[2].at
    OBVIOUS
  <2>1. Has(body, "op") /\ Column(body, "op") = body.words[v].at
    BY <1>11 DEF Column
  <2>2. v \in DOMAIN ws /\ ~(v < 2)
    <3>1. v \in DOMAIN ws /\ v > w
      BY <1>4
    <3> HIDE DEF v, w, ws
    <3> QED
      BY <1>5, <1>6, <3>1
  <2> QED
    BY <1>10, <2>1, <2>2
<1>16. EndBefore(body, w) < ws[w].at + column - ws[2].at
  <2>1. w - 1 \in DOMAIN ws /\ w - 1 \in Nat
    BY <1>2, <1>5, <1>6
  <2>2. EndBefore(body, w) = body.words[w - 1].at + ws[w - 1].width
    BY <1>2, <1>6, <1>13
  <2>3. EndBefore(line, w) = ws[w - 1].at + ws[w - 1].width
    BY <1>2, <1>5, <1>6
  <2>4. /\ ws[w - 1].at \in Nat /\ ws[w - 1].width \in Nat /\ ws[w].at \in Nat
        /\ ws[2].at \in Nat
    BY <1>2, <1>5, <1>6, <2>1
  <2>5. body.words[w - 1].at = IF w - 1 < 2 THEN ws[w - 1].at ELSE ws[w - 1].at + column - ws[2].at
    BY <1>10, <2>1
  <2>6. CASE w - 1 < 2
    <3>1. w = 2
      BY <1>6, <2>6
    <3>2. EndBefore(line, 2) = EndBefore(body, w)
      BY <2>2, <2>3, <2>5, <2>6, <3>1
    <3> HIDE DEF w, ws
    <3> QED
      BY <1>8, <2>4, <3>1, <3>2
  <2>7. CASE ~(w - 1 < 2)
    <3>1. body.words[w - 1].at = ws[w - 1].at + column - ws[2].at
      BY <2>5, <2>7
    <3>2. ws[w].at > ws[w - 1].at + ws[w - 1].width
      BY <1>7, <2>3
    <3> DEFINE a == ws[w - 1].at
               b == ws[w - 1].width
               c == body.words[w - 1].at
    <3>3. EndBefore(body, w) = c + b /\ c = a + column - ws[2].at /\ ws[w].at > a + b
      BY <2>2, <3>1, <3>2
    <3> HIDE DEF w, ws, a, b, c
    <3>4. a \in Nat /\ b \in Nat
      BY <2>4 DEF a, b
    <3> QED
      BY <1>8, <2>4, <3>3, <3>4
  <2> QED
    BY <2>6, <2>7
<1> DEFINE opAt == ws[v].at
           identAt == ws[w].at
           two == ws[2].at
<1>17. identAt \in Nat /\ two \in Nat /\ (Has(line, "op") => opAt \in Nat)
  BY <1>2, <1>4, <1>5, <1>6
<1>18. Has(line, "op") => Column(body, "op") - Column(body, "ident")
                            = Column(line, "op") - Column(line, "ident")
  <2> SUFFICES ASSUME Has(line, "op")
               PROVE  Column(body, "op") - Column(body, "ident") = opAt - identAt
    BY <1>2, <1>4
  <2>1. Column(body, "op") = opAt + column - two /\ Column(body, "ident") = identAt + column - two
    BY <1>14, <1>15
  <2> HIDE DEF opAt, identAt, two
  <2> QED
    BY <1>8, <1>17, <2>1

<1> DEFINE one == ws[1].at
           key == ws[1].width
<1>19. /\ one \in Nat /\ key \in Nat /\ key <= max /\ column = one + max + 1
       /\ two > one + key
  BY <1>2, <1>5, <1>7 DEF column
<1>20. CASE ~(Column(line, "dim") > ws[2].at)
  <2>1. shaped = body
    BY <1>20
  <2>2. target > EndBefore(body, w)
    <3>1. EndBefore(body, w) \in Nat /\ EndBefore(body, w) < identAt + column - two
      <4>1. EndBefore(body, w) \in Nat
        BY <1>2, <1>9, <1>10, SnugFacts DEF Straight
      <4> QED
        BY <1>16, <4>1
    <3>2. CASE ~Has(line, "dim")
      <4>1. target >= max + identAt - key
        BY <1>2, <3>2
      <4> HIDE DEF identAt, two, one, key, w
      <4> QED
        BY <1>17, <1>19, <3>1, <4>1
    <3>3. CASE Has(line, "dim")
      <4>1. d \in DOMAIN ws /\ d > 1 /\ Column(line, "dim") = ws[d].at
        BY <1>3, <3>3
      <4>2. d \in Nat /\ ws[d].at \in Nat
        BY <1>5, <4>1
      <4>3. ws[2].at <= ws[d].at
        <5> HIDE DEF d, ws
        <5>1. d >= 2
          BY <4>1, <4>2
        <5> QED
          BY <1>1, <1>6, <4>1, <5>1, SnugFacts DEF ws
      <4>4. ws[d].at = two
        BY <1>17, <1>20, <4>1, <4>2, <4>3
      <4>5. target >= indent + max + 2 + identAt - two
        BY <1>2, <3>3, <4>1, <4>4
      <4>6. indent = one
        BY <1>5
      <4> HIDE DEF identAt, two, one, key, w, indent
      <4> QED
        BY <1>17, <1>19, <3>1, <4>5, <4>6
    <3> QED
      BY <3>2, <3>3
  <2>3. Has(body, "ident") /\ IndexOf(body, "ident") = w
    BY <1>11
  <2> HIDE DEF shaped
  <2> QED
    BY <1>6, <1>9, <1>10, <1>12, <1>15, <1>18, <2>1, <2>2, <2>3 DEF shaped, body, column
<1>21. CASE Column(line, "dim") > ws[2].at
  <2> DEFINE dimAt == ws[d].at
             wide == ws[d].width
             at == target - wide - 1
             laid == MoveWord(body, d, at)
             before == EndBefore(line, d)
  <2>1. Has(line, "dim")
    <3> SUFFICES ASSUME ~Has(line, "dim") PROVE FALSE
      OBVIOUS
    <3>1. Column(line, "dim") = npos
      BY DEF Column
    <3> QED
      BY <1>17, <1>21, <3>1 DEF npos
  <2>2. d \in DOMAIN ws /\ d \in Nat /\ w = d + 1 /\ Column(line, "dim") = dimAt
    <3>1. d \in DOMAIN ws
      BY <1>3, <2>1
    <3> QED
      BY <1>3, <1>5, <2>1, <3>1
  <2>3. dimAt \in Nat /\ wide \in Nat /\ wide > 0 /\ dimAt > two /\ before \in Nat
    BY <1>5, <1>21, <2>2
  <2>4. d > 2
    <3>1. d > 1 /\ d # 2
      BY <1>3, <1>17, <2>1, <2>3
    <3> HIDE DEF d
    <3> QED
      BY <2>2, <3>1
  <2>5. identAt > dimAt + wide
    <3>1. w - 1 = d
      BY <2>2
    <3>2. EndBefore(line, w) = ws[w - 1].at + ws[w - 1].width
      BY <1>2, <1>5, <1>6
    <3> QED
      BY <1>7, <3>1, <3>2
  <2>6. EndBefore(body, d) = before + column - two /\ EndBefore(body, d) \in Nat
    <3>1. d - 1 \in DOMAIN ws /\ ~(d - 1 < 2)
      <4> HIDE DEF d, ws
      <4> QED
        BY <1>5, <2>2, <2>4
    <3> DEFINE a == ws[d - 1].at
               b == ws[d - 1].width
               c == body.words[d - 1].at
    <3>2. EndBefore(body, d) = c + b /\ c = a + column - two /\ before = a + b
      <4>1. d > 1
        BY <2>2, <2>4
      <4> QED
        BY <1>5, <1>10, <1>13, <2>2, <3>1, <4>1
    <3>3. a \in Nat /\ b \in Nat
      BY <1>5, <3>1
    <3>4. EndBefore(body, d) \in Nat
      BY <1>9, <1>10, <2>2, SnugFacts DEF Straight
    <3> HIDE DEF a, b, c, d, before, two
    <3> QED
      BY <1>8, <1>17, <3>2, <3>3, <3>4 DEF before
  <2>7. target >= max + 1 + before - key + identAt - dimAt
    BY <1>2, <2>1, <2>2
  <2>8. at \in Int /\ at > EndBefore(body, d) /\ at >= EndBefore(body, d)
    <3> HIDE DEF dimAt, wide, before, identAt, two, one, key, d, w
    <3> QED
      BY <1>8, <1>17, <1>19, <2>3, <2>5, <2>6, <2>7
  <2>9. MoveTo(body, "dim", at) = laid /\ shaped = laid
    BY <1>11, <1>21, <2>1 DEF MoveTo
  <2>10. d \in DOMAIN body.words
    BY <1>10, <2>2
  <2> HIDE DEF at
  <2>11. Straight(laid, was)
    <3>1. ~(d = 1)
      BY <2>2, <2>4
    <3> HIDE DEF d
    <3> QED
      BY <1>9, <1>10, <2>8, <2>10, <3>1, MoveStraight
  <2>12. /\ laid \in LooseLine /\ DOMAIN laid.words = DOMAIN body.words
         /\ \A u \in DOMAIN body.words :
              /\ laid.words[u].at = IF u < d THEN body.words[u].at
                                    ELSE body.words[u].at + at - body.words[d].at
              /\ laid.words[u].width = body.words[u].width
              /\ laid.words[u].what = body.words[u].what
    BY <1>9, <1>10, <2>8, <2>10, MoveWordSnug DEF Straight
  <2>13. IsInOrder(laid)
    <3>1. Kept(laid, body)
      <4>1. d \in Nat \ {0}
        BY <2>2, <2>4
      <4> QED
        BY <1>10, <2>8, <4>1, MoveWordKept
    <3> QED
      BY <1>10, <1>12, <2>12, <3>1, OrderKept
  <2>14. \A what : Has(laid, what) = Has(line, what) /\ IndexOf(laid, what) = IndexOf(line, what)
    <3> HIDE DEF laid
    <3>1. \A what : Has(laid, what) = Has(body, what) /\ IndexOf(laid, what) = IndexOf(body, what)
      BY <2>12, IndexOfSame
    <3> QED
      BY <1>11, <3>1
  <2> HIDE DEF laid
  <2>15. target > EndBefore(laid, w)
    <3>1. EndBefore(laid, w) = laid.words[w - 1].at + laid.words[w - 1].width
      BY <1>2, <1>6, <1>10, <2>11, <2>12, SnugFacts DEF Straight
    <3>2. w - 1 = d
      BY <2>2
    <3>3. laid.words[d].width = wide
      BY <1>10, <2>2, <2>12
    <3>4. laid.words[d].at = at
      <4> DEFINE c == body.words[d].at
      <4>1. c \in Int
        BY <1>9, <1>10, <2>10, SnugFacts DEF Straight
      <4>2. ~(d < d)
        BY <2>2
      <4>3. laid.words[d].at = c + at - c
        BY <2>10, <2>12, <4>2
      <4> HIDE DEF c
      <4>4. c + at - c = at
        BY <2>8, <4>1
      <4> QED
        BY <4>3, <4>4
    <3>5. EndBefore(laid, w) = at + wide
      BY <3>1, <3>2, <3>3, <3>4
    <3> HIDE DEF wide, w, d
    <3> QED
      BY <2>3, <3>5 DEF at
  <2>16. Has(line, "op") => /\ Has(laid, "op")
                            /\ Column(laid, "op") - Column(laid, "ident")
                                 = Column(line, "op") - Column(line, "ident")
    <3> SUFFICES ASSUME Has(line, "op")
                 PROVE  /\ Has(laid, "op")
                        /\ Column(laid, "op") - Column(laid, "ident") = opAt - identAt
      BY <1>2, <1>4
    <3>1. v \in DOMAIN ws /\ v > w /\ v \in Nat
      <4>1. v \in DOMAIN ws
        BY <1>4
      <4> QED
        BY <1>4, <1>5, <4>1
    <3>2. ~(v < d) /\ ~(w < d)
      <4> HIDE DEF v, w, d, ws
      <4> QED
        BY <1>6, <2>2, <3>1
    <3>3. /\ Column(laid, "op") = laid.words[v].at /\ Column(laid, "ident") = laid.words[w].at
          /\ Column(body, "op") = body.words[v].at /\ Column(body, "ident") = body.words[w].at
          /\ Has(laid, "op")
      BY <1>11, <2>14 DEF Column
    <3> DEFINE a == body.words[v].at
               b == body.words[w].at
               c == body.words[d].at
    <3>4. laid.words[v].at = a + at - c /\ laid.words[w].at = b + at - c
      BY <1>2, <1>10, <2>12, <3>1, <3>2
    <3>5. a \in Int /\ b \in Int /\ c \in Int
      <4>1. \A u \in DOMAIN body.words : body.words[u].at \in Int
        BY <1>9, <1>10, SnugFacts DEF Straight
      <4> QED
        BY <1>2, <1>10, <2>10, <3>1, <4>1
    <3>6. a - b = opAt - identAt
      BY <1>2, <1>4, <1>18, <3>3
    <3> HIDE DEF a, b, c, opAt, identAt, d, w, v
    <3>7. (a + at - c) - (b + at - c) = a - b
      BY <2>8, <3>5
    <3> QED
      BY <3>3, <3>4, <3>6, <3>7 DEF a, b, c
  <2>17. Has(laid, "ident") /\ IndexOf(laid, "ident") = w
    BY <2>14
  <2> HIDE DEF laid, shaped
  <2>18. /\ shaped \in LooseLine /\ Straight(shaped, was) /\ IsInOrder(shaped)
         /\ Has(shaped, "ident") /\ IndexOf(shaped, "ident") > 1
         /\ target > EndBefore(shaped, IndexOf(shaped, "ident"))
         /\ Has(line, "op") =>
              /\ Has(shaped, "op")
              /\ Column(shaped, "op") - Column(shaped, "ident")
                   = Column(line, "op") - Column(line, "ident")
    BY <1>6, <2>9, <2>11, <2>12, <2>13, <2>15, <2>16, <2>17
  <2> QED
    BY <2>18 DEF shaped, body, column
<1> QED
  BY <1>20, <1>21

\* What the name of a declaration, and its operator, move to.
LEMMA DeclarationStraight ==
  ASSUME NEW line \in LooseLine, NEW was, Straight(line, was), IsInOrder(line),
         Has(line, "ident"), IndexOf(line, "ident") > 1, NEW target \in Int,
         target > EndBefore(line, IndexOf(line, "ident")), NEW value \in Int,
         NEW valued \in BOOLEAN,
         valued => Has(line, "op") /\ value >= Column(line, "op") - Column(line, "ident")
  PROVE  LET named == MoveTo(line, "ident", target)
         IN  Straight(IF valued THEN MoveTo(named, "op", target + value) ELSE named, was)
<1> DEFINE named == MoveTo(line, "ident", target)
<1>1. /\ named \in LooseLine /\ Straight(named, was)
      /\ Has(line, "op") =>
           /\ Has(named, "op") /\ IndexOf(named, "op") > 1
           /\ Column(named, "op") = Column(line, "op") + target - Column(line, "ident")
  BY NameMoves
<1> HIDE DEF named
<1>2. ASSUME valued
      PROVE  Straight(MoveTo(named, "op", target + value), was)
  <2>1. Column(line, "op") \in Int /\ Column(line, "ident") \in Int
    BY ColumnTypes
  <2>2. target + value >= Column(named, "op") /\ target + value \in Int
    BY <1>1, <1>2, <2>1
  <2> QED
    BY <1>1, <1>2, <2>2, MoveToRight
<1> QED
  BY <1>1, <1>2 DEF named

LEMMA MaxOfAtLeast ==
  ASSUME NEW a \in Int
  PROVE  MaxOf({a}) \in Nat /\ a <= MaxOf({a})
<1> DEFINE f == [k \in 1..1 |-> a]
           image == {a}
<1>1. 1 \in Nat /\ 1..1 \subseteq 1..1 /\ \A k \in 1..1 : f[k] \in Int /\ f[k] \in image
  OBVIOUS
<1>2. \A x \in image : \E k \in 1..1 : x = f[k]
  OBVIOUS
<1>3. 1 \in 1..1 /\ f[1] = a
  OBVIOUS
<1> HIDE DEF f, image
<1>4. MaxOf(image) \in Nat /\ \A k \in 1..1 : f[k] <= MaxOf(image)
  BY <1>1, <1>2, MaxOfBounds, Zenon
<1> QED
  BY <1>3, <1>4 DEF image

\* Names and operators of declarations move to the column of the widest type, where
\* there is room for keywords also in columns of their own.
LEMMA DeclarationsStraight ==
  ASSUME Ready, Arranged, NEW group \in SUBSET (DOMAIN lines), NEW ctx, NEW k \in group,
         \E l \in group : infos[l].kind = "Declaration"
  PROVE  Straight(GroupDeclarations(group, ctx)[k], text[k])
<1> DEFINE decls == {l \in group : infos[l].kind = "Declaration"}
           valued == {l \in decls : infos[l].equalsPos # npos}
           types == {infos[l].typeWidth : l \in decls}
           maxTypeWidth == MaxOf(types)
           widths == {infos[l].keywordWidth : l \in decls}
           keywords == MaxOf(widths)
           Body(l) == infos[l].indent + (IF infos[l].keywordWidth > 0
                                         THEN infos[l].keywordWidth + 1 ELSE 0)
           BodyWidth(l) ==
             IF infos[l].dimPos # npos /\ infos[l].keywordWidth > 0
             THEN MaxOf({EndBefore(lines[l], IndexOf(lines[l], "dim")) - Body(l)})
                    + 1 + infos[l].identPos - infos[l].dimPos
             ELSE infos[l].indent + infos[l].typeWidth - Body(l)
           bodies == {BodyWidth(l) : l \in decls}
           maxBody == MaxOf(bodies)
           maxKeywordWidth == IF keywords + 1 + maxBody > maxTypeWidth THEN 0 ELSE keywords
           lengths == {infos[l].equalsPos - infos[l].identPos : l \in valued}
           maxIdentToEquals == MaxOf(lengths)
           groupColumn == infos[Min(decls)].indent + maxTypeWidth
           line == lines[k]
           target == infos[k].indent + maxTypeWidth
           dim == line.words[IndexOf(line, "dim")]
           body == MoveWord(line, 2, infos[k].indent + maxKeywordWidth + 1)
           shaped == IF maxKeywordWidth = 0 \/ infos[k].keywordWidth = 0 THEN line
                     ELSE IF infos[k].dimPos > line.words[2].at
                          THEN MoveTo(body, "dim", target - dim.width - 1)
                          ELSE body
           named == MoveTo(shaped, "ident", target)
           padded == IF k \in valued THEN MoveTo(named, "op", target + maxIdentToEquals)
                     ELSE named
           carried == MoveTo(line, "ident", groupColumn)
<1>1. /\ line \in LooseLine /\ Straight(line, text[k]) /\ IsInOrder(line)
      /\ HasNamesApart(line) /\ InfoFits(infos[k], line)
  BY ReadyFacts DEF Arranged
<1>2. Len(lines) \in Nat /\ decls \subseteq 1..Len(lines) /\ decls # {}
  BY GroupNumbers
<1>3. \A l \in group :
        /\ infos[l].typeWidth \in Int /\ infos[l].keywordWidth \in Int
        /\ infos[l].identPos \in Int /\ infos[l].equalsPos \in Int /\ infos[l].indent \in Int
        /\ infos[l].dimPos \in Int
  <2> TAKE l \in group
  <2>1. infos[l] \in LooseInfo
    BY ReadyFacts
  <2> QED
    BY <2>1 DEF LooseInfo
<1>4. maxTypeWidth \in Nat /\ \A l \in decls : infos[l].typeWidth <= maxTypeWidth
  <2> DEFINE f == [l \in decls |-> infos[l].typeWidth]
  <2>1. /\ \A x \in types : \E l \in decls : x = f[l]
        /\ \A l \in decls : f[l] \in types
        /\ \A l \in decls : f[l] \in Int
    BY <1>3
  <2>2. \A l \in decls : f[l] = infos[l].typeWidth
    OBVIOUS
  <2> HIDE DEF f, decls, types
  <2>3. MaxOf(types) \in Nat /\ \A l \in decls : f[l] <= MaxOf(types)
    BY <1>2, <2>1, MaxOfBounds, Zenon
  <2> QED
    BY <2>2, <2>3
<1>5. keywords \in Nat /\ \A l \in decls : infos[l].keywordWidth <= keywords
  <2> DEFINE f == [l \in decls |-> infos[l].keywordWidth]
  <2>1. /\ \A x \in widths : \E l \in decls : x = f[l]
        /\ \A l \in decls : f[l] \in widths
        /\ \A l \in decls : f[l] \in Int
    BY <1>3
  <2>2. \A l \in decls : f[l] = infos[l].keywordWidth
    OBVIOUS
  <2> HIDE DEF f, decls, widths
  <2>3. MaxOf(widths) \in Nat /\ \A l \in decls : f[l] <= MaxOf(widths)
    BY <1>2, <2>1, MaxOfBounds, Zenon
  <2> QED
    BY <2>2, <2>3
<1>6. maxIdentToEquals \in Nat
      /\ \A l \in valued : infos[l].equalsPos - infos[l].identPos <= maxIdentToEquals
  <2> DEFINE f == [l \in valued |-> infos[l].equalsPos - infos[l].identPos]
  <2>1. \A l \in valued : f[l] \in Int /\ f[l] = infos[l].equalsPos - infos[l].identPos
    BY <1>3
  <2>2. /\ \A x \in lengths : \E l \in valued : x = f[l]
        /\ \A l \in valued : f[l] \in lengths
        /\ valued \subseteq 1..Len(lines)
    BY <1>2
  <2> HIDE DEF f, valued, lengths
  <2>3. MaxOf(lengths) \in Nat /\ \A l \in valued : f[l] <= MaxOf(lengths)
    BY <1>2, <2>1, <2>2, MaxOfBounds, Zenon
  <2> QED
    BY <2>1, <2>3
<1>7. \A l \in decls : Body(l) \in Int /\ BodyWidth(l) \in Int
  <2> TAKE l \in decls
  <2>1. Body(l) \in Int
    BY <1>3
  <2> HIDE DEF Body
  <2>2. CASE infos[l].dimPos # npos /\ infos[l].keywordWidth > 0
    <3>1. EndBefore(lines[l], IndexOf(lines[l], "dim")) \in Nat
      <4>1. lines[l] \in LooseLine /\ Has(lines[l], "dim") /\ Snug(lines[l])
        BY <2>2, ReadyFacts DEF Arranged, Straight
      <4> QED
        BY <4>1, IndexOfProperties, SnugFacts
    <3>2. MaxOf({EndBefore(lines[l], IndexOf(lines[l], "dim")) - Body(l)}) \in Nat
      BY <2>1, <3>1, MaxOfAtLeast
    <3> HIDE DEF decls
    <3> QED
      BY <1>3, <2>1, <2>2, <3>2 DEF decls
  <2>3. CASE ~(infos[l].dimPos # npos /\ infos[l].keywordWidth > 0)
    <3>1. infos[l].indent \in Int /\ infos[l].typeWidth \in Int
      BY <1>3
    <3>2. BodyWidth(l) = infos[l].indent + infos[l].typeWidth - Body(l)
      BY <2>3
    <3> QED
      BY <2>1, <3>1, <3>2
  <2> QED
    BY <2>1, <2>2, <2>3
<1>8. maxBody \in Nat /\ \A l \in decls : BodyWidth(l) <= maxBody
  <2> DEFINE f == [l \in decls |-> BodyWidth(l)]
  <2> HIDE DEF BodyWidth
  <2>1. /\ \A x \in bodies : \E l \in decls : x = f[l]
        /\ \A l \in decls : f[l] \in bodies
        /\ \A l \in decls : f[l] \in Int
    BY <1>7
  <2>2. \A l \in decls : f[l] = BodyWidth(l)
    OBVIOUS
  <2> HIDE DEF f, decls, bodies
  <2>3. MaxOf(bodies) \in Nat /\ \A l \in decls : f[l] <= MaxOf(bodies)
    BY <1>2, <2>1, MaxOfBounds, Zenon
  <2> QED
    BY <2>2, <2>3
<1>9. groupColumn \in Int
  <2> DEFINE f == [l \in 1..Len(lines) |-> l]
  <2>1. /\ f \in [1..Len(lines) -> Int] /\ decls \in SUBSET Int
        /\ \A x \in decls : \E l \in 1..Len(lines) : x = f[l]
    BY <1>2
  <2>2. Min(decls) \in decls
    <3> HIDE DEF f, decls
    <3> QED
      BY <1>2, <2>1, RangeMin
  <2> HIDE DEF maxTypeWidth
  <2> QED
    BY <1>3, <1>4, <2>2
<1>10. \/ GroupDeclarations(group, ctx)[k] = line
       \/ /\ k \in decls /\ infos[k].identPos > infos[k].indent
          /\ GroupDeclarations(group, ctx)[k] = padded
       \/ /\ infos[k].kind = "Continuation" /\ groupColumn > infos[k].indent
          /\ GroupDeclarations(group, ctx)[k] = carried
  BY DEF GroupDeclarations
<1> HIDE DEF maxTypeWidth, keywords, maxBody, maxIdentToEquals, groupColumn
<1>11. ASSUME k \in decls, infos[k].identPos > infos[k].indent
       PROVE  Straight(padded, text[k])
  <2> DEFINE w == IndexOf(line, "ident")
             kw == infos[k].keywordWidth
             at == infos[k].identPos
             indent == infos[k].indent
  <2>1. /\ Has(line, "ident") /\ at = Column(line, "ident") /\ indent = Indent(line)
        /\ infos[k].typeWidth = at - indent /\ at > indent
    BY <1>1, <1>11 DEF InfoFits
  <2>2. at \in Int /\ indent \in Int /\ kw \in Int /\ target \in Int
    BY <1>3, <1>4
  <2>3. target >= at
    <3>1. at - indent <= maxTypeWidth
      BY <1>4, <1>11, <2>1
    <3> HIDE DEF at, indent
    <3> QED
      BY <1>4, <2>2, <3>1 DEF indent
  <2>4. /\ w \in DOMAIN line.words /\ line.words[w].what = "ident" /\ w \in Nat /\ w > 1
        /\ line.words[w].at = at /\ at > EndBefore(line, w)
    <3>1. /\ w \in DOMAIN line.words /\ line.words[w].what = "ident"
          /\ line.words[w].at = at
      BY <2>1, IndexOfProperties DEF Column
    <3>2. w \in Nat \ {0} /\ indent = line.words[1].at
      BY <1>1, <2>1, <3>1, SnugFacts DEF Straight
    <3>3. w > 1
      <4>1. w # 1
        BY <2>1, <2>2, <3>1, <3>2
      <4> HIDE DEF w
      <4> QED
        BY <3>2, <4>1
    <3>4. line.words[w].at > EndBefore(line, w)
      BY <1>1, <3>1, <3>3 DEF HasNamesApart
    <3> QED
      BY <3>1, <3>2, <3>3, <3>4
  <2>5. EndBefore(line, w) \in Nat
    BY <1>1, <2>4, SnugFacts DEF Straight
  <2>6. k \in valued => /\ Has(line, "op")
                        /\ maxIdentToEquals >= Column(line, "op") - Column(line, "ident")
    BY <1>6, <1>11, <2>1, ReadyFacts
  <2>7. /\ shaped \in LooseLine /\ Straight(shaped, text[k]) /\ IsInOrder(shaped)
        /\ Has(shaped, "ident") /\ IndexOf(shaped, "ident") > 1
        /\ target > EndBefore(shaped, IndexOf(shaped, "ident"))
        /\ Has(line, "op") =>
             /\ Has(shaped, "op")
             /\ Column(shaped, "op") - Column(shaped, "ident")
                  = Column(line, "op") - Column(line, "ident")
    <3>1. CASE maxKeywordWidth = 0 \/ kw = 0
      <4>1. shaped = line
        BY <3>1
      <4>2. target > EndBefore(line, w)
        <5> HIDE DEF w, at, target
        <5> QED
          BY <2>2, <2>3, <2>4, <2>5
      <4> HIDE DEF shaped
      <4> QED
        BY <1>1, <2>1, <2>4, <4>1, <4>2
    <3>2. CASE ~(maxKeywordWidth = 0 \/ kw = 0)
      <4>1. maxKeywordWidth = keywords /\ keywords + 1 + maxBody <= maxTypeWidth
        BY <1>4, <1>5, <1>8, <3>2
      <4>2. /\ Has(line, "keyword") /\ infos[k].dimPos = Column(line, "dim")
            /\ kw = line.words[1].width
        BY <1>1, <3>2, OrderFacts DEF InfoFits
      <4>3. kw \in Nat /\ kw > 0 /\ kw <= keywords
        <5>1. 1 \in DOMAIN line.words
          BY <1>1, <4>2, IndexOfProperties, OrderFacts
        <5>2. line.words[1].width \in Nat \ {0}
          BY <1>1, <5>1, SnugFacts DEF Straight
        <5> QED
          BY <1>5, <1>11, <4>2, <5>2
      <4>4. Body(k) = indent + kw + 1
        BY <2>2, <4>3
      <4>5. BodyWidth(k) <= maxBody /\ BodyWidth(k) \in Int
        BY <1>7, <1>8, <1>11
      <4> DEFINE dimAt == Column(line, "dim")
                 before == EndBefore(line, IndexOf(line, "dim"))
                 inner == MaxOf({before - Body(k)})
                 bodyWidth == BodyWidth(k)
      <4>6. ~Has(line, "dim") => target >= keywords + at - kw
        <5> SUFFICES ASSUME ~Has(line, "dim") PROVE target >= keywords + at - kw
          OBVIOUS
        <5>1. infos[k].dimPos = npos
          BY <4>2 DEF Column
        <5>2. bodyWidth = indent + (at - indent) - (indent + kw + 1)
          BY <2>1, <4>4, <5>1
        <5> HIDE DEF bodyWidth, at, indent, kw
        <5> QED
          BY <1>4, <1>5, <1>8, <2>2, <4>1, <4>5, <5>2 DEF bodyWidth, indent
      <4>7. Has(line, "dim") => /\ target >= indent + keywords + 2 + at - dimAt
                                /\ target >= keywords + 1 + before - kw + at - dimAt
        <5> SUFFICES ASSUME Has(line, "dim")
                     PROVE  /\ target >= indent + keywords + 2 + at - dimAt
                            /\ target >= keywords + 1 + before - kw + at - dimAt
          OBVIOUS
        <5>1. dimAt \in Nat /\ before \in Nat
          <6>1. IndexOf(line, "dim") \in DOMAIN line.words
            BY IndexOfProperties
          <6>2. dimAt = line.words[IndexOf(line, "dim")].at
            BY DEF Column
          <6> QED
            BY <1>1, <6>1, <6>2, SnugFacts DEF Straight
        <5>2. infos[k].dimPos = dimAt /\ infos[k].dimPos # npos
          BY <4>2, <5>1 DEF npos
        <5>3. bodyWidth = inner + 1 + at - dimAt
          BY <4>3, <5>2
        <5>4. inner \in Nat /\ before - (indent + kw + 1) <= inner
          <6>1. before - Body(k) \in Int
            BY <2>2, <4>4, <5>1
          <6> DEFINE x == before - Body(k)
          <6> HIDE DEF x
          <6>2. MaxOf({x}) \in Nat /\ x <= MaxOf({x})
            BY <6>1, MaxOfAtLeast DEF x
          <6> QED
            BY <4>4, <6>2 DEF x
        <5> HIDE DEF bodyWidth, at, indent, kw, inner, before, dimAt
        <5>5. target = indent + maxTypeWidth
          BY DEF indent
        <5>6. keywords + 1 + bodyWidth <= maxTypeWidth
          BY <1>4, <1>5, <1>8, <4>1, <4>5 DEF bodyWidth
        <5> HIDE DEF target
        <5> QED
          BY <1>4, <1>5, <2>2, <5>1, <5>3, <5>4, <5>5, <5>6
      <4>8. shaped = IF dimAt > line.words[2].at
                     THEN MoveTo(MoveWord(line, 2, Indent(line) + keywords + 1), "dim",
                                 target - dim.width - 1)
                     ELSE MoveWord(line, 2, Indent(line) + keywords + 1)
        BY <2>1, <3>2, <4>1, <4>2
      <4>9. /\ line.words[1].width <= keywords
            /\ ~Has(line, "dim") =>
                 target >= keywords + Column(line, "ident") - line.words[1].width
            /\ Has(line, "dim") =>
                 /\ target >= Indent(line) + keywords + 2 + Column(line, "ident")
                                - Column(line, "dim")
                 /\ target >= keywords + 1 + EndBefore(line, IndexOf(line, "dim"))
                                - line.words[1].width + Column(line, "ident")
                                - Column(line, "dim")
        BY <2>1, <4>2, <4>3, <4>6, <4>7
      <4> HIDE DEF shaped, target, line
      <4> QED
        BY <1>1, <1>5, <2>1, <2>2, <4>2, <4>8, <4>9, KeywordLineStraight
    <3> QED
      BY <3>1, <3>2
  <2> HIDE DEF shaped, target, line, valued
  <2>8. (k \in valued) \in BOOLEAN /\ (k \in valued =>
           Has(shaped, "op") /\ maxIdentToEquals >= Column(shaped, "op") - Column(shaped, "ident"))
    BY <2>6, <2>7
  <2> DEFINE isValued == k \in valued
  <2>9. maxIdentToEquals \in Int
    BY <1>6
  <2>10. isValued \in BOOLEAN /\ (isValued =>
           Has(shaped, "op") /\ maxIdentToEquals >= Column(shaped, "op") - Column(shaped, "ident"))
    BY <2>8
  <2> HIDE DEF isValued
  <2>11. Straight(IF isValued THEN MoveTo(named, "op", target + maxIdentToEquals) ELSE named,
                  text[k])
    BY <2>2, <2>7, <2>9, <2>10, DeclarationStraight, Zenon
  <2> QED
    BY <2>11 DEF isValued
<1>12. ASSUME infos[k].kind = "Continuation", groupColumn > infos[k].indent
       PROVE  Straight(carried, text[k])
  <2>1. IsContinuationLine(line) /\ IsContinuationLine(text[k])
    BY <1>1, <1>12 DEF InfoFits, Arranged
  <2>2. /\ 1 \in DOMAIN line.words /\ line.words[1].what = "ident" /\ Has(line, "ident")
        /\ line.words # <<>>
    <3>1. line.words[1].what = "ident" /\ Len(line.words) = 2 /\ line.words \in Seq(LooseWord)
      BY <1>1, <2>1 DEF IsContinuationLine, LooseLine
    <3> HIDE DEF line
    <3> QED
      BY <3>1 DEF Has
  <2>3. IndexOf(line, "ident") = 1
    <3>1. 1 = IndexOf(line, line.words[1].what)
      BY <1>1, <2>2, OrderFacts
    <3> QED
      BY <2>2, <3>1
  <2>4. Column(line, "ident") = infos[k].indent
    BY <1>1, <2>2, <2>3 DEF Column, Indent, InfoFits
  <2>5. groupColumn >= Column(line, "ident")
    BY <1>3, <1>9, <1>12, <2>4
  <2> HIDE DEF line
  <2> QED
    BY <1>1, <1>9, <2>1, <2>2, <2>5, MoveToRight
<1> HIDE DEF padded, carried, decls
<1> QED
  BY <1>1, <1>10, <1>11, <1>12

-----------------------------------------------------------------------------
(* The invariant of the layout. *)

LayoutInv ==
  /\ \A k \in DOMAIN text : /\ Straight(text[k], text[k]) /\ IsInOrder(text[k])
                            /\ HasNamesApart(text[k]) /\ IsRecognised(text[k])
  /\ DelaysOnly(text) /\ style.SpacesBeforeTrailingComments > 0
  /\ infos = ClassifyLines(lines)
  /\ \A k \in DOMAIN lines : Straight(lines[k], text[k])
  /\ \A k \in DOMAIN result : Straight(result[k], text[k])

\* A line that is laid out as another one has its names apart and looks like it.
LEMMA LikeText ==
  ASSUME NEW a \in LooseLine, NEW b \in LooseLine, Kept(a, b)
  PROVE  /\ StartsWith(a, "ident") = StartsWith(b, "ident")
         /\ IsRecognised(b) => IsRecognised(a)
         /\ IsContinuationLine(a) = IsContinuationLine(b)
         /\ IsTiming(a) = IsTiming(b) /\ IsDelayed(a) = IsDelayed(b)
         /\ LaidOut(a, b) /\ HasNamesApart(b) /\ Snug(a) /\ Snug(b) => HasNamesApart(a)
<1>1. /\ DOMAIN a.words = DOMAIN b.words /\ DOMAIN a.words = 1..Len(a.words)
      /\ Len(a.words) \in Nat /\ Len(a.words) = Len(b.words)
      /\ \A w \in DOMAIN a.words : a.words[w].what = b.words[w].what
      /\ a.text = b.text /\ a.kind = b.kind /\ a.plain = b.plain
      /\ a.words \in Seq(LooseWord) /\ b.words \in Seq(LooseWord)
  BY DEF Kept, LooseLine
<1>2. \A what : StartsWith(a, what) = StartsWith(b, what)
  <2> TAKE what
  <2>1. (a.words # <<>>) = (b.words # <<>>)
    BY <1>1
  <2>2. a.words # <<>> => 1 \in DOMAIN a.words
    BY <1>1
  <2> QED
    BY <1>1, <2>1, <2>2 DEF StartsWith
<1>3. IsRecognised(b) => IsRecognised(a)
  BY <1>1, <1>2 DEF IsRecognised
<1>4. IsContinuationLine(a) = IsContinuationLine(b)
  <2>1. Len(a.words) = 2 => 1 \in DOMAIN a.words
    BY <1>1
  <2> QED
    BY <1>1, <2>1 DEF IsContinuationLine
<1>5. IsTiming(a) = IsTiming(b) /\ IsDelayed(a) = IsDelayed(b)
  <2>1. Has(a, "ident") = Has(b, "ident") /\ Has(a, "op") = Has(b, "op")
    BY KeptHas
  <2> QED
    BY <1>1, <2>1 DEF IsTiming, IsDelayed
<1>6. ASSUME LaidOut(a, b), HasNamesApart(b), Snug(a), Snug(b)
      PROVE  HasNamesApart(a)
  <2> SUFFICES ASSUME NEW w \in DOMAIN a.words, w > 1,
                      a.words[w].what = "ident" \/ a.words[w - 1].what = "keyword"
               PROVE  a.words[w].at > EndBefore(a, w)
    BY DEF HasNamesApart
  <2>1. w - 1 \in DOMAIN a.words /\ w \in DOMAIN b.words
    BY <1>1
  <2>2. b.words[w].at > EndBefore(b, w)
    BY <1>1, <1>6, <2>1 DEF HasNamesApart
  <2>3. /\ b.words[w].at \in Nat /\ EndBefore(b, w) \in Nat
        /\ a.words[w].at \in Nat /\ EndBefore(a, w) \in Nat
    BY <1>6, <2>1, SnugFacts
  <2>4. Gap(b, w) > 0
    <3> DEFINE x == b.words[w].at
               y == EndBefore(b, w)
    <3>1. Gap(b, w) = x - y /\ x > y /\ x \in Nat /\ y \in Nat
      BY <2>2, <2>3 DEF Gap
    <3> HIDE DEF x, y
    <3> QED
      BY <3>1
  <2>5. Gap(a, w) > 0
    BY <1>6, <2>4 DEF LaidOut
  <2> DEFINE x == a.words[w].at
             y == EndBefore(a, w)
  <2>6. x - y > 0 /\ x \in Nat /\ y \in Nat
    BY <2>3, <2>5 DEF Gap
  <2> HIDE DEF x, y
  <2>7. x > y
    BY <2>6
  <2> QED
    BY <2>7 DEF x, y
<1> QED
  BY <1>2, <1>3, <1>4, <1>5, <1>6

LEMMA LinesArranged ==
  ASSUME AInv, LayoutInv
  PROVE  Arranged /\ DelaysOnly(lines)
<1>1. /\ text \in Seq(LooseLine) /\ lines \in Seq(LooseLine) /\ Len(lines) = Len(text)
      /\ \A k \in DOMAIN lines : Kept(lines[k], text[k])
  BY DEF AInv, Ready, LinesTyped
<1>2. DOMAIN lines = DOMAIN text
  BY <1>1
<1>3. ASSUME NEW k \in DOMAIN lines
      PROVE  /\ lines[k] \in LooseLine /\ text[k] \in LooseLine
             /\ Straight(lines[k], text[k]) /\ IsInOrder(lines[k])
             /\ HasNamesApart(lines[k]) /\ IsRecognised(lines[k])
             /\ IsContinuationLine(lines[k]) = IsContinuationLine(text[k])
  <2>1. /\ lines[k] \in LooseLine /\ text[k] \in LooseLine /\ k \in DOMAIN text
        /\ Kept(lines[k], text[k])
    BY <1>1, <1>2
  <2>2. /\ Straight(text[k], text[k]) /\ IsInOrder(text[k])
        /\ HasNamesApart(text[k]) /\ IsRecognised(text[k])
        /\ Straight(lines[k], text[k])
    BY <2>1 DEF LayoutInv
  <2>3. Snug(lines[k]) /\ Snug(text[k]) /\ LaidOut(lines[k], text[k])
    BY <2>2 DEF Straight
  <2>4. IsInOrder(lines[k])
    BY <2>1, <2>2, OrderKept
  <2> QED
    BY <2>1, <2>2, <2>3, <2>4, LikeText
<1>4. \A k \in DOMAIN lines : InfoFits(infos[k], lines[k])
  <2>1. \A k \in DOMAIN lines : Snug(lines[k]) /\ IsInOrder(lines[k]) /\ IsRecognised(lines[k])
    BY <1>3 DEF Straight
  <2>2. \A k \in DOMAIN lines : InfoFits(ClassifyLines(lines)[k], lines[k])
    BY <1>1, <2>1, ClassifyFits
  <2> QED
    BY <2>2 DEF LayoutInv
<1>5. Arranged
  <2>1. \A k \in DOMAIN lines :
          lines[k].text = "TimingControl" => ~StartsWith(lines[k], "ident")
    BY <1>3 DEF IsRecognised
  <2> QED
    BY <1>3, <1>4, <2>1 DEF Arranged
<1>6. DelaysOnly(lines)
  <2>1. \A k \in DOMAIN lines : /\ IsTiming(lines[k]) = IsTiming(text[k])
                                /\ IsDelayed(lines[k]) = IsDelayed(text[k])
    BY <1>1, <1>3, LikeText
  <2> QED
    BY <1>2, <2>1 DEF LayoutInv, DelaysOnly
<1> QED
  BY <1>5, <1>6

\* Every line of a group that is padded stays laid out as printed.
LEMMA GroupStraight ==
  ASSUME AInv, LayoutInv, state.inGroup, NEW k \in state.groupStart..(i - 1)
  PROVE  Straight(GroupLines(i)[k - state.groupStart + 1], text[k])
<1> DEFINE start == state.groupStart
           group == start..(i - 1)
           ctx == InferContext(group)
           padded == CASE Passes[pass] = "PackedDimensions" -> GroupPackedDimensions(group, ctx)
                       [] Passes[pass] = "Declarations" -> GroupDeclarations(group, ctx)
                       [] Passes[pass] = "TimingControls" -> GroupTimingControls(group)
                       [] Passes[pass] = "Assignments" -> GroupAssignments(group, ctx)
                       [] Passes[pass] = "PortConnections" -> GroupPortConnections(group, ctx)
                       [] Passes[pass] = "TrailingComments" -> GroupTrailingComments(group)
<1>1. /\ pass \in DOMAIN Passes /\ start \in 1..(i - 1) /\ Ready
      /\ infos[start].kind \in config.memberKinds
      /\ lines \in Seq(LooseLine) /\ i \in 1..(Len(lines) + 1)
  BY DEF AInv, GroupOpen, Ready
<1>2. Arranged /\ DelaysOnly(lines) /\ style.SpacesBeforeTrailingComments > 0
  BY LinesArranged DEF LayoutInv
<1>3. GroupLines(i) = [m \in 1..(i - start) |-> padded[start + m - 1]]
  BY DEF GroupLines
<1>4. group \in SUBSET (DOMAIN lines) /\ start \in group
  BY <1>1
<1>5. /\ k \in group /\ k - start + 1 \in 1..(i - start) /\ start + (k - start + 1) - 1 = k
  BY <1>1
<1> HIDE DEF ctx, group, start
<1>6. Straight(padded[k], text[k])
  <2>1. CASE Passes[pass] = "PackedDimensions"
    <3>1. padded = GroupPackedDimensions(group, ctx)
      BY <2>1
    <3> HIDE DEF padded
    <3> QED
      BY <1>1, <1>2, <1>4, <1>5, <3>1, PackedDimensionsStraight
  <2>2. CASE Passes[pass] = "Declarations"
    <3>1. padded = GroupDeclarations(group, ctx)
      BY <2>2
    <3>2. infos[start].kind = "Declaration"
      BY <1>1, <2>2 DEF config, GroupBreakConfig, Config
    <3> HIDE DEF padded
    <3> QED
      BY <1>1, <1>2, <1>4, <1>5, <3>1, <3>2, DeclarationsStraight
  <2>3. CASE Passes[pass] = "TimingControls"
    <3>1. padded = GroupTimingControls(group)
      BY <2>3
    <3> HIDE DEF padded
    <3> QED
      BY <1>1, <1>2, <1>4, <1>5, <3>1, TimingControlsStraight
  <2>4. CASE Passes[pass] = "Assignments"
    <3>1. padded = GroupAssignments(group, ctx)
      BY <2>4
    <3> HIDE DEF padded
    <3> QED
      BY <1>1, <1>2, <1>4, <1>5, <3>1, AssignmentsStraight
  <2>5. CASE Passes[pass] = "PortConnections"
    <3>1. padded = GroupPortConnections(group, ctx)
      BY <2>5
    <3> HIDE DEF padded
    <3> QED
      BY <1>1, <1>2, <1>4, <1>5, <3>1, PortConnectionsStraight
  <2>6. CASE Passes[pass] = "TrailingComments"
    <3>1. padded = GroupTrailingComments(group)
      BY <2>6
    <3> HIDE DEF padded
    <3> QED
      BY <1>1, <1>2, <1>4, <1>5, <3>1, TrailingCommentsStraight
  <2> QED
    BY <1>1, <2>1, <2>2, <2>3, <2>4, <2>5, <2>6 DEF Passes
<1> HIDE DEF padded
<1> QED
  BY <1>3, <1>5, <1>6 DEF start

LEMMA FlushStraight ==
  ASSUME AInv, LayoutInv, state.inGroup
  PROVE  LET written == result \o GroupLines(i)
         IN  \A k \in DOMAIN written : Straight(written[k], text[k])
<1> DEFINE start == state.groupStart
           padded == GroupLines(i)
           written == result \o padded
<1>1. /\ result \in Seq(LooseLine) /\ Len(result) = start - 1
      /\ start \in 1..(i - 1) /\ i \in 1..(Len(lines) + 1) /\ lines \in Seq(LooseLine)
  BY DEF AInv, Unwritten, GroupOpen, Ready
<1>2. padded \in Seq(LooseLine) /\ Len(padded) = i - start
  BY GroupWell
<1>3. \A m \in start..(i - 1) : Straight(padded[m - start + 1], text[m])
  BY GroupStraight
<1>4. written \in Seq(LooseLine) /\ Len(written) = i - 1
  BY FlushWell
<1>5. \A k \in DOMAIN result : Straight(result[k], text[k])
  BY DEF LayoutInv
<1> HIDE DEF padded, start
<1>6. ASSUME NEW k \in DOMAIN written
      PROVE  Straight(written[k], text[k])
  <2>1. k \in 1..(i - 1)
    BY <1>4
  <2>2. CASE k < start
    <3>1. k \in DOMAIN result /\ written[k] = result[k]
      BY <1>1, <1>2, <2>1, <2>2
    <3> HIDE DEF written
    <3> QED
      BY <1>5, <3>1
  <2>3. CASE k >= start
    <3> DEFINE place == k - start + 1
    <3>1. place \in 1..(i - start) /\ start + place - 1 = k /\ k \in start..(i - 1)
      BY <1>1, <2>1, <2>3
    <3>2. written[k] = padded[place]
      BY <1>1, <1>2, <2>1, <2>3
    <3>3. Straight(padded[place], text[k])
      BY <1>3, <3>1
    <3> HIDE DEF written, place
    <3> QED
      BY <3>2, <3>3
  <2>4. k < start \/ k >= start
    BY <1>1, <2>1
  <2> HIDE DEF written
  <2> QED
    BY <2>2, <2>3, <2>4
<1> QED
  BY <1>6 DEF padded

LEMMA FlushedStraight ==
  ASSUME AInv, LayoutInv, ~StillInGroup
  PROVE  \A k \in DOMAIN Flushed : Straight(Flushed[k], text[k])
<1>1. CASE state.inGroup
  <2>1. Flushed = result \o GroupLines(i)
    BY <1>1 DEF Flushed, StillInGroup, Breaks
  <2> QED
    BY <1>1, <2>1, FlushStraight
<1>2. CASE ~state.inGroup
  <2>1. Flushed = result
    BY <1>2 DEF Flushed, Breaks
  <2> QED
    BY <2>1 DEF LayoutInv
<1> QED
  BY <1>1, <1>2

LEMMA LayoutStays ==
  ASSUME LayoutInv, UNCHANGED <<style, text, lines, infos>>,
         \A k \in DOMAIN result' : Straight(result'[k], text[k])
  PROVE  LayoutInv'
BY DEF LayoutInv

LEMMA StartGroupStraight ==
  ASSUME AInv, LayoutInv, StartGroup
  PROVE  LayoutInv'
<1>1. ~StillInGroup /\ result' = Flushed /\ UNCHANGED <<style, text, lines, infos>>
  BY DEF StartGroup, Starts
<1> QED
  BY <1>1, FlushedStraight, LayoutStays

LEMMA PassThroughStraight ==
  ASSUME AInv, LayoutInv, PassThrough
  PROVE  LayoutInv'
<1>1. /\ ~StillInGroup /\ result' = Append(Flushed, lines[i])
      /\ UNCHANGED <<style, text, lines, infos>> /\ i \in DOMAIN lines
  BY DEF PassThrough, Scanning
<1>2. Flushed \in Seq(LooseLine) /\ Len(Flushed) = i - 1 /\ lines \in Seq(LooseLine)
  BY <1>1, FlushedWell DEF AInv, Ready
<1>3. i \in Nat /\ lines[i] \in LooseLine /\ Straight(lines[i], text[i])
  BY <1>1, <1>2 DEF LayoutInv
<1> DEFINE written == Append(Flushed, lines[i])
<1>4. ASSUME NEW k \in DOMAIN written
      PROVE  Straight(written[k], text[k])
  <2>1. k \in 1..i
    BY <1>2, <1>3
  <2>2. CASE k = i
    <3>1. written[k] = lines[k]
      BY <1>2, <1>3, <2>2
    <3> HIDE DEF written
    <3> QED
      BY <1>3, <2>2, <3>1
  <2>3. CASE k # i
    <3>1. k \in DOMAIN Flushed /\ written[k] = Flushed[k]
      BY <1>2, <1>3, <2>1, <2>3
    <3> HIDE DEF written
    <3> QED
      BY <1>1, <3>1, FlushedStraight
  <2> QED
    BY <2>2, <2>3
<1> HIDE DEF written
<1> QED
  BY <1>1, <1>4, LayoutStays DEF written

LEMMA NewLinesStraight ==
  ASSUME LayoutInv, UNCHANGED <<style, text>>, infos' = ClassifyLines(lines'),
         DOMAIN result' = {}, \A k \in DOMAIN lines' : Straight(lines'[k], text[k])
  PROVE  LayoutInv'
BY DEF LayoutInv

LEMMA EndPassStraight ==
  ASSUME AInv, LayoutInv, EndPass
  PROVE  LayoutInv'
<1> DEFINE written == IF state.inGroup THEN result \o GroupLines(i) ELSE result
<1>1. /\ lines' = written /\ infos' = ClassifyLines(written)
      /\ result' = <<>> /\ UNCHANGED <<style, text>>
  BY DEF EndPass
<1>2. \A k \in DOMAIN written : Straight(written[k], text[k])
  <2>1. CASE state.inGroup
    BY <2>1, FlushStraight
  <2>2. CASE ~state.inGroup
    BY <2>2 DEF LayoutInv
  <2> QED
    BY <2>1, <2>2
<1> HIDE DEF written
<1>3. DOMAIN result' = {} /\ infos' = ClassifyLines(lines')
  BY <1>1
<1> QED
  BY <1>1, <1>2, <1>3, NewLinesStraight

\* A bracket that is written anew with no less than no spaces.
CountedAs(dim, was) ==
  /\ dim \in Dim /\ dim.colon = was.colon /\ dim.left = was.left /\ dim.right = was.right
  /\ {dim.lead, dim.before, dim.behind, dim.tail} \subseteq Nat

LEMMA RewrittenCounted ==
  ASSUME NEW line \in LooseLine, NEW f,
         \A j \in DOMAIN line.dims : CountedAs(f[j], line.dims[j])
  PROVE  LET dims == [j \in DOMAIN line.dims |-> f[j]]
         IN  dims \in Seq(Dim) /\ SameDims(dims, line.dims) /\ SpacesCounted(dims)
<1> DEFINE dims == [j \in DOMAIN line.dims |-> f[j]]
<1>1. line.dims \in Seq(Dim)
  BY DEF LooseLine
<1>2. DOMAIN line.dims = 1..Len(line.dims) /\ Len(line.dims) \in Nat
  BY <1>1
<1>3. dims \in Seq(Dim) /\ Len(dims) = Len(line.dims) /\ DOMAIN dims = DOMAIN line.dims
  BY <1>2 DEF CountedAs
<1>4. SameDims(dims, line.dims)
  BY <1>1, <1>3 DEF SameDims, CountedAs
<1>5. SpacesCounted(dims)
  BY <1>3 DEF SpacesCounted, CountedAs
<1> QED
  BY <1>3, <1>4, <1>5

LEMMA CountedItself ==
  ASSUME NEW line \in LooseLine, SpacesCounted(line.dims), NEW j \in DOMAIN line.dims
  PROVE  CountedAs(line.dims[j], line.dims[j])
<1> DEFINE dims == line.dims
<1>1. dims \in Seq(Dim) /\ SpacesCounted(dims)
  BY DEF LooseLine
<1> HIDE DEF dims
<1>2. ASSUME NEW n \in DOMAIN dims
      PROVE  CountedAs(dims[n], dims[n])
  BY <1>1 DEF SpacesCounted, CountedAs
<1> QED
  BY <1>2 DEF dims

LEMMA SpacedByCounted ==
  ASSUME NEW dim, CountedAs(dim, dim), NEW before \in Nat, NEW behind \in Nat
  PROVE  CountedAs(SpacedBy(dim, before, behind), dim)
<1> DEFINE spaced == SpacedBy(dim, before, behind)
<1>1. dim \in Dim /\ dim.lead \in Nat /\ dim.tail \in Nat /\ dim.before \in Nat /\ dim.behind \in Nat
  BY DEF CountedAs
<1>2. /\ spaced \in Dim /\ spaced.colon = dim.colon
      /\ spaced.left = dim.left /\ spaced.right = dim.right
  BY <1>1, SpacedBySame
<1>3. /\ spaced.lead = dim.lead /\ spaced.tail = dim.tail
      /\ spaced.before = before \/ spaced.before = dim.before
      /\ spaced.behind = behind \/ spaced.behind = dim.behind
  <2>1. CASE dim.colon
    <3>1. spaced = [dim EXCEPT !.before = before, !.behind = behind]
      BY <2>1 DEF SpacedBy
    <3> HIDE DEF spaced
    <3> QED
      BY <1>1, <3>1 DEF Dim
  <2>2. CASE ~dim.colon
    <3>1. spaced = dim
      BY <2>2 DEF SpacedBy
    <3> HIDE DEF spaced
    <3> QED
      BY <3>1
  <2> QED
    BY <2>1, <2>2
<1> HIDE DEF spaced
<1>4. CountedAs(spaced, dim)
  BY <1>1, <1>2, <1>3 DEF CountedAs
<1> QED
  BY <1>4 DEF spaced

\* normalizeRangeSpacing and the printer write brackets that way.
LEMMA NormalizedCounted ==
  ASSUME NEW dim, CountedAs(dim, dim)
  PROVE  CountedAs(NormalizeBracketRange(dim), dim)
<1>1. \/ NormalizeBracketRange(dim) = SpacedBy(dim, 1, 1)
      \/ NormalizeBracketRange(dim) = SpacedBy(dim, 0, 0)
  BY DEF NormalizeBracketRange
<1>2. 0 \in Nat /\ 1 \in Nat
  OBVIOUS
<1>3. CountedAs(SpacedBy(dim, 1, 1), dim) /\ CountedAs(SpacedBy(dim, 0, 0), dim)
  BY <1>2, SpacedByCounted, Zenon
<1> QED
  BY <1>1, <1>3

LEMMA EmittedCounted ==
  ASSUME style \in Style, NEW dim, CountedAs(dim, dim)
  PROVE  CountedAs(EmitRangeOperator(dim), dim)
<1> DEFINE before == Min({dim.before, 1})
           behind == Min({dim.behind, 1})
           a == dim.before
           b == dim.behind
<1>1. style.RangeSpacing \in RangeSpacingStyle
  BY DEF Style
<1>2. before \in Nat /\ behind \in Nat
  <2>1. a \in Nat /\ b \in Nat
    BY DEF CountedAs
  <2> HIDE DEF a, b
  <2> a \in Int /\ b \in Int /\ 1 \in Int
    BY <2>1
  <2>2. Min({a, 1}) \in {a, 1} /\ Min({b, 1}) \in {b, 1}
    BY PairBounds, Zenon
  <2>3. Min({a, 1}) \in Nat /\ Min({b, 1}) \in Nat
    BY <2>1, <2>2
  <2> QED
    BY <2>3 DEF a, b
<1> HIDE DEF before, behind
<1>3. \/ EmitRangeOperator(dim) = dim
      \/ EmitRangeOperator(dim) = SpacedBy(dim, 1, 1)
      \/ EmitRangeOperator(dim) = SpacedBy(dim, 0, 0)
      \/ EmitRangeOperator(dim) = SpacedBy(dim, before, behind)
  BY <1>1 DEF EmitRangeOperator, RangeSpacingStyle, before, behind
<1>4. 0 \in Nat /\ 1 \in Nat
  OBVIOUS
<1>5. /\ CountedAs(SpacedBy(dim, 1, 1), dim) /\ CountedAs(SpacedBy(dim, 0, 0), dim)
      /\ CountedAs(SpacedBy(dim, before, behind), dim)
  BY <1>2, <1>4, SpacedByCounted, Zenon
<1> QED
  BY <1>3, <1>5

\* A line that is laid out as another one is so as itself.
LEMMA StraightItself ==
  ASSUME NEW line, NEW was, Straight(line, was)
  PROVE  Straight(line, line)
BY DEF Straight, LaidOut

\* A line with dimensions that have been respaced is laid out, and as it was.
LEMMA RespacedStraight ==
  ASSUME NEW line \in LooseLine, Snug(line), IsInOrder(line), Has(line, "dim"),
         NEW dims \in Seq(Dim), SameDims(dims, line.dims), SpacesCounted(dims)
  PROVE  Straight(WithDims(line, dims), line)
<1> DEFINE wide == WithDims(line, dims)
<1>1. /\ wide \in LooseLine /\ Snug(wide) /\ wide.dims = dims
      /\ DOMAIN wide.words = DOMAIN line.words /\ Indent(wide) = Indent(line)
      /\ \A w \in DOMAIN line.words :
           /\ wide.words[w].what = "dim" => wide.words[w].width = DimsWidth(dims)
           /\ w > 1 => Gap(wide, w) = Gap(line, w)
  BY WithDimsSnug
<1> HIDE DEF wide
<1>2. \A w \in DOMAIN line.words : w > 1 => Gap(line, w) >= 0
  <2> SUFFICES ASSUME NEW w \in DOMAIN line.words PROVE Gap(line, w) >= 0
    OBVIOUS
  <2> DEFINE x == line.words[w].at
             y == EndBefore(line, w)
  <2>1. x \in Nat /\ y \in Nat /\ y <= x /\ Gap(line, w) = x - y
    BY SnugFacts DEF Gap
  <2> HIDE DEF x, y
  <2> QED
    BY <2>1
<1>3. \A w \in DOMAIN wide.words : wide.words[w].at >= 0
  BY <1>1 DEF Snug, IsLaidOut
<1>4. \A w \in DOMAIN wide.words :
        w > 1 => Gap(wide, w) >= 0 /\ (Gap(line, w) > 0 => Gap(wide, w) > 0)
  <2> HIDE DEF Gap
  <2> QED
    BY <1>1, <1>2
<1> QED
  BY <1>1, <1>3, <1>4 DEF Straight, LaidOut, wide

\* The printer lays lines out.
LEMMA PrintedStraight ==
  ASSUME style \in Style, NEW source \in Texts, NEW k \in DOMAIN source
  PROVE  LET line == Printed(source)[k]
         IN  /\ Straight(line, line) /\ IsInOrder(line)
             /\ HasNamesApart(line) /\ IsRecognised(line)
<1> DEFINE was == source[k]
           dims == [j \in DOMAIN was.dims |-> EmitRangeOperator(was.dims[j])]
           line == Printed(source)[k]
<1>1. /\ source \in Seq(LooseLine) /\ Printed(source) \in Seq(LooseLine)
      /\ Len(Printed(source)) = Len(source) /\ Kept(line, was)
      /\ was \in LooseLine
  <2>1. /\ source \in Seq(LooseLine) /\ Printed(source) \in Seq(LooseLine)
        /\ Len(Printed(source)) = Len(source)
        /\ \A j \in DOMAIN source : Kept(Printed(source)[j], source[j])
    BY PrintedTypes
  <2> QED
    BY <2>1
<1>2. line \in LooseLine
  BY <1>1 DEF Kept
<1>3. IsLaidOut(was) /\ IsInOrder(was) /\ HasNamesApart(was) /\ IsRecognised(was)
  BY LinesAssumption
<1>4. Snug(was)
  <2>1. was \in Line
    BY TextsAssumption
  <2>2. \A w \in DOMAIN was.words : was.words[w].width > 0
    <3> DEFINE words == was.words
    <3>1. words \in Seq(Word)
      BY <2>1 DEF Line
    <3> HIDE DEF words
    <3>2. \A w \in DOMAIN words : words[w] \in Word
      BY <3>1
    <3>3. \A w \in DOMAIN words : words[w].width > 0
      BY <3>2 DEF Word
    <3> QED
      BY <3>3 DEF words
  <2> QED
    BY <1>3, <2>2 DEF Snug
<1>5. line = IF Has(was, "dim") THEN WithDims(was, dims) ELSE was
  BY DEF Printed
<1> HIDE DEF line
<1>6. Straight(line, was)
  <2>1. CASE Has(was, "dim")
    <3> DEFINE f == [j \in DOMAIN was.dims |-> EmitRangeOperator(was.dims[j])]
    <3>1. ASSUME NEW j \in DOMAIN was.dims
          PROVE  CountedAs(f[j], was.dims[j])
      <4>1. CountedAs(was.dims[j], was.dims[j])
        BY <1>1, <1>3, CountedItself DEF IsLaidOut
      <4>2. f[j] = EmitRangeOperator(was.dims[j])
        OBVIOUS
      <4> HIDE DEF f
      <4> QED
        BY <4>1, <4>2, EmittedCounted
    <3>2. dims = [j \in DOMAIN was.dims |-> f[j]]
      OBVIOUS
    <3> HIDE DEF f, was
    <3>3. LET new == [j \in DOMAIN was.dims |-> f[j]]
          IN  new \in Seq(Dim) /\ SameDims(new, was.dims) /\ SpacesCounted(new)
      BY <1>1, <3>1, RewrittenCounted
    <3>4. dims \in Seq(Dim) /\ SameDims(dims, was.dims) /\ SpacesCounted(dims)
      BY <3>2, <3>3
    <3> HIDE DEF dims
    <3>5. Straight(WithDims(was, dims), was)
      BY <1>1, <1>3, <1>4, <2>1, <3>4, RespacedStraight
    <3> QED
      BY <1>5, <2>1, <3>5
  <2>2. CASE ~Has(was, "dim")
    <3>1. \A w \in DOMAIN was.words : was.words[w].what # "dim" /\ was.words[w].at >= 0
      BY <1>3, <2>2 DEF Has, IsLaidOut
    <3>2. \A w \in DOMAIN was.words : w > 1 => Gap(was, w) >= 0
      <4> SUFFICES ASSUME NEW w \in DOMAIN was.words PROVE Gap(was, w) >= 0
        OBVIOUS
      <4> DEFINE x == was.words[w].at
                 y == EndBefore(was, w)
      <4>1. x \in Nat /\ y \in Nat /\ y <= x /\ Gap(was, w) = x - y
        BY <1>1, <1>4, SnugFacts DEF Gap
      <4> HIDE DEF x, y
      <4> QED
        BY <4>1
    <3>3. LaidOut(was, was)
      BY <1>3, <3>1, <3>2 DEF LaidOut, IsLaidOut
    <3> QED
      BY <1>4, <1>5, <2>2, <3>3 DEF Straight
  <2> QED
    BY <2>1, <2>2
<1> HIDE DEF line, was
<1>7. Straight(line, line)
  BY <1>6, StraightItself
<1>8. IsInOrder(line)
  BY <1>1, <1>2, <1>3, OrderKept
<1>9. IsRecognised(line) /\ HasNamesApart(line)
  BY <1>1, <1>2, <1>3, <1>4, <1>6, LikeText DEF Straight
<1> QED
  BY <1>7, <1>8, <1>9 DEF line

\* The passes start with lines that are laid out as printed.
LEMMA NormalizeRangeSpacingStraight ==
  ASSUME AInv, LayoutInv, NormalizeRangeSpacing
  PROVE  LayoutInv'
<1> DEFINE Respaced(k) == WithDims(lines[k], [j \in DOMAIN lines[k].dims |->
                                              NormalizeBracketRange(lines[k].dims[j])])
           Chosen(k) == /\ style.align["PackedDimensions"].InferFromSource
                        /\ HasMultiSpaceRange(lines[k]) /\ Has(lines[k], "dim")
                        /\ k \notin PortListAdjacentLines(lines)
           f == [k \in DOMAIN lines |-> IF Chosen(k) THEN Respaced(k) ELSE lines[k]]
<1>1. /\ pass = 0 /\ lines' = f /\ infos' = ClassifyLines(lines')
      /\ UNCHANGED <<style, text, result>>
  BY DEF NormalizeRangeSpacing
<1>2. DOMAIN result' = {}
  <2>1. pass \notin DOMAIN Passes
    BY <1>1 DEF Passes
  <2>2. result' = <<>>
    BY <1>1, <2>1 DEF AInv
  <2> QED
    BY <2>2
<1>3. lines \in Seq(LooseLine) /\ Arranged
  BY LinesArranged DEF AInv, Ready
<1>4. ASSUME NEW k \in DOMAIN lines
      PROVE  Straight(f[k], text[k])
  <2> DEFINE line == lines[k]
             respaced == [j \in DOMAIN line.dims |-> NormalizeBracketRange(line.dims[j])]
  <2>1. line \in LooseLine /\ Straight(line, text[k]) /\ IsInOrder(line)
    BY <1>3 DEF LayoutInv, Arranged
  <2>2. CASE Chosen(k)
    <3>1. f[k] = WithDims(line, respaced) /\ Has(line, "dim")
      BY <2>2
    <3>2. SpacesCounted(line.dims)
      BY <2>1 DEF Straight, LaidOut
    <3> HIDE DEF f, Chosen, line
    <3>3. ASSUME NEW j \in DOMAIN line.dims
          PROVE  CountedAs(respaced[j], line.dims[j])
      <4>1. respaced[j] = NormalizeBracketRange(line.dims[j])
        OBVIOUS
      <4>2. CountedAs(line.dims[j], line.dims[j])
        BY <2>1, <3>2, CountedItself
      <4> HIDE DEF respaced
      <4> QED
        BY <4>1, <4>2, NormalizedCounted
    <3>4. respaced = [j \in DOMAIN line.dims |-> respaced[j]]
      OBVIOUS
    <3> HIDE DEF respaced
    <3>5. LET new == [j \in DOMAIN line.dims |-> respaced[j]]
          IN  new \in Seq(Dim) /\ SameDims(new, line.dims) /\ SpacesCounted(new)
      BY <2>1, <3>3, RewrittenCounted
    <3>6. respaced \in Seq(Dim) /\ SameDims(respaced, line.dims) /\ SpacesCounted(respaced)
      BY <3>4, <3>5
    <3>7. Straight(WithDims(line, respaced), text[k])
      BY <2>1, <3>1, <3>6, WithDimsStraight
    <3> QED
      BY <3>1, <3>7
  <2>3. CASE ~Chosen(k)
    <3>1. f[k] = line
      BY <2>3
    <3> HIDE DEF f, Chosen, line
    <3> QED
      BY <2>1, <3>1
  <2> QED
    BY <2>2, <2>3
<1>5. DOMAIN f = DOMAIN lines
  OBVIOUS
<1> HIDE DEF f
<1>6. \A k \in DOMAIN lines' : Straight(lines'[k], text[k])
  BY <1>1, <1>4, <1>5
<1> QED
  BY <1>1, <1>2, <1>6, NewLinesStraight

\* Where there are two timing controls in a text, none of them waits for an event:
\* a line that does has no operator, and its columns wrap (AlignDeclaration.cpp:189).
EventsAlone == \A t \in Texts : DelaysOnly(t)

SpacesBeforeComments == \A s \in Styles : s.SpacesBeforeTrailingComments > 0

LEMMA LayoutInit ==
  ASSUME EventsAlone, SpacesBeforeComments, Init
  PROVE  LayoutInv
<1>1. /\ style \in Style /\ lines = text /\ infos = ClassifyLines(text) /\ result = <<>>
      /\ style.SpacesBeforeTrailingComments > 0
  BY StylesAssumption DEF Init, SpacesBeforeComments
<1>2. PICK source \in Texts : text = Printed(source)
  BY DEF Init
<1>3. /\ source \in Seq(LooseLine) /\ Len(text) = Len(source) /\ text \in Seq(LooseLine)
      /\ \A k \in DOMAIN source : Kept(text[k], source[k])
  BY <1>1, <1>2, PrintedTypes
<1>4. DOMAIN text = DOMAIN source
  BY <1>3
<1>5. ASSUME NEW k \in DOMAIN text
      PROVE  /\ Straight(text[k], text[k]) /\ IsInOrder(text[k])
             /\ HasNamesApart(text[k]) /\ IsRecognised(text[k])
             /\ IsTiming(text[k]) = IsTiming(source[k]) /\ IsDelayed(text[k]) = IsDelayed(source[k])
  <2>1. /\ Straight(text[k], text[k]) /\ IsInOrder(text[k])
        /\ HasNamesApart(text[k]) /\ IsRecognised(text[k])
    BY <1>1, <1>2, <1>4, PrintedStraight
  <2>2. text[k] \in LooseLine /\ source[k] \in LooseLine /\ Kept(text[k], source[k])
    BY <1>3, <1>4
  <2> QED
    BY <2>1, <2>2, LikeText
<1>6. DelaysOnly(text)
  <2>1. DelaysOnly(source)
    BY DEF EventsAlone
  <2> QED
    BY <1>4, <1>5, <2>1 DEF DelaysOnly
<1>7. DOMAIN result = {}
  BY <1>1
<1> QED
  BY <1>1, <1>5, <1>6, <1>7 DEF LayoutInv

LEMMA LayoutStep ==
  ASSUME AInv, LayoutInv, [Next]_vars
  PROVE  LayoutInv'
<1>1. CASE UNCHANGED vars
  BY <1>1 DEF LayoutInv, vars
<1>2. CASE JoinGroup
  BY <1>2 DEF JoinGroup, LayoutInv
<1>3. CASE SkipPass
  BY <1>3 DEF SkipPass, LayoutInv
<1> QED
  BY <1>1, <1>2, <1>3, StartGroupStraight, PassThroughStraight, EndPassStraight,
     NormalizeRangeSpacingStraight DEF Next

\* Lines with words that have a width are lines.
LEMMA LineOfWords ==
  ASSUME NEW line \in LooseLine, Snug(line)
  PROVE  line \in Line
<1> DEFINE words == line.words
<1>1. words \in Seq(LooseWord)
  BY DEF LooseLine
<1>2. \A w \in DOMAIN words : words[w].width > 0
  BY DEF Snug
<1> HIDE DEF words
<1>3. ASSUME NEW w \in DOMAIN words
      PROVE  words[w] \in Word
  <2> DEFINE word == words[w]
  <2>1. word \in LooseWord /\ word.width > 0
    BY <1>1, <1>2
  <2> HIDE DEF word
  <2>2. word \in Word
    BY <2>1 DEF LooseWord, Word
  <2> QED
    BY <2>2 DEF word
<1>4. words \in Seq(Word)
  BY <1>1, <1>3
<1>5. line.words \in Seq(Word)
  BY <1>4 DEF words
<1> QED
  BY <1>5 DEF LooseLine, Line

LEMMA LinesOfWords ==
  ASSUME NEW ls \in Seq(LooseLine), NEW was, \A k \in DOMAIN ls : Straight(ls[k], was[k])
  PROVE  ls \in Seq(Line)
<1>1. ASSUME NEW k \in DOMAIN ls
      PROVE  ls[k] \in Line
  <2>1. ls[k] \in LooseLine /\ Snug(ls[k])
    BY DEF Straight
  <2> QED
    BY <2>1, LineOfWords
<1> QED
  BY <1>1

\* A line is classified with a width of its keyword.
LEMMA InfosTyped ==
  ASSUME AInv, LayoutInv
  PROVE  infos \in [1..Len(lines) -> LineInfo]
<1>1. lines \in Seq(LooseLine) /\ DOMAIN infos = DOMAIN lines /\ Arranged
  BY LinesArranged DEF AInv, Ready
<1>2. DOMAIN infos = 1..Len(lines)
  BY <1>1
<1>3. infos = [k \in 1..Len(lines) |-> infos[k]]
  BY <1>2 DEF LayoutInv, ClassifyLines
<1>4. ASSUME NEW k \in 1..Len(lines)
      PROVE  infos[k] \in LineInfo
  <2>1. k \in DOMAIN lines
    BY <1>1
  <2>2. infos[k] \in LooseInfo
    BY <2>1, ReadyFacts DEF AInv
  <2>3. infos[k].keywordWidth \in Nat
    <3> DEFINE line == lines[k]
    <3>1. line \in LooseLine /\ Snug(line)
      BY <1>1, <2>1 DEF Arranged, Straight
    <3>2. \/ infos[k].keywordWidth = 0
          \/ /\ Has(line, "keyword")
             /\ infos[k].keywordWidth = line.words[IndexOf(line, "keyword")].width
      BY <1>1, <2>1 DEF Arranged, InfoFits
    <3> HIDE DEF line
    <3>3. Has(line, "keyword") => line.words[IndexOf(line, "keyword")].width \in Nat
      BY <3>1, IndexOfProperties, SnugFacts
    <3> QED
      BY <3>2, <3>3
  <2> QED
    BY <2>2, <2>3 DEF LooseInfo, LineInfo
<1> QED
  BY <1>3, <1>4

LEMMA LayoutTyped ==
  ASSUME AInv, LayoutInv
  PROVE  TypeOK
<1> DEFINE start == Unwritten
           rest == SubSeq(lines, start, Len(lines))
<1>1. /\ text \in Seq(LooseLine) /\ Len(lines) = Len(text) /\ lines \in Seq(LooseLine)
      /\ result \in Seq(LooseLine) /\ Len(result) = start - 1
  BY DEF AInv, Ready, LinesTyped
<1>2. /\ start \in 1..(Len(lines) + 1) /\ i \in 1..(Len(lines) + 1)
      /\ state.inGroup => state.groupStart \in 1..(i - 1)
  <2>1. i \in 1..(Len(lines) + 1) /\ (state.inGroup => state.groupStart \in 1..(i - 1))
    BY DEF AInv, GroupOpen
  <2> QED
    BY <1>1, <2>1 DEF Unwritten
<1>3. Whole = result \o rest
  BY DEF Whole, Unwritten
<1> HIDE DEF start
<1>4. rest \in Seq(LooseLine) /\ Len(rest) = Len(lines) - start + 1
  BY <1>1, <1>2
<1>5. Whole \in Seq(LooseLine) /\ Len(Whole) = Len(text)
  <2>1. result \in Seq(LooseLine) /\ rest \in Seq(LooseLine)
    BY <1>1, <1>4
  <2> HIDE DEF rest
  <2>2. Whole \in Seq(LooseLine) /\ Len(Whole) = Len(result) + Len(rest)
    BY <1>3, <2>1
  <2> QED
    BY <1>1, <1>2, <1>4, <2>2
<1>6. ASSUME NEW k \in DOMAIN Whole
      PROVE  LaidOut(Whole[k], text[k])
  <2>1. k \in 1..Len(text) /\ k \in DOMAIN lines
    BY <1>1, <1>5
  <2>2. \/ Whole[k] = result[k] /\ k \in DOMAIN result
        \/ Whole[k] = lines[k]
    BY <1>1, <1>2, <1>3, <1>4, <2>1
  <2> QED
    BY <2>1, <2>2 DEF LayoutInv, Straight
<1>7. text \in Seq(Line) /\ lines \in Seq(Line) /\ result \in Seq(Line)
  <2>1. /\ \A k \in DOMAIN text : Straight(text[k], text[k])
        /\ \A k \in DOMAIN lines : Straight(lines[k], text[k])
        /\ \A k \in DOMAIN result : Straight(result[k], text[k])
    BY DEF LayoutInv
  <2> QED
    BY <1>1, <2>1, LinesOfWords, Zenon
<1>8. style \in Style /\ pass \in 0..(Len(Passes) + 1)
  BY StylesAssumption DEF AInv
<1> QED
  BY <1>2, <1>6, <1>7, <1>8, InfosTyped DEF TypeOK

-----------------------------------------------------------------------------
(* The theorems. *)

LEMMA LinesAreKept ==
  ASSUME AInv
  PROVE  LinesKept
<1> DEFINE from == Unwritten
           rest == SubSeq(lines, from, Len(lines))
<1>1. /\ text \in Seq(LooseLine) /\ Len(lines) = Len(text) /\ lines \in Seq(LooseLine)
      /\ result \in Seq(LooseLine) /\ Len(result) = from - 1
      /\ \A k \in DOMAIN result : Kept(result[k], lines[k])
      /\ \A k \in DOMAIN lines : Kept(lines[k], text[k])
  BY DEF AInv, Ready, LinesTyped, PaddedWell
<1>2. from \in 1..(Len(lines) + 1)
  <2>1. i \in 1..(Len(lines) + 1) /\ (state.inGroup => state.groupStart \in 1..(i - 1))
    BY DEF AInv, GroupOpen
  <2> QED
    BY <1>1, <2>1 DEF Unwritten
<1>3. Whole = result \o rest
  BY DEF Whole, Unwritten
<1> HIDE DEF from
<1>4. rest \in Seq(LooseLine) /\ Len(rest) = Len(lines) - from + 1
  BY <1>1, <1>2
<1>5. Whole \in Seq(LooseLine) /\ Len(Whole) = Len(text)
  <2>1. result \in Seq(LooseLine) /\ rest \in Seq(LooseLine)
    BY <1>1, <1>4
  <2> HIDE DEF rest
  <2>2. Whole \in Seq(LooseLine) /\ Len(Whole) = Len(result) + Len(rest)
    BY <1>3, <2>1
  <2> QED
    BY <1>1, <1>2, <1>4, <2>2
<1>6. ASSUME NEW k \in DOMAIN Whole
      PROVE  Kept(Whole[k], text[k])
  <2>1. k \in 1..Len(text) /\ k \in DOMAIN lines /\ k \in DOMAIN text
    BY <1>1, <1>5
  <2>2. \/ Whole[k] = result[k] /\ k \in DOMAIN result
        \/ Whole[k] = lines[k]
    BY <1>1, <1>2, <1>3, <1>4, <2>1
  <2>3. lines[k] \in LooseLine /\ text[k] \in LooseLine /\ Kept(lines[k], text[k])
    BY <1>1, <2>1
  <2>4. CASE Whole[k] = lines[k]
    BY <2>3, <2>4
  <2>5. CASE Whole[k] = result[k] /\ k \in DOMAIN result
    <3>1. result[k] \in LooseLine /\ Kept(result[k], lines[k])
      BY <1>1, <2>5
    <3> QED
      BY <2>3, <2>5, <3>1, KeptOn
  <2> QED
    BY <2>2, <2>4, <2>5
<1>7. ASSUME NEW k \in DOMAIN Whole
      PROVE  [Whole[k] EXCEPT !.words = text[k].words, !.dims = text[k].dims] = text[k]
  <2>1. Whole[k] \in LooseLine /\ text[k] \in LooseLine
    BY <1>1, <1>5
  <2> QED
    BY <1>6, <2>1 DEF Kept, LooseLine
<1> QED
  BY <1>5, <1>6, <1>7 DEF LinesKept, Kept

LEMMA AlignmentInvariant == Spec => []AInv
<1>1. Init => AInv
  BY AlignmentInit
<1>2. AInv /\ [Next]_vars => AInv'
  BY AlignmentStep
<1> QED
  BY <1>1, <1>2, PTL DEF Spec

\* applyAlignConsecutive writes every line once, in order and with all its words:
\* whatever opens, joins and ends groups, for every text, style and number of lines.
THEOREM LinesKeptAlways == Spec => []LinesKept
<1>1. AInv => LinesKept
  BY LinesAreKept
<1> QED
  BY <1>1, AlignmentInvariant, PTL

\* An operator only moves to the column of an operator of its depth that nothing
\* the style does not reach across parts from it.
THEOREM NoAlignmentAcrossEver == Spec => []NoAlignmentAcross
<1>1. AInv => NoAlignmentAcross
  BY DEF AInv, PaddedWell, AlignedWithin, NoAlignmentAcross
<1> QED
  BY <1>1, AlignmentInvariant, PTL

\* However many lines join a group, no operator or parenthesis moves further than
\* MaxPadding where alignment is not inferred, nor further than MinPadding where it
\* is inferred and the text shows none.
THEOREM PaddingLimitedAlways == Spec => []PaddingLimited
<1>1. AInv => PaddingLimited
  BY DEF AInv, PaddedWell, WithinLimits, Moved, MovedAtMost, PaddingLimited
<1> QED
  BY <1>1, AlignmentInvariant, PTL

\* No pass pads a line of a region in which formatting is off, whatever groups form
\* around and across the region, if it is switched off in the spelling that
\* classifyLines looks for and none of its lines is taken to carry on a list or has
\* a range spaced by hand.
THEOREM OffLinesUntouchedAlways ==
  OneSpelling /\ NothingCarriedOn /\ NoRangesSpaced /\ BoundariesBare /\ Spec
    => []OffLinesUntouched
<1> SUFFICES ASSUME OffHypotheses
             PROVE  Spec => []OffLinesUntouched
  BY DEF OffHypotheses
<1>1. Init => OffInv
  BY OffInit
<1>2. AInv /\ OffInv /\ [Next]_vars => OffInv'
  BY OffStep
<1>3. AInv /\ OffInv => OffLinesUntouched
  BY OffLinesStay
<1> QED
  BY <1>1, <1>2, <1>3, AlignmentInvariant, PTL DEF Spec

\* No pass lets two words overlap or run into each other, takes spaces away from a
\* bracket that has none, or moves a line from its indentation that does not carry
\* on a list: for all texts, styles and groups, if lines that wait for an event are
\* alone and a comment is set apart from the code.
THEOREM LinesLaidOutAlways == EventsAlone /\ SpacesBeforeComments /\ Spec => []TypeOK
<1> SUFFICES ASSUME EventsAlone, SpacesBeforeComments
             PROVE  Spec => []TypeOK
  OBVIOUS
<1>1. Init => LayoutInv
  BY LayoutInit
<1>2. AInv /\ LayoutInv /\ [Next]_vars => LayoutInv'
  BY LayoutStep
<1>3. AInv /\ LayoutInv => TypeOK
  BY LayoutTyped
<1> QED
  BY <1>1, <1>2, <1>3, AlignmentInvariant, PTL DEF Spec

=============================================================================
