---------------------------- MODULE ReformatProofs ----------------------------
(***************************************************************************)
(* The three theorems about line endings and the one-line pass, for texts  *)
(* of every length and whatever the passes in between make of them.        *)
(*                                                                         *)
(* Each rests on facts about loops over characters, which are proved by    *)
(* induction over the text: what is left of a text that was put together,  *)
(* that what the one-line pass trims is not visible, and that with "cr"    *)
(* written in front of every "lf" the two only stand together.             *)
(***************************************************************************)
EXTENDS Reformat, InductionLemmas, FiniteSetTheorems

\* Texts without carriage returns.
PlainText == Seq(Chars \ {"cr"})

LEMMA PlainIsText == PlainText \subseteq Text
  BY SeqMonotonic DEF PlainText, Text

-----------------------------------------------------------------------------
(* Loops over the characters of a text. *)

LEMMA ForEachAppend ==
  ASSUME NEW R, NEW write \in [Chars -> Seq(R)]
  PROVE  /\ ForEach(<<>>, write) = <<>>
         /\ \A t \in Text : \A c \in Chars :
              ForEach(Append(t, c), write) = ForEach(t, write) \o write[c]
  BY FlattenEach DEF ForEach, Text

LEMMA ForEachType ==
  ASSUME NEW R, NEW write \in [Chars -> Seq(R)], NEW t \in Text
  PROVE  ForEach(t, write) \in Seq(R)
<1> DEFINE T == {s \in Text : ForEach(s, write) \in Seq(R)}
<1>1. <<>> \in T
  <2>1. <<>> \in Text /\ <<>> \in Seq(R)
    BY DEF Text
  <2>2. ForEach(<<>>, write) = <<>>
    BY ForEachAppend
  <2> QED
    BY <2>1, <2>2
<1>2. ASSUME NEW s \in Text, s \in T, NEW c \in Chars
      PROVE  Append(s, c) \in T
  <2>1. ForEach(Append(s, c), write) = ForEach(s, write) \o write[c]
    BY ForEachAppend
  <2>2. Append(s, c) \in Text /\ write[c] \in Seq(R) /\ ForEach(s, write) \in Seq(R)
    BY <1>2 DEF Text
  <2> QED
    BY <2>1, <2>2, ConcatProperties
<1> HIDE DEF T
<1>3. Text \subseteq T
  BY <1>1, <1>2, SequenceInduction DEF Text
<1> QED
  BY <1>3 DEF T

LEMMA ForEachConcat ==
  ASSUME NEW R, NEW write \in [Chars -> Seq(R)], NEW s \in Text, NEW t \in Text
  PROVE  ForEach(s \o t, write) = ForEach(s, write) \o ForEach(t, write)
<1> DEFINE T == {u \in Text : ForEach(s \o u, write) = ForEach(s, write) \o ForEach(u, write)}
<1>1. <<>> \in T
  <2>1. s \o <<>> = s /\ ForEach(s, write) \o <<>> = ForEach(s, write) /\ <<>> \in Text
    BY ForEachType, ConcatEmptySeq DEF Text
  <2> QED
    BY <2>1, ForEachAppend
<1>2. ASSUME NEW u \in Text, u \in T, NEW c \in Chars
      PROVE  Append(u, c) \in T
  <2>1. s \o Append(u, c) = Append(s \o u, c) /\ s \o u \in Text /\ Append(u, c) \in Text
    BY DEF Text
  <2>2. ForEach(Append(s \o u, c), write) = ForEach(s \o u, write) \o write[c]
    BY <2>1, ForEachAppend
  <2>3. ForEach(Append(u, c), write) = ForEach(u, write) \o write[c]
    BY ForEachAppend
  <2>4. /\ ForEach(s, write) \in Seq(R) /\ ForEach(u, write) \in Seq(R) /\ write[c] \in Seq(R)
        /\ ForEach(s \o u, write) = ForEach(s, write) \o ForEach(u, write)
    BY <1>2, ForEachType
  <2>5. (ForEach(s, write) \o ForEach(u, write)) \o write[c]
          = ForEach(s, write) \o (ForEach(u, write) \o write[c])
    BY <2>4, ConcatAssociative
  <2> QED
    BY <2>1, <2>2, <2>3, <2>4, <2>5
<1> HIDE DEF T
<1>3. Text \subseteq T
  BY <1>1, <1>2, SequenceInduction DEF Text
<1> QED
  BY <1>3 DEF T

-----------------------------------------------------------------------------
(* What is left when only some characters are kept. *)

LEMMA OnlyType ==
  ASSUME NEW chars \in SUBSET Chars, NEW t \in Text
  PROVE  Only(t, chars) \in Seq(chars) /\ Only(t, chars) \in Text
<1> DEFINE write == [c \in Chars |-> IF c \in chars THEN <<c>> ELSE <<>>]
<1>1. write \in [Chars -> Seq(chars)]
  OBVIOUS
<1>2. Only(t, chars) = ForEach(t, write)
  BY DEF Only
<1> HIDE DEF write
<1>3. ForEach(t, write) \in Seq(chars)
  BY <1>1, ForEachType
<1>4. Seq(chars) \subseteq Text
  BY SeqMonotonic DEF Text
<1> QED
  BY <1>2, <1>3, <1>4

LEMMA OnlyEmpty ==
  ASSUME NEW chars \in SUBSET Chars
  PROVE  Only(<<>>, chars) = <<>>
<1> DEFINE write == [c \in Chars |-> IF c \in chars THEN <<c>> ELSE <<>>]
<1>1. write \in [Chars -> Seq(chars)]
  OBVIOUS
<1>2. Only(<<>>, chars) = ForEach(<<>>, write)
  BY DEF Only
<1> HIDE DEF write
<1> QED
  BY <1>1, <1>2, ForEachAppend

LEMMA OnlyAppend ==
  ASSUME NEW chars \in SUBSET Chars, NEW t \in Text, NEW c \in Chars
  PROVE  /\ c \in chars => Only(Append(t, c), chars) = Append(Only(t, chars), c)
         /\ c \notin chars => Only(Append(t, c), chars) = Only(t, chars)
<1> DEFINE write == [d \in Chars |-> IF d \in chars THEN <<d>> ELSE <<>>]
<1>1. write \in [Chars -> Seq(chars)] /\ write[c] = IF c \in chars THEN <<c>> ELSE <<>>
  OBVIOUS
<1>2. \A s : Only(s, chars) = ForEach(s, write)
  BY DEF Only
<1> HIDE DEF write
<1>3. Only(Append(t, c), chars) = Only(t, chars) \o write[c]
  BY <1>1, <1>2, ForEachAppend
<1>4. Only(t, chars) \in Text
  BY OnlyType
<1> QED
  BY <1>1, <1>3, <1>4, AppendIsConcat, ConcatEmptySeq DEF Text

LEMMA OnlyConcat ==
  ASSUME NEW chars \in SUBSET Chars, NEW s \in Text, NEW t \in Text
  PROVE  Only(s \o t, chars) = Only(s, chars) \o Only(t, chars)
<1> DEFINE write == [c \in Chars |-> IF c \in chars THEN <<c>> ELSE <<>>]
<1>1. write \in [Chars -> Seq(chars)]
  OBVIOUS
<1>2. \A u : Only(u, chars) = ForEach(u, write)
  BY DEF Only
<1> HIDE DEF write
<1> QED
  BY <1>1, <1>2, ForEachConcat

LEMMA OnlyOnly ==
  ASSUME NEW chars \in SUBSET Chars, NEW more \in SUBSET Chars, chars \subseteq more,
         NEW t \in Text
  PROVE  Only(Only(t, more), chars) = Only(t, chars)
<1> DEFINE T == {s \in Text : Only(Only(s, more), chars) = Only(s, chars)}
<1>1. <<>> \in T
  <2>1. <<>> \in Text
    BY DEF Text
  <2> QED
    BY <2>1, OnlyEmpty
<1>2. ASSUME NEW s \in Text, s \in T, NEW c \in Chars
      PROVE  Append(s, c) \in T
  <2>1. Only(s, more) \in Text /\ Append(s, c) \in Text
    BY OnlyType DEF Text
  <2>2. Only(Only(s, more), chars) = Only(s, chars)
    BY <1>2
  <2>3. CASE c \in more
    <3>1. Only(Append(s, c), more) = Append(Only(s, more), c)
      BY <2>3, OnlyAppend
    <3>2. Only(Append(s, c), chars)
            = IF c \in chars THEN Append(Only(s, chars), c) ELSE Only(s, chars)
      BY OnlyAppend
    <3>3. Only(Append(Only(s, more), c), chars)
            = IF c \in chars THEN Append(Only(Only(s, more), chars), c)
              ELSE Only(Only(s, more), chars)
      BY <2>1, OnlyAppend
    <3> QED
      BY <2>1, <2>2, <3>1, <3>2, <3>3
  <2>4. CASE c \notin more
    <3>1. Only(Append(s, c), more) = Only(s, more)
      BY <2>4, OnlyAppend
    <3>2. Only(Append(s, c), chars) = Only(s, chars)
      BY <2>4, OnlyAppend
    <3> QED
      BY <2>1, <2>2, <3>1, <3>2
  <2> QED
    BY <2>3, <2>4
<1> HIDE DEF T
<1>3. Text \subseteq T
  BY <1>1, <1>2, SequenceInduction DEF Text
<1> QED
  BY <1>3 DEF T

\* Nothing is left of a text that has none of the characters.
LEMMA OnlyNothing ==
  ASSUME NEW chars \in SUBSET Chars, NEW others \in SUBSET (Chars \ chars),
         NEW t \in Seq(others)
  PROVE  Only(t, chars) = <<>>
<1> DEFINE T == {s \in Seq(others) : Only(s, chars) = <<>>}
<1>1. Seq(others) \subseteq Text
  BY SeqMonotonic DEF Text
<1>2. <<>> \in T
  BY OnlyEmpty
<1>3. ASSUME NEW s \in Seq(others), s \in T, NEW c \in others
      PROVE  Append(s, c) \in T
  <2>1. Only(Append(s, c), chars) = Only(s, chars)
    BY <1>1, OnlyAppend
  <2> QED
    BY <1>3, <2>1
<1> HIDE DEF T
<1>4. Seq(others) \subseteq T
  BY <1>2, <1>3, SequenceInduction
<1> QED
  BY <1>4 DEF T

LEMMA VisibleConcat ==
  /\ Visible(<<>>) = <<>>
  /\ \A s, t \in Text : Visible(s \o t) = Visible(s) \o Visible(t)
  /\ \A t \in Text : Visible(t) \in Text
<1> DEFINE seen == {"code", "match"}
<1>1. seen \in SUBSET Chars /\ \A t : Visible(t) = Only(t, seen)
  BY DEF Visible, Chars
<1> HIDE DEF seen
<1> QED
  BY <1>1, OnlyEmpty, OnlyType, OnlyConcat

LEMMA VisibleStripped ==
  ASSUME NEW t \in Text
  PROVE  /\ StripCarriageReturns(t) \in PlainText
         /\ Visible(StripCarriageReturns(t)) = Visible(t)
<1> DEFINE seen == {"code", "match"}
           kept == Chars \ {"cr"}
<1>1. seen \in SUBSET Chars /\ kept \in SUBSET Chars /\ seen \subseteq kept
  BY DEF Chars
<1> HIDE DEF seen, kept
<1>2. Only(Only(t, kept), seen) = Only(t, seen) /\ Only(t, kept) \in Seq(kept)
  BY <1>1, OnlyOnly, OnlyType
<1> QED
  BY <1>2 DEF Visible, StripCarriageReturns, seen, kept, PlainText

-----------------------------------------------------------------------------
(* The one-line pass. *)

LEMMA SmallestNumber ==
  ASSUME NEW S, S \subseteq Nat, S # {}
  PROVE  Min(S) \in S /\ \A y \in S : Min(S) <= y
<1>1. \E x \in S : \A y \in S : x <= y
  BY LeastNumber
<1> QED
  BY <1>1 DEF Min

\* A text in two parts.
LEMMA Parts ==
  ASSUME NEW S, NEW t \in Seq(S), NEW m \in 1..(Len(t) + 1), NEW n \in (m - 1)..Len(t)
  PROVE  /\ SubSeq(t, 1, m - 1) \in Seq(S) /\ SubSeq(t, m, n) \in Seq(S)
         /\ SubSeq(t, 1, m - 1) \o SubSeq(t, m, n) = SubSeq(t, 1, n)
         /\ Len(SubSeq(t, m, n)) = n - m + 1
  OBVIOUS

LEMMA LineAtIsPart ==
  ASSUME NEW S, NEW t \in Seq(S), NEW from \in 1..Len(t)
  PROVE  \E last \in from..Len(t) : LineAt(t, from) = SubSeq(t, from, last)
<1> DEFINE ends == {k \in Newlines(t) : k >= from} \cup {Len(t)}
<1>1. ends \subseteq Nat /\ ends # {} /\ \A k \in ends : k \in from..Len(t)
  BY DEF Newlines
<1>2. LineAt(t, from) = SubSeq(t, from, Min(ends))
  BY DEF LineAt
<1> HIDE DEF ends
<1>3. Min(ends) \in ends
  BY <1>1, SmallestNumber
<1> QED
  BY <1>1, <1>2, <1>3

\* What is trimmed from a line is not visible.
LEMMA VisibleTrimmed ==
  ASSUME NEW chars \in SUBSET Chars, NEW line \in Seq(chars)
  PROVE  Trimmed(line) \in Seq(chars) /\ Visible(Trimmed(line)) = Visible(line)
<1> DEFINE content == {k \in DOMAIN line : line[k] # "space"}
           seen == {"code", "match"}
<1>1. \A s \in Seq({"space"}) : Visible(s) = <<>>
  <2>1. seen \in SUBSET Chars /\ {"space"} \in SUBSET (Chars \ seen)
    BY DEF Chars
  <2> HIDE DEF seen
  <2>2. \A s \in Seq({"space"}) : Only(s, seen) = <<>>
    BY <2>1, OnlyNothing
  <2> QED
    BY <2>2 DEF Visible, seen
<1>2. line \in Text /\ Len(line) \in Nat /\ DOMAIN line = 1..Len(line)
  BY SeqMonotonic DEF Text
<1>3. CASE content = {}
  <2>1. Trimmed(line) = <<>>
    BY <1>3 DEF Trimmed
  <2>2. line \in Seq({"space"})
    BY <1>2, <1>3
  <2> QED
    BY <1>1, <2>1, <2>2, VisibleConcat
<1>4. CASE content # {}
  <2>1. content \subseteq Nat
    BY <1>2
  <2>2. Trimmed(line) = SubSeq(line, Min(content), Len(line))
    BY <1>4 DEF Trimmed
  <2>3. \A k \in 1..Len(line) : k \notin content => line[k] = "space"
    BY <1>2
  <2>4. content \subseteq 1..Len(line)
    BY <1>2
  <2> HIDE DEF content
  <2>5. Min(content) \in content /\ \A k \in content : Min(content) <= k
    BY <1>4, <2>1, SmallestNumber
  <2>6. PICK m \in 1..Len(line) : m = Min(content)
    BY <2>4, <2>5
  <2> DEFINE blank == SubSeq(line, 1, m - 1)
             rest == SubSeq(line, m, Len(line))
  <2>7. blank \in Seq(chars) /\ rest \in Seq(chars) /\ blank \o rest = line
    <3>1. /\ m \in 1..(Len(line) + 1) /\ Len(line) \in (m - 1)..Len(line)
          /\ SubSeq(line, 1, Len(line)) = line
      BY <1>2
    <3> QED
      BY <3>1, Parts
  <2>8. blank \in Seq({"space"})
    <3>1. \A k \in 1..(m - 1) : line[k] = "space"
      BY <1>2, <2>3, <2>5, <2>6
    <3> QED
      BY <1>2, <3>1
  <2>9. blank \in Text /\ rest \in Text
    BY <2>7, SeqMonotonic DEF Text
  <2> HIDE DEF blank, rest
  <2>10. Visible(line) = Visible(blank) \o Visible(rest) /\ Visible(rest) \in Text
    BY <2>7, <2>9, VisibleConcat
  <2>11. Visible(blank) = <<>>
    BY <1>1, <2>8
  <2>12. Visible(line) = Visible(rest)
    BY <2>10, <2>11, ConcatEmptySeq DEF Text
  <2> QED
    BY <2>2, <2>6, <2>7, <2>12 DEF rest
<1> QED
  BY <1>3, <1>4

-----------------------------------------------------------------------------
(* The line ending. *)

\* "cr" and "lf" only stand together.
Paired(t) ==
  /\ \A k \in DOMAIN t : t[k] = "lf" => k - 1 \in DOMAIN t /\ t[k - 1] = "cr"
  /\ \A k \in DOMAIN t : t[k] = "cr" => k + 1 \in DOMAIN t /\ t[k + 1] = "lf"

LEMMA PairedConcat ==
  ASSUME NEW s \in Text, NEW t \in Text, Paired(s), Paired(t)
  PROVE  Paired(s \o t)
<1> DEFINE u == s \o t
           m == Len(s)
           n == Len(t)
<1>1. /\ m \in Nat /\ n \in Nat /\ DOMAIN s = 1..m /\ DOMAIN t = 1..n
      /\ DOMAIN u = 1..(m + n)
      /\ \A k \in 1..m : u[k] = s[k]
      /\ \A k \in 1..n : u[m + k] = t[k]
  BY DEF Text
<1> HIDE DEF u, m, n
<1>2. ASSUME NEW k \in DOMAIN u, u[k] = "lf"
      PROVE  k - 1 \in DOMAIN u /\ u[k - 1] = "cr"
  <2>1. CASE k <= m
    <3>1. k \in 1..m /\ s[k] = "lf"
      BY <1>1, <1>2, <2>1
    <3>2. k - 1 \in 1..m /\ s[k - 1] = "cr"
      BY <1>1, <3>1 DEF Paired
    <3> QED
      BY <1>1, <3>2
  <2>2. CASE k > m
    <3>1. k - m \in 1..n /\ m + (k - m) = k
      BY <1>1, <1>2, <2>2
    <3>2. t[k - m] = "lf"
      BY <1>1, <1>2, <3>1
    <3>3. k - m - 1 \in 1..n /\ t[k - m - 1] = "cr"
      BY <1>1, <3>1, <3>2 DEF Paired
    <3>4. m + (k - m - 1) = k - 1
      BY <1>1, <1>2
    <3> QED
      BY <1>1, <3>3, <3>4
  <2> QED
    BY <1>1, <2>1, <2>2
<1>3. ASSUME NEW k \in DOMAIN u, u[k] = "cr"
      PROVE  k + 1 \in DOMAIN u /\ u[k + 1] = "lf"
  <2>1. CASE k <= m
    <3>1. k \in 1..m /\ s[k] = "cr"
      BY <1>1, <1>3, <2>1
    <3>2. k + 1 \in 1..m /\ s[k + 1] = "lf"
      BY <1>1, <3>1 DEF Paired
    <3> QED
      BY <1>1, <3>2
  <2>2. CASE k > m
    <3>1. k - m \in 1..n /\ m + (k - m) = k
      BY <1>1, <1>3, <2>2
    <3>2. t[k - m] = "cr"
      BY <1>1, <1>3, <3>1
    <3>3. k - m + 1 \in 1..n /\ t[k - m + 1] = "lf"
      BY <1>1, <3>1, <3>2 DEF Paired
    <3>4. m + (k - m + 1) = k + 1
      BY <1>1, <1>3
    <3> QED
      BY <1>1, <3>3, <3>4
  <2> QED
    BY <1>1, <2>1, <2>2
<1>4. Paired(u)
  BY <1>2, <1>3 DEF Paired
<1> QED
  BY <1>4 DEF u

LEMMA LineEndingApplied ==
  ASSUME NEW t \in PlainText
  PROVE  /\ ApplyLineEnding(t) \in Text
         /\ Paired(ApplyLineEnding(t))
         /\ Visible(ApplyLineEnding(t)) = Visible(t)
<1> DEFINE write == [c \in Chars |-> IF c = "lf" THEN <<"cr", "lf">> ELSE <<c>>]
           seen == {"code", "match"}
           T == {s \in PlainText : /\ Paired(ApplyLineEnding(s))
                                   /\ Visible(ApplyLineEnding(s)) = Visible(s)}
<1>1. write \in [Chars -> Seq(Chars)]
  BY DEF Chars
<1>2. \A s : ApplyLineEnding(s) = ForEach(s, write)
  BY DEF ApplyLineEnding
<1>3. \A c \in Chars : write[c] = IF c = "lf" THEN <<"cr", "lf">> ELSE <<c>>
  OBVIOUS
<1> HIDE DEF write
<1>4. \A s \in Text : ApplyLineEnding(s) \in Text
  BY <1>1, <1>2, ForEachType DEF Text
<1>5. <<>> \in PlainText /\ ApplyLineEnding(<<>>) = <<>>
  BY <1>1, <1>2, ForEachAppend DEF PlainText
<1>6. <<>> \in T
  BY <1>5 DEF Paired
<1>7. ASSUME NEW c \in Chars \ {"cr"}
      PROVE  /\ write[c] \in Text /\ Paired(write[c])
             /\ Visible(write[c]) = Visible(<<c>>)
  <2>1. CASE c = "lf"
    <3>1. write[c] = <<"cr", "lf">> /\ Paired(<<"cr", "lf">>) /\ <<"cr", "lf">> \in Text
      BY <1>3, <2>1 DEF Paired, Text, Chars
    <3>2. Visible(<<"cr", "lf">>) = <<>> /\ Visible(<<"lf">>) = <<>>
      <4>1. seen \in SUBSET Chars /\ {"cr", "lf"} \in SUBSET (Chars \ seen)
        BY DEF Chars
      <4>2. <<"cr", "lf">> \in Seq({"cr", "lf"}) /\ <<"lf">> \in Seq({"cr", "lf"})
        OBVIOUS
      <4> HIDE DEF seen
      <4>3. \A s \in Seq({"cr", "lf"}) : Only(s, seen) = <<>>
        BY <4>1, OnlyNothing
      <4> QED
        BY <4>2, <4>3 DEF Visible, seen
    <3> QED
      BY <2>1, <3>1, <3>2
  <2>2. CASE c # "lf"
    <3>1. write[c] = <<c>>
      BY <1>3, <2>2
    <3> QED
      BY <2>2, <3>1 DEF Paired, Text
  <2> QED
    BY <2>1, <2>2
<1>8. ASSUME NEW s \in PlainText, s \in T, NEW c \in Chars \ {"cr"}
      PROVE  Append(s, c) \in T
  <2>1. s \in Text /\ Append(s, c) \in PlainText /\ <<c>> \in Text
    BY PlainIsText DEF PlainText, Text
  <2>2. Append(s, c) = s \o <<c>>
    BY AppendIsConcat DEF PlainText
  <2>3. ApplyLineEnding(Append(s, c)) = ApplyLineEnding(s) \o write[c]
    BY <1>1, <1>2, <2>1, ForEachAppend
  <2>4. ApplyLineEnding(s) \in Text /\ write[c] \in Text /\ Paired(ApplyLineEnding(s))
    BY <1>4, <1>7, <1>8, <2>1
  <2>5. Paired(ApplyLineEnding(Append(s, c)))
    BY <1>7, <2>3, <2>4, PairedConcat
  <2>6. Visible(ApplyLineEnding(Append(s, c))) = Visible(s) \o Visible(<<c>>)
    BY <1>7, <1>8, <2>3, <2>4, VisibleConcat
  <2>7. Visible(Append(s, c)) = Visible(s) \o Visible(<<c>>)
    BY <2>1, <2>2, VisibleConcat
  <2> QED
    BY <2>1, <2>5, <2>6, <2>7
<1> HIDE DEF T
<1>9. PlainText \subseteq T
  BY <1>6, <1>8, SequenceInduction DEF PlainText
<1> QED
  BY <1>4, <1>9, PlainIsText DEF T

-----------------------------------------------------------------------------
(* The invariant: what the text is at every stage. *)

Before == stage \in {"resolve", "strip", "format"} => pos = 1 /\ result = <<>>

\* The one-line pass has written the lines in front of pos.
Lines ==
  /\ formatted \in PlainText /\ text = formatted /\ result \in PlainText
  /\ pos \in 1..(Len(text) + 1)
  /\ Visible(result) = Visible(SubSeq(text, 1, pos - 1))

\* The text, but for the line ending.
IsResult(plain) == plain \in PlainText /\ Visible(plain) = Visible(formatted)

IInv ==
  /\ style \in Style /\ source \in Sources /\ stage \in Stages
  /\ Before
  /\ stage \in {"resolve", "strip"} => text = source
  /\ stage = "format" => text = StripCarriageReturns(source)
  /\ stage # "resolve" => resolved = ResolveLineEnding(source, style.LineEnding)
  /\ stage = "one line" => Lines
  /\ stage = "ending" => IsResult(text)
  /\ stage = "done" =>
       \E plain \in PlainText :
         /\ IsResult(plain)
         /\ text = IF resolved = "CRLF" THEN ApplyLineEnding(plain) ELSE plain

LEMMA InitInv == Init => IInv
  BY StylesAssumption DEF Init, IInv, Before, Stages

LEMMA FormatStep ==
  ASSUME IInv, Format
  PROVE  IInv'
<1>1. text' \in PlainText
  BY FormatsAssumption DEF IInv, Format, PlainText, StripCarriageReturns
<1>2. /\ UNCHANGED <<style, source, resolved, pos, result>>
      /\ stage = "format" /\ stage' \in {"one line", "ending"} /\ formatted' = text'
  BY DEF Format
<1>3. Lines'
  <2>1. pos' = 1 /\ result' = <<>>
    BY <1>2 DEF IInv, Before
  <2>2. Len(text') \in Nat
    BY <1>1 DEF PlainText
  <2>3. SubSeq(text', 1, pos' - 1) = <<>>
    BY <2>1, SubSeqEmpty
  <2>4. <<>> \in PlainText
    BY DEF PlainText
  <2>5. Visible(result)' = Visible(SubSeq(text, 1, pos - 1))'
    BY <2>1, <2>3
  <2>6. pos' \in 1..(Len(text') + 1)
    BY <2>1, <2>2
  <2> QED
    BY <1>1, <1>2, <2>1, <2>4, <2>5, <2>6 DEF Lines
<1>4. IsResult(text)'
  BY <1>1, <1>2 DEF IsResult
<1> QED
  BY <1>2, <1>3, <1>4 DEF IInv, Before, Stages

LEMMA LineStep ==
  ASSUME IInv, OneLineFormatOff
  PROVE  IInv'
<1> DEFINE plain == Chars \ {"cr"}
           done == SubSeq(text, 1, pos - 1)
           line == LineAt(text, pos)
<1>1. /\ stage = "one line" /\ pos <= Len(text) /\ Lines
      /\ UNCHANGED <<style, source, stage, resolved, formatted, text>>
      /\ result' = result \o FormattedOff(line) /\ pos' = pos + Len(line)
  BY DEF IInv, OneLineFormatOff
<1>2. plain \in SUBSET Chars /\ text \in Seq(plain) /\ result \in Seq(plain)
  BY <1>1 DEF Lines, PlainText
<1>3. pos \in 1..Len(text) /\ Len(text) \in Nat
  <2>1. pos \in 1..(Len(text) + 1) /\ pos <= Len(text)
    BY <1>1 DEF Lines
  <2>2. Len(text) \in Nat
    BY <1>2
  <2> QED
    BY <2>1, <2>2
<1>4. PICK last \in pos..Len(text) : line = SubSeq(text, pos, last)
  BY <1>2, <1>3, LineAtIsPart
<1>5. /\ done \in Seq(plain) /\ line \in Seq(plain)
      /\ done \o line = SubSeq(text, 1, last) /\ Len(line) = last - pos + 1
  <2>1. pos \in 1..(Len(text) + 1) /\ last \in (pos - 1)..Len(text)
    BY <1>3
  <2> HIDE DEF line, plain
  <2> QED
    BY <1>2, <1>4, <2>1, Parts
<1> HIDE DEF done, line
<1>6. FormattedOff(line) \in Seq(plain) /\ Visible(FormattedOff(line)) = Visible(line)
  <2>1. Trimmed(line) \in Seq(plain) /\ Visible(Trimmed(line)) = Visible(line)
    <3> HIDE DEF plain
    <3> QED
      BY <1>2, <1>5, VisibleTrimmed
  <2> QED
    BY <1>5, <2>1 DEF FormattedOff
<1>7. Visible(result) = Visible(done)
  BY <1>1 DEF Lines, done
<1>8. Seq(plain) \subseteq Text
  BY PlainIsText DEF PlainText
<1>9. result' \in Seq(plain)
  BY <1>1, <1>2, <1>6, ConcatProperties
<1>10. Visible(result') = Visible(SubSeq(text, 1, last))
  <2>1. Visible(result \o FormattedOff(line)) = Visible(result) \o Visible(FormattedOff(line))
    BY <1>2, <1>6, <1>8, VisibleConcat
  <2>2. Visible(done \o line) = Visible(done) \o Visible(line)
    BY <1>5, <1>8, VisibleConcat
  <2> QED
    BY <1>1, <1>5, <1>6, <1>7, <2>1, <2>2
<1>11. pos' = last + 1 /\ pos' \in 1..(Len(text) + 1) /\ pos' - 1 = last
  <2>1. pos' = pos + (last - pos + 1)
    BY <1>1, <1>5
  <2>2. pos \in Nat /\ last \in Nat /\ last <= Len(text)
    BY <1>3
  <2> QED
    BY <1>3, <2>1, <2>2
<1>12. Visible(result)' = Visible(SubSeq(text, 1, pos - 1))'
  BY <1>1, <1>10, <1>11
<1>13. Lines'
  BY <1>1, <1>9, <1>11, <1>12 DEF Lines, PlainText
<1> QED
  BY <1>1, <1>13 DEF IInv, Before

LEMMA EndLinesStep ==
  ASSUME IInv, EndOneLineFormatOff
  PROVE  IInv'
<1>1. /\ stage = "one line" /\ pos > Len(text) /\ Lines /\ text' = result /\ stage' = "ending"
      /\ UNCHANGED <<style, source, resolved, formatted, pos, result>>
  BY DEF IInv, EndOneLineFormatOff
<1>2. pos - 1 = Len(text) /\ SubSeq(text, 1, pos - 1) = text
  <2>1. text \in PlainText /\ pos \in 1..(Len(text) + 1) /\ pos > Len(text)
    BY <1>1 DEF Lines
  <2>2. Len(text) \in Nat /\ SubSeq(text, 1, Len(text)) = text
    BY <2>1 DEF PlainText
  <2>3. pos - 1 = Len(text)
    BY <2>1, <2>2
  <2> QED
    BY <2>2, <2>3
<1>3. Visible(result) = Visible(formatted) /\ result \in PlainText
  BY <1>1, <1>2 DEF Lines
<1>4. IsResult(text)'
  BY <1>1, <1>3 DEF IsResult
<1> QED
  BY <1>1, <1>4 DEF IInv, Before, Stages

LEMMA EndingStep ==
  ASSUME IInv, LineEnding
  PROVE  IInv'
<1>1. /\ stage = "ending" /\ stage' = "done" /\ IsResult(text)
      /\ text' = IF resolved = "CRLF" THEN ApplyLineEnding(text) ELSE text
      /\ UNCHANGED <<style, source, resolved, formatted, pos, result>>
  BY DEF IInv, LineEnding
<1>2. PICK plain \in PlainText : plain = text
  BY <1>1 DEF IsResult
<1>3. IsResult(plain)' /\ text' = IF resolved' = "CRLF" THEN ApplyLineEnding(plain) ELSE plain
  BY <1>1, <1>2 DEF IsResult
<1> QED
  BY <1>1, <1>3 DEF IInv, Before, Stages

LEMMA NextInv == IInv /\ [Next]_vars => IInv'
<1> SUFFICES ASSUME IInv, [Next]_vars PROVE IInv'
  OBVIOUS
<1>1. CASE Resolve
  BY <1>1 DEF Resolve, IInv, Before, Stages
<1>2. CASE Strip
  BY <1>2 DEF Strip, IInv, Before, Stages
<1>3. CASE UNCHANGED vars
  BY <1>3 DEF vars, IInv, Before, Lines, IsResult
<1> QED
  BY <1>1, <1>2, <1>3, FormatStep, LineStep, EndLinesStep, EndingStep DEF Next, Step, Done

LEMMA Invariant == Spec => []IInv
  BY InitInv, NextInv, PTL DEF Spec

-----------------------------------------------------------------------------
(* The theorems. *)

LEMMA PlainEndings ==
  ASSUME NEW t \in PlainText
  PROVE  CarriageReturns(t) = {} /\ \A k \in DOMAIN t : t[k] # "cr"
<1>1. \A k \in DOMAIN t : t[k] # "cr"
  BY DEF PlainText
<1>2. \A k \in Newlines(t) : k > 1 => k - 1 \in DOMAIN t
  BY DEF Newlines, PlainText
<1> QED
  BY <1>1, <1>2 DEF CarriageReturns

LEMMA PairedEndings ==
  ASSUME NEW t \in Text, Paired(t)
  PROVE  /\ CarriageReturns(t) = Newlines(t)
         /\ \A k \in DOMAIN t : t[k] = "cr" => k + 1 \in CarriageReturns(t)
<1>1. DOMAIN t = 1..Len(t) /\ Len(t) \in Nat
  BY DEF Text
<1>2. \A k \in Newlines(t) : k > 1 /\ t[k - 1] = "cr"
  BY <1>1 DEF Newlines, Paired
<1>3. CarriageReturns(t) = Newlines(t)
  BY <1>2 DEF CarriageReturns
<1> QED
  BY <1>1, <1>3 DEF Newlines, Paired

LEMMA Uniform == IInv => EndingsUniform
<1> SUFFICES ASSUME IInv, stage = "done" PROVE EndingsUniform
  BY DEF EndingsUniform
<1>1. PICK plain \in PlainText :
        text = IF resolved = "CRLF" THEN ApplyLineEnding(plain) ELSE plain
  BY DEF IInv
<1>2. CASE resolved = "CRLF"
  BY <1>1, <1>2, LineEndingApplied, PairedEndings DEF EndingsUniform
<1>3. CASE resolved # "CRLF"
  BY <1>1, <1>3, PlainEndings DEF EndingsUniform
<1> QED
  BY <1>2, <1>3

\* A text has newlines exactly when they are more than none.
LEMMA CountNewlines ==
  ASSUME NEW t \in Text, Newlines(t) # {}
  PROVE  Cardinality(Newlines(t)) \in Nat /\ Cardinality(Newlines(t)) > 0
<1>1. Newlines(t) \subseteq 1..Len(t) /\ IsFiniteSet(1..Len(t))
  <2>1. Len(t) \in Int /\ DOMAIN t = 1..Len(t)
    BY DEF Text
  <2> QED
    BY <2>1, FS_Interval DEF Newlines
<1>2. IsFiniteSet(Newlines(t))
  BY <1>1, FS_Subset
<1> QED
  BY <1>2, FS_CardinalityType, FS_EmptySet

LEMMA Stable == IInv => EndingStable
<1> SUFFICES ASSUME IInv, stage = "done", Newlines(text) # {}
             PROVE  ResolveLineEnding(text, style.LineEnding) = resolved
  BY DEF EndingStable
<1> DEFINE wanted == style.LineEnding
<1>1. wanted \in LineEndingStyle /\ resolved = ResolveLineEnding(source, wanted)
  BY DEF IInv, Style
<1>2. PICK plain \in PlainText :
        text = IF resolved = "CRLF" THEN ApplyLineEnding(plain) ELSE plain
  BY DEF IInv
<1>3. text \in Text
  BY <1>2, LineEndingApplied, PlainIsText
<1>4. Cardinality(Newlines(text)) \in Nat /\ Cardinality(Newlines(text)) > 0
  BY <1>3, CountNewlines
<1>5. Cardinality({}) = 0
  BY FS_EmptySet
<1> HIDE DEF wanted
<1>6. CASE wanted \in {"LF", "CRLF"}
  BY <1>1, <1>6 DEF ResolveLineEnding, wanted
<1>7. CASE wanted \in {"DeriveCRLF", "DeriveLF"} /\ resolved = "CRLF"
  <2>1. CarriageReturns(text) = Newlines(text)
    BY <1>2, <1>3, <1>7, LineEndingApplied, PairedEndings
  <2>2. Cardinality(Newlines(text) \ CarriageReturns(text)) = 0
    BY <1>5, <2>1
  <2>3. ResolveLineEnding(text, wanted) = "CRLF"
    BY <1>4, <1>7, <2>1, <2>2 DEF ResolveLineEnding
  <2> QED
    BY <1>7, <2>3 DEF wanted
<1>8. CASE wanted \in {"DeriveCRLF", "DeriveLF"} /\ resolved # "CRLF"
  <2>1. CarriageReturns(text) = {}
    BY <1>2, <1>8, PlainEndings
  <2>2. /\ Cardinality(CarriageReturns(text)) = 0
        /\ Newlines(text) \ CarriageReturns(text) = Newlines(text)
    BY <1>5, <2>1
  <2>3. ResolveLineEnding(text, wanted) = "LF"
    BY <1>4, <1>8, <2>2 DEF ResolveLineEnding
  <2>4. resolved = "LF"
    BY <1>1, <1>8 DEF ResolveLineEnding
  <2> QED
    BY <2>3, <2>4 DEF wanted
<1> QED
  BY <1>1, <1>6, <1>7, <1>8 DEF LineEndingStyle

LEMMA Kept == IInv => ContentKept
<1> SUFFICES ASSUME IInv PROVE ContentKept
  OBVIOUS
<1>1. source \in Text
  BY SourcesAssumption DEF IInv
<1>2. stage \in {"strip", "format"} => Visible(text) = Visible(source)
  BY <1>1, VisibleStripped DEF IInv
<1>3. stage \in {"one line", "ending"} => Visible(text) = Visible(formatted)
  BY DEF IInv, Lines, IsResult
<1>4. stage = "done" => Visible(text) = Visible(formatted)
  <2> SUFFICES ASSUME stage = "done" PROVE Visible(text) = Visible(formatted)
    OBVIOUS
  <2>1. PICK plain \in PlainText :
          /\ Visible(plain) = Visible(formatted)
          /\ text = IF resolved = "CRLF" THEN ApplyLineEnding(plain) ELSE plain
    BY DEF IInv, IsResult
  <2> QED
    BY <2>1, LineEndingApplied
<1> QED
  BY <1>2, <1>3, <1>4 DEF ContentKept, IInv, Lines

\* applyLineEnding behind stripCarriageReturns: whatever the source mixes, the
\* result has the resolved line ending on every line and no other carriage return.
THEOREM OneLineEnding == Spec => []EndingsUniform
  BY Invariant, Uniform, PTL

\* resolveLineEnding gives the same answer for the result as for the source, with
\* any style: formatting again changes no line ending.
THEOREM LineEndingStable == Spec => []EndingStable
  BY Invariant, Stable, PTL

\* stripCarriageReturns, applyOneLineFormatOff and applyLineEnding drop and
\* rearrange nothing that is visible, and the one-line pass takes every line once,
\* the last one without a newline included.
THEOREM NothingVisibleLost == Spec => []ContentKept
  BY Invariant, Kept, PTL
=============================================================================
