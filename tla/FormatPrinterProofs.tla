------------------------- MODULE FormatPrinterProofs -------------------------
(***************************************************************************)
(* The theorems about the printer: the inductive invariant, that every     *)
(* helper, every handler and so every step keeps it, and that it implies   *)
(* the type invariant, the invariants of the lines and that of the depth.  *)
(*                                                                         *)
(* LineStartBeginsLine and MetadataPerLine are kept by every helper of the *)
(* printer on its own, AtLineStartMeansNoText is not: stripping spaces     *)
(* needs the first, and an end of line may only be dropped by the last.    *)
(* The invariant is their conjunction with the types, with the arguments   *)
(* of the pending calls: tokens, trivia and nodes that the document has,   *)
(* with the depth to which these calls lead, back to zero, and with what   *)
(* they do to a line comment: whenever the output ends with one, the next  *)
(* call is the one for the end of line behind it.                          *)
(***************************************************************************)
EXTENDS PrinterProperties, InductionLemmas, FiniteSetTheorems, SequenceTheorems,
        WellFoundedInduction, TLAPS

-----------------------------------------------------------------------------
(* The helpers. *)

\* How many lines the comments of the documents span.
CommentLines ==
  {n \in Nat : \E d \in Documents : \E i \in DOMAIN d.toks :
     \E j \in DOMAIN d.toks[i].trivia :
       IsComment(d.toks[i].trivia[j]) /\ n = d.toks[i].trivia[j].lines}

\* The newlines that outputLineNumber counts for an item: not those of comments.
Counted(item) == IF item.kind = "comment" THEN 0 ELSE NewlinesIn(item)

\* The record of the end of line at item i.
RecordAt(p, i) == p.lineMetadata[NewlineCount(SubSeq(p.output, 1, i))]

\* lines[n] newlines are counted up to item n.
NumberedBy(p, lines) ==
  /\ lines[0] = 0 /\ lines[Len(p.output)] = p.outputLineNumber
  /\ \A n \in 1..Len(p.output) : lines[n] = lines[n - 1] + Counted(p.output[n])
  /\ \A n \in 1..Len(p.output) :
       p.output[n].kind = "newline" => RecordAt(p, n).lineNumber = lines[n - 1]

\* Each end of line has a record of its own under the number of newlines
\* counted in front of it.
Numbered(p) ==
  /\ \E lines \in [0..Len(p.output) -> Nat] : NumberedBy(p, lines)
  /\ \A n \in 1..Len(p.output) :
       p.output[n].kind = "newline" =>
         NewlineCount(SubSeq(p.output, 1, n)) \in DOMAIN p.lineMetadata
  /\ \A n \in 1..Len(p.output) :
       p.output[n].kind = "comment" => p.output[n].size \in CommentLines

\* LineStartBeginsLine, MetadataPerLine, the numbers of the lines and the
\* types, of a printer state p.
InOrder(p) ==
  /\ p \in Printer
  /\ p.style \in Styles
  /\ p.lineStart <= Len(p.output)
  /\ p.lineStart > 0 => p.output[p.lineStart].kind = "newline"
  /\ \A i \in (p.lineStart + 1)..Len(p.output) : p.output[i].kind # "newline"
  /\ Len(p.lineMetadata) = NewlineCount(p.output)
  /\ \A k \in DOMAIN p.lineMetadata :
       /\ p.lineMetadata[k].lineNumber < p.outputLineNumber
       /\ \A j \in 1..(k - 1) :
            p.lineMetadata[j].lineNumber < p.lineMetadata[k].lineNumber
  /\ Numbered(p)

\* AtLineStartMeansNoText, of a printer state p.
NoTextAtLineStart(p) ==
  p.atLineStart => \A i \in (p.lineStart + 1)..Len(p.output) : p.output[i].kind = "spaces"

\* What no helper but those that end a line touches.
SameLine(p, q) ==
  /\ q.style = p.style
  /\ q.lineStart = p.lineStart
  /\ q.lineMetadata = p.lineMetadata
  /\ q.outputLineNumber = p.outputLineNumber

\* The positions of the newlines in a sequence of items.
Newlines(output) == {i \in DOMAIN output : output[i].kind = "newline"}

-----------------------------------------------------------------------------
(* The number of newlines of an output. *)

\* The positions of the newlines are a finite set.
LEMMA NewlinesFinite ==
  ASSUME NEW output \in Seq(Item)
  PROVE  IsFiniteSet(Newlines(output))
<1>1. IsFiniteSet(1..Len(output))
  BY FS_Interval
<1>2. Newlines(output) \subseteq 1..Len(output)
  BY DEF Newlines
<1> QED
  BY <1>1, <1>2, FS_Subset

\* Appending an item counts one newline more if it is one.
LEMMA NewlineCountAppend ==
  ASSUME NEW output \in Seq(Item), NEW item \in Item
  PROVE  /\ NewlineCount(output) \in Nat
         /\ item.kind = "newline" =>
              NewlineCount(Append(output, item)) = NewlineCount(output) + 1
         /\ item.kind # "newline" =>
              NewlineCount(Append(output, item)) = NewlineCount(output)
<1> DEFINE n == Len(output) + 1
<1>1. IsFiniteSet(Newlines(output)) /\ n \notin Newlines(output)
  BY NewlinesFinite DEF Newlines
<1>2. NewlineCount(output) \in Nat
  BY <1>1, FS_CardinalityType DEF NewlineCount, Newlines
<1>3. CASE item.kind = "newline"
  <2>1. Newlines(Append(output, item)) = Newlines(output) \cup {n}
    BY <1>3 DEF Newlines
  <2> QED
    BY <1>1, <1>2, <1>3, <2>1, FS_AddElement DEF NewlineCount, Newlines
<1>4. CASE item.kind # "newline"
  <2>1. Newlines(Append(output, item)) = Newlines(output)
    BY <1>4 DEF Newlines
  <2> QED
    BY <1>2, <1>4, <2>1 DEF NewlineCount, Newlines
<1> QED
  BY <1>3, <1>4

\* What is left of a sequence without its last element.
LEMMA PopProperties ==
  ASSUME NEW S, NEW s \in Seq(S), s # <<>>
  PROVE  /\ Pop(s) \in Seq(S)
         /\ Len(Pop(s)) = Len(s) - 1
         /\ \A i \in 1..(Len(s) - 1) : Pop(s)[i] = s[i]
<1>1. Len(s) \in Nat \ {0}
  BY EmptySeq
<1>2. \A n \in Nat \ {0} : n = 1 \/ n > 1
  OBVIOUS
<1>3. CASE Len(s) = 1
  BY <1>3, SubSeqEmpty DEF Pop
<1>4. CASE Len(s) > 1
  BY <1>4 DEF Pop
<1> QED
  BY <1>1, <1>2, <1>3, <1>4, Zenon

\* Dropping the last item, not a newline, keeps the count.
LEMMA NewlineCountPop ==
  ASSUME NEW output \in Seq(Item), output # <<>>,
         output[Len(output)].kind # "newline"
  PROVE  /\ Pop(output) \in Seq(Item)
         /\ Len(Pop(output)) = Len(output) - 1
         /\ \A i \in 1..(Len(output) - 1) : Pop(output)[i] = output[i]
         /\ NewlineCount(Pop(output)) = NewlineCount(output)
<1>1. /\ Pop(output) \in Seq(Item)
      /\ Len(Pop(output)) = Len(output) - 1
      /\ \A i \in 1..(Len(output) - 1) : Pop(output)[i] = output[i]
  BY PopProperties
<1>2. Newlines(Pop(output)) = Newlines(output)
  BY <1>1 DEF Newlines
<1> QED
  BY <1>1, <1>2 DEF NewlineCount, Newlines

\* The width of a run of spaces does not matter.
LEMMA NewlineCountResize ==
  ASSUME NEW output \in Seq(Item), NEW n \in DOMAIN output, NEW size \in Nat,
         NEW resized, resized = [output EXCEPT ![n].size = size]
  PROVE  /\ resized \in Seq(Item)
         /\ Len(resized) = Len(output)
         /\ \A i \in 1..Len(output) : resized[i].kind = output[i].kind
         /\ NewlineCount(resized) = NewlineCount(output)
<1>1. [output[n] EXCEPT !.size = size] \in Item
  <2>1. output[n] \in Item
    OBVIOUS
  <2> QED
    BY <2>1, Zenon DEF Item
<1>2. resized \in Seq(Item) /\ Len(resized) = Len(output)
  BY <1>1
<1>3. \A i \in 1..Len(output) : resized[i].kind = output[i].kind
  BY DEF Item
<1>4. Newlines(resized) = Newlines(output)
  BY <1>2, <1>3 DEF Newlines
<1> QED
  BY <1>2, <1>3, <1>4 DEF NewlineCount, Newlines

-----------------------------------------------------------------------------
(* The numbers of the lines. *)

\* The newlines among the first n items, which only their kinds decide.
LEMMA PrefixCount ==
  ASSUME NEW s \in Seq(Item), NEW n \in 0..Len(s)
  PROVE  NewlineCount(SubSeq(s, 1, n)) = Cardinality({i \in 1..n : s[i].kind = "newline"})
<1> DEFINE t == SubSeq(s, 1, n)
<1>1. DOMAIN t = 1..n /\ \A i \in 1..n : t[i] = s[i]
  OBVIOUS
<1> HIDE DEF t
<1>2. {i \in DOMAIN t : t[i].kind = "newline"} = {i \in 1..n : s[i].kind = "newline"}
  BY <1>1
<1> QED
  BY <1>2 DEF NewlineCount, t

\* Outputs whose first items are of the same kinds number those alike.
LEMMA SameRecords ==
  ASSUME NEW s \in Seq(Item), NEW t \in Seq(Item), NEW last \in Nat,
         last <= Len(s), last <= Len(t), \A i \in 1..last : t[i].kind = s[i].kind
  PROVE  \A n \in 1..last :
           NewlineCount(SubSeq(t, 1, n)) = NewlineCount(SubSeq(s, 1, n))
<1> TAKE n \in 1..last
<1>1. n \in 0..Len(s) /\ n \in 0..Len(t)
  OBVIOUS
<1>2. {i \in 1..n : s[i].kind = "newline"} = {i \in 1..n : t[i].kind = "newline"}
  OBVIOUS
<1> QED
  BY <1>1, <1>2, PrefixCount

\* What is counted for an item.
LEMMA CountedType ==
  ASSUME NEW item \in Item
  PROVE  Counted(item) \in Nat
<1>1. item.size \in Nat
  BY Zenon DEF Item
<1> QED
  BY <1>1 DEF Counted, NewlinesIn

\* Text or spaces appended.
LEMMA NumberedWrites ==
  ASSUME NEW p, NEW q, NEW item \in Item, Numbered(p),
         p.output \in Seq(Item), q.output = Append(p.output, item),
         q.lineMetadata = p.lineMetadata,
         q.outputLineNumber = p.outputLineNumber + Counted(item),
         item.kind # "newline", item.kind = "comment" => item.size \in CommentLines
  PROVE  Numbered(q)
<1> DEFINE last == Len(p.output)
<1>1. PICK lines \in [0..last -> Nat] : NumberedBy(p, lines)
  BY DEF Numbered
<1> DEFINE more == [n \in 0..(last + 1) |->
                      IF n <= last THEN lines[n] ELSE lines[last] + Counted(item)]
<1>2. /\ q.output \in Seq(Item) /\ Len(q.output) = last + 1 /\ last \in Nat
      /\ \A n \in 1..last : q.output[n] = p.output[n]
      /\ q.output[last + 1] = item
  BY AppendProperties
<1>3. Counted(item) \in Nat /\ lines[last] \in Nat
  BY <1>2, CountedType
<1> HIDE DEF last
<1>4. more \in [0..Len(q.output) -> Nat]
  BY <1>1, <1>2, <1>3
<1>5. \A n \in 1..last :
        NewlineCount(SubSeq(q.output, 1, n)) = NewlineCount(SubSeq(p.output, 1, n))
  <2>1. last <= Len(p.output) /\ last <= Len(q.output)
    BY <1>2 DEF last
  <2>2. \A n \in 1..last : q.output[n].kind = p.output[n].kind
    BY <1>2
  <2> QED
    BY <1>2, <2>1, <2>2, SameRecords
<1>6. \A n \in 1..Len(q.output) :
        q.output[n].kind = "newline" => n \in 1..last /\ p.output[n].kind = "newline"
  BY <1>2
<1>7. NumberedBy(q, more)
  <2>1. /\ lines[0] = 0 /\ lines[last] = p.outputLineNumber
        /\ \A n \in 1..last : lines[n] = lines[n - 1] + Counted(p.output[n])
        /\ \A n \in 1..last :
             p.output[n].kind = "newline" => RecordAt(p, n).lineNumber = lines[n - 1]
    BY <1>1, <1>2 DEF NumberedBy, last
  <2>2. \A n \in 1..last : RecordAt(q, n) = RecordAt(p, n)
    BY <1>5 DEF RecordAt
  <2>3. \A n \in 1..last : more[n] = lines[n] /\ more[n - 1] = lines[n - 1]
    BY <1>2
  <2>4. /\ more[0] = 0 /\ more[last + 1] = lines[last] + Counted(item)
        /\ more[last] = lines[last]
    BY <1>2, <2>1
  <2> HIDE DEF more
  <2>5. \A n \in 1..(last + 1) : more[n] = more[n - 1] + Counted(q.output[n])
    <3> TAKE n \in 1..(last + 1)
    <3>1. CASE n \in 1..last
      BY <1>2, <2>1, <2>3, <3>1
    <3>2. CASE n = last + 1
      BY <1>2, <2>4, <3>2
    <3> QED
      BY <1>2, <3>1, <3>2
  <2>6. \A n \in 1..(last + 1) :
          q.output[n].kind = "newline" => RecordAt(q, n).lineNumber = more[n - 1]
    BY <1>2, <1>6, <2>1, <2>2, <2>3
  <2> QED
    BY <1>2, <2>1, <2>4, <2>5, <2>6 DEF NumberedBy
<1>8. \A n \in 1..Len(q.output) :
        q.output[n].kind = "newline" =>
          NewlineCount(SubSeq(q.output, 1, n)) \in DOMAIN q.lineMetadata
  BY <1>5, <1>6 DEF Numbered, last
<1>9. \A n \in 1..Len(q.output) :
        q.output[n].kind = "comment" => q.output[n].size \in CommentLines
  BY <1>2 DEF Numbered, last
<1> QED
  BY <1>4, <1>7, <1>8, <1>9 DEF Numbered

\* Spaces taken off the end.
LEMMA NumberedStrips ==
  ASSUME NEW p, NEW q, Numbered(p), p.output \in Seq(Item), EndsIn(p, "spaces"),
         q.output = Pop(p.output), q.lineMetadata = p.lineMetadata,
         q.outputLineNumber = p.outputLineNumber
  PROVE  Numbered(q)
<1> DEFINE last == Len(p.output)
           rest == last - 1
<1>1. PICK lines \in [0..last -> Nat] : NumberedBy(p, lines)
  BY DEF Numbered
<1> DEFINE less == [n \in 0..rest |-> lines[n]]
<1>2. p.output # <<>> /\ p.output[last].kind = "spaces"
  BY DEF EndsIn
<1>3. /\ q.output \in Seq(Item) /\ Len(q.output) = rest /\ last \in Nat \ {0}
      /\ \A n \in 1..rest : q.output[n] = p.output[n]
  BY <1>2, PopProperties, EmptySeq
<1>4. /\ lines[0] = 0 /\ lines[last] = p.outputLineNumber
      /\ \A n \in 1..last : lines[n] = lines[n - 1] + Counted(p.output[n])
      /\ \A n \in 1..last :
           p.output[n].kind = "newline" => RecordAt(p, n).lineNumber = lines[n - 1]
  BY <1>1 DEF NumberedBy
<1>5. lines[rest] = p.outputLineNumber
  <2>1. Counted(p.output[last]) = 0
    BY <1>2 DEF Counted, NewlinesIn
  <2>2. lines[rest] \in Nat
    <3>1. rest \in 0..last
      BY <1>3
    <3> QED
      BY <1>1, <3>1
  <2> HIDE DEF last
  <2>3. lines[last] = lines[rest] + 0
    BY <1>3, <1>4, <2>1
  <2> QED
    BY <1>4, <2>2, <2>3
<1> HIDE DEF last, rest
<1>6. rest \in Nat /\ last = rest + 1
  BY <1>3 DEF rest
<1>7. less \in [0..Len(q.output) -> Nat]
  BY <1>3, <1>6
<1>8. \A n \in 1..rest :
        NewlineCount(SubSeq(q.output, 1, n)) = NewlineCount(SubSeq(p.output, 1, n))
  <2>1. rest <= Len(p.output) /\ rest <= Len(q.output)
    BY <1>3, <1>6 DEF last
  <2>2. \A n \in 1..rest : q.output[n].kind = p.output[n].kind
    BY <1>3
  <2> QED
    BY <1>3, <1>6, <2>1, <2>2, SameRecords
<1>9. NumberedBy(q, less)
  <2>1. \A n \in 1..rest : RecordAt(q, n) = RecordAt(p, n)
    BY <1>8 DEF RecordAt
  <2>2. \A n \in 1..rest : less[n] = lines[n] /\ less[n - 1] = lines[n - 1]
    BY <1>6
  <2>3. less[0] = lines[0] /\ less[rest] = lines[rest]
    BY <1>6
  <2> HIDE DEF less
  <2>4. \A n \in 1..rest : n \in 1..last
    BY <1>6
  <2> QED
    BY <1>3, <1>4, <1>5, <2>1, <2>2, <2>3, <2>4 DEF NumberedBy
<1>10. \A n \in 1..Len(q.output) :
        /\ q.output[n].kind = "newline" =>
             NewlineCount(SubSeq(q.output, 1, n)) \in DOMAIN q.lineMetadata
        /\ q.output[n].kind = "comment" => q.output[n].size \in CommentLines
  <2>1. /\ \A n \in 1..rest : n \in 1..last
        /\ \A n \in 1..last :
             /\ p.output[n].kind = "newline" =>
                  NewlineCount(SubSeq(p.output, 1, n)) \in DOMAIN p.lineMetadata
             /\ p.output[n].kind = "comment" => p.output[n].size \in CommentLines
    BY <1>6 DEF Numbered, last
  <2> QED
    BY <1>3, <1>8, <2>1
<1> QED
  BY <1>7, <1>9, <1>10 DEF Numbered

\* Spaces made wider.
LEMMA NumberedWidens ==
  ASSUME NEW p, NEW q, NEW size \in Nat, Numbered(p), p.output \in Seq(Item),
         EndsIn(p, "spaces"), q.output = [p.output EXCEPT ![Len(p.output)].size = size],
         q.lineMetadata = p.lineMetadata, q.outputLineNumber = p.outputLineNumber
  PROVE  Numbered(q)
<1> DEFINE last == Len(p.output)
<1>1. PICK lines \in [0..last -> Nat] : NumberedBy(p, lines)
  BY DEF Numbered
<1>2. p.output # <<>> /\ p.output[last].kind = "spaces"
  BY DEF EndsIn
<1>3. last \in DOMAIN p.output
  BY <1>2, EmptySeq
<1>4. /\ q.output \in Seq(Item) /\ Len(q.output) = last /\ last \in Nat
      /\ \A n \in 1..last : q.output[n].kind = p.output[n].kind
  BY <1>3, NewlineCountResize
<1>5. \A n \in 1..last : n # last => q.output[n] = p.output[n]
  BY <1>3
<1>6. \A n \in 1..last : Counted(q.output[n]) = Counted(p.output[n])
  BY <1>2, <1>4, <1>5 DEF Counted, NewlinesIn
<1> HIDE DEF last
<1>7. \A n \in 1..last :
        NewlineCount(SubSeq(q.output, 1, n)) = NewlineCount(SubSeq(p.output, 1, n))
  <2>1. last <= Len(p.output) /\ last <= Len(q.output)
    BY <1>4 DEF last
  <2> QED
    BY <1>4, <2>1, SameRecords
<1>8. \A n \in 1..last : RecordAt(q, n) = RecordAt(p, n)
  BY <1>7 DEF RecordAt
<1>9. NumberedBy(q, lines)
  BY <1>1, <1>4, <1>6, <1>8 DEF NumberedBy, last
<1>10. \A n \in 1..last :
        /\ q.output[n].kind = "newline" =>
             NewlineCount(SubSeq(q.output, 1, n)) \in DOMAIN q.lineMetadata
        /\ q.output[n].kind = "comment" => q.output[n].size \in CommentLines
  BY <1>2, <1>4, <1>5, <1>7 DEF Numbered, last
<1> QED
  BY <1>1, <1>4, <1>9, <1>10 DEF Numbered

\* An end of line written and recorded.
LEMMA NumberedEnds ==
  ASSUME NEW p, NEW q, NEW r \in LineMetadata, Numbered(p),
         p.output \in Seq(Item), p.lineMetadata \in Seq(LineMetadata),
         p.outputLineNumber \in Nat, Len(p.lineMetadata) = NewlineCount(p.output),
         q.output = Append(p.output, Newline),
         q.lineMetadata = Append(p.lineMetadata, r),
         r.lineNumber = p.outputLineNumber,
         q.outputLineNumber = p.outputLineNumber + 1
  PROVE  Numbered(q)
<1> DEFINE last == Len(p.output)
           ends == Len(p.lineMetadata)
<1>1. PICK lines \in [0..last -> Nat] : NumberedBy(p, lines)
  BY DEF Numbered
<1> DEFINE more == [n \in 0..(last + 1) |->
                      IF n <= last THEN lines[n] ELSE p.outputLineNumber + 1]
<1>2. Newline \in Item /\ Newline.kind = "newline" /\ Counted(Newline) = 1
  BY DEF Newline, Item, Counted, NewlinesIn
<1>3. /\ q.output \in Seq(Item) /\ Len(q.output) = last + 1 /\ last \in Nat
      /\ \A n \in 1..last : q.output[n] = p.output[n]
      /\ q.output[last + 1] = Newline
  BY <1>2, AppendProperties
<1>4. /\ DOMAIN q.lineMetadata = 1..(ends + 1) /\ DOMAIN p.lineMetadata = 1..ends
      /\ \A k \in 1..ends : q.lineMetadata[k] = p.lineMetadata[k]
      /\ q.lineMetadata[ends + 1] = r /\ ends \in Nat
  BY AppendProperties
<1>5. /\ lines[0] = 0 /\ lines[last] = p.outputLineNumber
      /\ \A n \in 1..last : lines[n] = lines[n - 1] + Counted(p.output[n])
      /\ \A n \in 1..last :
           p.output[n].kind = "newline" => RecordAt(p, n).lineNumber = lines[n - 1]
  BY <1>1 DEF NumberedBy
<1>6. \A n \in 1..last :
        NewlineCount(SubSeq(q.output, 1, n)) = NewlineCount(SubSeq(p.output, 1, n))
  <2>1. last <= Len(p.output) /\ last <= Len(q.output)
    BY <1>3
  <2>2. \A n \in 1..last : q.output[n].kind = p.output[n].kind
    BY <1>3
  <2> QED
    BY <1>3, <2>1, <2>2, SameRecords
<1>7. NewlineCount(SubSeq(q.output, 1, last + 1)) = ends + 1
  <2>1. SubSeq(q.output, 1, last + 1) = q.output
    BY <1>3
  <2> QED
    BY <1>2, <2>1, NewlineCountAppend
<1>8. \A n \in 1..last :
        p.output[n].kind = "newline" =>
          NewlineCount(SubSeq(p.output, 1, n)) \in 1..ends
  BY <1>4 DEF Numbered
<1> HIDE DEF last, ends
<1>9. more \in [0..Len(q.output) -> Nat]
  BY <1>1, <1>3
<1>10. \A n \in 1..last :
        p.output[n].kind = "newline" => RecordAt(q, n) = RecordAt(p, n)
  BY <1>4, <1>6, <1>8 DEF RecordAt
<1>11. RecordAt(q, last + 1) = r
  BY <1>4, <1>7 DEF RecordAt
<1>12. NumberedBy(q, more)
  <2>1. \A n \in 1..last : more[n] = lines[n] /\ more[n - 1] = lines[n - 1]
    BY <1>3
  <2>2. /\ more[0] = 0 /\ more[last + 1] = p.outputLineNumber + 1
        /\ more[last] = p.outputLineNumber
    BY <1>3, <1>5
  <2> HIDE DEF more
  <2>3. \A n \in 1..(last + 1) : n \in 1..last \/ n = last + 1
    BY <1>3
  <2>4. \A n \in 1..(last + 1) : more[n] = more[n - 1] + Counted(q.output[n])
    <3> TAKE n \in 1..(last + 1)
    <3>1. CASE n \in 1..last
      BY <1>3, <1>5, <2>1, <3>1
    <3>2. CASE n = last + 1
      BY <1>2, <1>3, <2>2, <3>2
    <3> QED
      BY <2>3, <3>1, <3>2
  <2>5. \A n \in 1..(last + 1) :
          q.output[n].kind = "newline" => RecordAt(q, n).lineNumber = more[n - 1]
    <3> TAKE n \in 1..(last + 1)
    <3>1. CASE n \in 1..last
      BY <1>3, <1>5, <1>10, <2>1, <3>1
    <3>2. CASE n = last + 1
      BY <1>3, <1>11, <2>2, <3>2
    <3> QED
      BY <2>3, <3>1, <3>2
  <2> QED
    BY <1>3, <2>2, <2>4, <2>5 DEF NumberedBy
<1>13. \A n \in 1..Len(q.output) :
        /\ q.output[n].kind = "newline" =>
             NewlineCount(SubSeq(q.output, 1, n)) \in DOMAIN q.lineMetadata
        /\ q.output[n].kind = "comment" => q.output[n].size \in CommentLines
  <2> SUFFICES ASSUME NEW n \in 1..(last + 1)
               PROVE  /\ q.output[n].kind = "newline" =>
                           NewlineCount(SubSeq(q.output, 1, n)) \in 1..(ends + 1)
                      /\ q.output[n].kind = "comment" => q.output[n].size \in CommentLines
    BY <1>3, <1>4
  <2>1. CASE n \in 1..last
    BY <1>3, <1>4, <1>6, <1>8, <2>1 DEF Numbered, last
  <2>2. CASE n = last + 1
    BY <1>2, <1>3, <1>4, <1>7, <2>2
  <2> QED
    BY <1>3, <2>1, <2>2
<1> QED
  BY <1>9, <1>12, <1>13 DEF Numbered

-----------------------------------------------------------------------------
(* The ways a helper changes the output, each keeping the lines in order. *)

\* A state whose output and lines are those of a state in order.
LEMMA KeepsOutput ==
  ASSUME NEW p, NEW q, InOrder(p), q \in Printer, SameLine(p, q), q.output = p.output
  PROVE  InOrder(q)
<1>1. Numbered(q)
  BY Zenon DEF InOrder, SameLine, Numbered, NumberedBy, RecordAt
<1> QED
  BY <1>1 DEF InOrder, SameLine

\* Text or spaces appended to the line, their newlines counted.
LEMMA WritesLines ==
  ASSUME NEW p, NEW q, NEW item \in Item, InOrder(p), q \in Printer,
         q.style = p.style, q.lineStart = p.lineStart, q.lineMetadata = p.lineMetadata,
         q.outputLineNumber = p.outputLineNumber + Counted(item),
         item.kind # "newline", item.kind = "comment" => item.size \in CommentLines,
         q.output = Append(p.output, item)
  PROVE  InOrder(q)
<1>1. /\ p.output \in Seq(Item) /\ p.lineStart \in Nat /\ p.outputLineNumber \in Nat
      /\ p.lineMetadata \in Seq(LineMetadata)
  BY Zenon DEF InOrder, Printer
<1>2. NewlineCount(q.output) = NewlineCount(p.output)
  BY <1>1, NewlineCountAppend
<1>3. /\ Len(q.output) = Len(p.output) + 1
      /\ \A i \in 1..Len(p.output) : q.output[i] = p.output[i]
      /\ q.output[Len(p.output) + 1] = item
  BY <1>1, AppendProperties
<1>4. /\ q.lineStart <= Len(q.output)
      /\ q.lineStart > 0 => q.output[q.lineStart].kind = "newline"
      /\ \A i \in (q.lineStart + 1)..Len(q.output) : q.output[i].kind # "newline"
  BY <1>1, <1>3 DEF InOrder
<1>5. Numbered(q)
  BY <1>1, NumberedWrites DEF InOrder
<1>6. \A k \in DOMAIN p.lineMetadata : p.lineMetadata[k].lineNumber \in Nat
  <2>1. \A k \in DOMAIN p.lineMetadata : p.lineMetadata[k] \in LineMetadata
    BY <1>1
  <2> QED
    BY <2>1, Zenon DEF LineMetadata
<1>7. \A k \in DOMAIN p.lineMetadata :
        p.lineMetadata[k].lineNumber < p.outputLineNumber + Counted(item)
  BY <1>1, <1>6, CountedType DEF InOrder
<1>8. /\ q.style \in Styles /\ Len(q.lineMetadata) = NewlineCount(q.output)
      /\ \A k \in DOMAIN q.lineMetadata :
           /\ q.lineMetadata[k].lineNumber < q.outputLineNumber
           /\ \A j \in 1..(k - 1) :
                q.lineMetadata[j].lineNumber < q.lineMetadata[k].lineNumber
  BY <1>2, <1>7 DEF InOrder
<1> QED
  BY <1>4, <1>5, <1>8, Zenon DEF InOrder

\* Text without newlines or spaces appended to the line.
LEMMA WritesOnLine ==
  ASSUME NEW p, NEW q, NEW item \in Item, InOrder(p), q \in Printer, SameLine(p, q),
         item.kind # "newline", Counted(item) = 0,
         item.kind = "comment" => item.size \in CommentLines,
         q.output = Append(p.output, item)
  PROVE  InOrder(q)
<1>1. p.outputLineNumber \in Nat
  BY Zenon DEF InOrder, Printer
<1>2. q.outputLineNumber = p.outputLineNumber + Counted(item)
  BY <1>1 DEF SameLine
<1>3. q.style = p.style /\ q.lineStart = p.lineStart /\ q.lineMetadata = p.lineMetadata
  BY DEF SameLine
<1> QED
  BY <1>2, <1>3, WritesLines, Zenon

\* Spaces taken off the end of the line.
LEMMA StripsLine ==
  ASSUME NEW p, NEW q, InOrder(p), q \in Printer, SameLine(p, q),
         EndsIn(p, "spaces"), q.output = Pop(p.output)
  PROVE  InOrder(q)
<1>1. /\ p.output \in Seq(Item) /\ p.lineStart \in Nat
      /\ p.output # <<>> /\ p.output[Len(p.output)].kind = "spaces"
  BY Zenon DEF InOrder, Printer, EndsIn
<1>2. /\ Len(q.output) = Len(p.output) - 1
      /\ \A i \in 1..(Len(p.output) - 1) : q.output[i] = p.output[i]
      /\ NewlineCount(q.output) = NewlineCount(p.output)
  BY <1>1, NewlineCountPop
<1>3. p.lineStart # Len(p.output)
  BY <1>1, EmptySeq DEF InOrder
<1>4. /\ q.lineStart <= Len(q.output)
      /\ q.lineStart > 0 => q.output[q.lineStart].kind = "newline"
      /\ \A i \in (q.lineStart + 1)..Len(q.output) : q.output[i].kind # "newline"
  BY <1>1, <1>2, <1>3 DEF InOrder, SameLine
<1>5. Numbered(q)
  BY <1>1, NumberedStrips DEF InOrder, SameLine
<1> QED
  BY <1>2, <1>4, <1>5 DEF InOrder, SameLine

\* The spaces at the end of the line made wider.
LEMMA WidensLine ==
  ASSUME NEW p, NEW q, NEW size \in Nat, InOrder(p), q \in Printer, SameLine(p, q),
         EndsIn(p, "spaces"),
         q.output = [p.output EXCEPT ![Len(p.output)].size = size]
  PROVE  InOrder(q)
<1>1. p.output \in Seq(Item) /\ p.lineStart \in Nat /\ Len(p.output) \in DOMAIN p.output
  <2>1. p.output \in Seq(Item) /\ p.lineStart \in Nat
    BY Zenon DEF InOrder, Printer
  <2> QED
    BY <2>1, EmptySeq DEF EndsIn
<1>2. /\ Len(q.output) = Len(p.output)
      /\ \A i \in 1..Len(p.output) : q.output[i].kind = p.output[i].kind
      /\ NewlineCount(q.output) = NewlineCount(p.output)
  BY <1>1, NewlineCountResize
<1>3. /\ q.lineStart <= Len(q.output)
      /\ q.lineStart > 0 => q.output[q.lineStart].kind = "newline"
      /\ \A i \in (q.lineStart + 1)..Len(q.output) : q.output[i].kind # "newline"
  BY <1>1, <1>2 DEF InOrder, SameLine
<1>4. Numbered(q)
  BY <1>1, NumberedWidens DEF InOrder, SameLine
<1> QED
  BY <1>2, <1>3, <1>4 DEF InOrder, SameLine

\* A newline appended, the line finalized and lineStart moved behind it.
LEMMA EndsLine ==
  ASSUME NEW p, NEW q, NEW r \in LineMetadata, InOrder(p), q \in Printer,
         q.style = p.style, q.output = Append(p.output, Newline),
         q.lineStart = Len(q.output), q.lineMetadata = Append(p.lineMetadata, r),
         r.lineNumber = p.outputLineNumber,
         q.outputLineNumber = p.outputLineNumber + 1
  PROVE  InOrder(q) /\ NoTextAtLineStart(q)
<1>1. p.output \in Seq(Item) /\ p.lineMetadata \in Seq(LineMetadata)
  BY Zenon DEF InOrder, Printer
<1>2. Newline \in Item /\ Newline.kind = "newline"
  BY DEF Newline, Item
<1>3. /\ NewlineCount(q.output) = NewlineCount(p.output) + 1
      /\ NewlineCount(p.output) \in Nat
  BY <1>1, <1>2, NewlineCountAppend
<1>4. /\ Len(q.output) = Len(p.output) + 1
      /\ q.output[Len(p.output) + 1] = Newline
      /\ Len(p.output) \in Nat
  BY <1>1, <1>2, AppendProperties
<1>5. /\ Len(q.lineMetadata) = Len(p.lineMetadata) + 1
      /\ \A k \in 1..Len(p.lineMetadata) : q.lineMetadata[k] = p.lineMetadata[k]
      /\ q.lineMetadata[Len(p.lineMetadata) + 1] = r
      /\ Len(p.lineMetadata) \in Nat
      /\ DOMAIN q.lineMetadata = 1..(Len(p.lineMetadata) + 1)
      /\ DOMAIN p.lineMetadata = 1..Len(p.lineMetadata)
  BY <1>1, AppendProperties
<1>6. /\ Len(p.lineMetadata) = NewlineCount(p.output)
      /\ p.outputLineNumber \in Nat
      /\ \A k \in 1..Len(p.lineMetadata) :
           /\ p.lineMetadata[k].lineNumber \in Nat
           /\ p.lineMetadata[k].lineNumber < p.outputLineNumber
           /\ \A j \in 1..(k - 1) :
                p.lineMetadata[j].lineNumber < p.lineMetadata[k].lineNumber
  <2>1. /\ Len(p.lineMetadata) = NewlineCount(p.output)
        /\ p.outputLineNumber \in Nat
    BY Zenon DEF InOrder, Printer
  <2>2. \A k \in 1..Len(p.lineMetadata) : p.lineMetadata[k].lineNumber \in Nat
    <3>1. \A k \in 1..Len(p.lineMetadata) : p.lineMetadata[k] \in LineMetadata
      BY <1>1
    <3> QED
      BY <3>1, Zenon DEF LineMetadata
  <2> QED
    BY <1>5, <2>1, <2>2 DEF InOrder
<1>7. \A k \in DOMAIN q.lineMetadata :
        /\ q.lineMetadata[k].lineNumber < q.outputLineNumber
        /\ \A j \in 1..(k - 1) :
             q.lineMetadata[j].lineNumber < q.lineMetadata[k].lineNumber
  <2> SUFFICES ASSUME NEW k \in 1..(Len(p.lineMetadata) + 1)
               PROVE  /\ q.lineMetadata[k].lineNumber < q.outputLineNumber
                      /\ \A j \in 1..(k - 1) :
                           q.lineMetadata[j].lineNumber < q.lineMetadata[k].lineNumber
    BY <1>5
  <2>1. CASE k \in 1..Len(p.lineMetadata)
    <3>1. /\ q.lineMetadata[k].lineNumber < q.outputLineNumber
          /\ \A j \in 1..(k - 1) : j \in 1..Len(p.lineMetadata)
      BY <1>5, <1>6, <2>1
    <3> QED
      BY <1>5, <1>6, <2>1, <3>1
  <2>2. CASE k = Len(p.lineMetadata) + 1
    <3>1. q.lineMetadata[k].lineNumber = p.outputLineNumber
      BY <1>5, <2>2
    <3>2. \A j \in 1..(k - 1) : q.lineMetadata[j].lineNumber < p.outputLineNumber
      BY <1>5, <1>6, <2>2
    <3> QED
      BY <1>6, <3>1, <3>2
  <2>3. k \in 1..Len(p.lineMetadata) \/ k = Len(p.lineMetadata) + 1
    BY <1>5
  <2> QED
    BY <2>1, <2>2, <2>3
<1>8. /\ q.lineStart <= Len(q.output)
      /\ q.lineStart > 0 => q.output[q.lineStart].kind = "newline"
      /\ (q.lineStart + 1)..Len(q.output) = {}
  BY <1>2, <1>4
<1>9. q.style \in Styles
  BY DEF InOrder
<1>10. Len(q.lineMetadata) = NewlineCount(q.output)
  BY <1>3, <1>5, <1>6
<1>11. Numbered(q)
  BY <1>1, <1>6, NumberedEnds DEF InOrder
<1> QED
  BY <1>7, <1>8, <1>9, <1>10, <1>11 DEF InOrder, NoTextAtLineStart

-----------------------------------------------------------------------------
(* Helpers that only set flags, and those that space. *)

\* What every helper preserves.
Safe(p) == InOrder(p) /\ NoTextAtLineStart(p)

\* An update that leaves the output and the lines alone and does not set
\* atLineStart.
LEMMA SetsFlags ==
  ASSUME NEW p, NEW q, Safe(p), q \in Printer, SameLine(p, q),
         q.output = p.output, q.atLineStart => p.atLineStart
  PROVE  Safe(q)
<1>1. InOrder(q)
  BY KeepsOutput DEF Safe
<1>2. NoTextAtLineStart(q)
  BY DEF Safe, NoTextAtLineStart, SameLine
<1> QED
  BY <1>1, <1>2 DEF Safe

\* The options that are numbers.
LEMMA StyleTypes ==
  ASSUME NEW p, p \in Printer
  PROVE  /\ p.style.IndentWidth \in 0..MaxUnsigned
         /\ p.style.IndentWidth \in Nat
         /\ p.style.ContinuationIndentWidth \in Nat
         /\ p.style.ParameterPortListIndentWidth \in Nat
         /\ p.style.SpacesBeforeTrailingComments \in Nat
         /\ p.style.MaxEmptyLinesToKeep \in Nat
<1>1. p.style \in Style
  BY Zenon DEF Printer
<1>2. /\ p.style.IndentWidth \in 0..MaxUnsigned
      /\ p.style.ContinuationIndentWidth \in Nat
      /\ p.style.ParameterPortListIndentWidth \in Nat
      /\ p.style.SpacesBeforeTrailingComments \in Nat
      /\ p.style.MaxEmptyLinesToKeep \in Nat
  BY <1>1, Zenon DEF Style
<1> QED
  BY <1>2, MaxUnsignedAssumption

\* Spaces appended, as an item of their own or to the last one.
LEMMA AppendSpacesSafe ==
  ASSUME NEW p, NEW n \in Nat, Safe(p)
  PROVE  /\ Safe(AppendSpaces(p, n))
         /\ AppendSpaces(p, n).atLineStart = p.atLineStart
<1> DEFINE q == AppendSpaces(p, n)
<1>1. /\ p \in Printer /\ p.output \in Seq(Item) /\ p.lineStart \in Nat
      /\ InOrder(p) /\ NoTextAtLineStart(p)
  BY Zenon DEF Safe, InOrder, Printer
<1>2. CASE n = 0
  BY <1>2 DEF AppendSpaces
<1>3. CASE n # 0 /\ EndsIn(p, "spaces")
  <2>1. /\ p.output # <<>> /\ p.output[Len(p.output)].kind = "spaces"
        /\ Len(p.output) \in DOMAIN p.output
    BY <1>1, <1>3, EmptySeq DEF EndsIn
  <2>2. p.output[Len(p.output)].size + n \in Nat
    <3>1. p.output[Len(p.output)] \in Item
      BY <1>1, <2>1
    <3>2. p.output[Len(p.output)].size \in Nat
      BY <3>1, Zenon DEF Item
    <3> QED
      BY <3>2
  <2> DEFINE out == [p.output EXCEPT ![Len(p.output)].size = @ + n]
  <2> DEFINE size == p.output[Len(p.output)].size + n
  <2>3. out = [p.output EXCEPT ![Len(p.output)].size = size]
    BY <2>1
  <2> HIDE DEF size
  <2>4. /\ out \in Seq(Item)
        /\ Len(out) = Len(p.output)
        /\ \A i \in 1..Len(p.output) : out[i].kind = p.output[i].kind
    <3>1. p.output \in Seq(Item) /\ size \in Nat
      BY <1>1, <2>2 DEF size
    <3> HIDE DEF out
    <3> QED
      BY <2>1, <2>3, <3>1, NewlineCountResize
  <2>5. q = [p EXCEPT !.output = out]
    BY <1>3 DEF AppendSpaces
  <2> HIDE DEF out
  <2>6. q \in Printer
    BY <1>1, <2>4, <2>5, Zenon DEF Printer
  <2>7. SameLine(p, q) /\ q.output = out /\ q.atLineStart = p.atLineStart
    BY <1>1, <2>5 DEF SameLine, Printer
  <2> HIDE DEF q
  <2>8. InOrder(q)
    <3>1. size \in Nat
      BY <2>2 DEF size
    <3> QED
      BY <1>1, <1>3, <2>1, <2>3, <2>6, <2>7, <3>1, WidensLine
  <2>9. NoTextAtLineStart(q)
    BY <1>1, <2>4, <2>7 DEF NoTextAtLineStart, SameLine
  <2> QED
    BY <2>7, <2>8, <2>9 DEF Safe, q
<1>4. CASE n # 0 /\ ~EndsIn(p, "spaces")
  <2>1. q = [p EXCEPT !.output = Append(p.output, Spaces(n))]
    BY <1>4 DEF AppendSpaces, AppendItem
  <2>2. /\ Spaces(n) \in Item /\ Spaces(n).kind = "spaces"
        /\ Counted(Spaces(n)) = 0
    BY DEF Spaces, Item, Counted, NewlinesIn
  <2>3. Append(p.output, Spaces(n)) \in Seq(Item)
    BY <1>1, <2>2
  <2>4. q \in Printer
    BY <1>1, <2>1, <2>3, Zenon DEF Printer
  <2>5. /\ SameLine(p, q) /\ q.output = Append(p.output, Spaces(n))
        /\ q.atLineStart = p.atLineStart
    BY <1>1, <2>1 DEF SameLine, Printer
  <2> HIDE DEF q
  <2>6. InOrder(q)
    BY <1>1, <2>2, <2>4, <2>5, WritesOnLine
  <2>7. NoTextAtLineStart(q)
    BY <1>1, <2>2, <2>5 DEF NoTextAtLineStart, SameLine
  <2> QED
    BY <2>5, <2>6, <2>7 DEF Safe, q
<1> QED
  BY <1>2, <1>3, <1>4

\* The run of spaces at the end of the line taken away.
LEMMA PopSafe ==
  ASSUME NEW p, InOrder(p), EndsIn(p, "spaces")
  PROVE  LET q == [p EXCEPT !.output = Pop(@)]
         IN  /\ InOrder(q)
             /\ NoTextAtLineStart(p) => NoTextAtLineStart(q)
             /\ q.atLineStart = p.atLineStart
<1> DEFINE q == [p EXCEPT !.output = Pop(p.output)]
<1>1. /\ p \in Printer /\ p.output \in Seq(Item) /\ p.lineStart \in Nat
      /\ p.output # <<>> /\ p.output[Len(p.output)].kind = "spaces"
  BY Zenon DEF InOrder, Printer, EndsIn
<1>2. /\ Pop(p.output) \in Seq(Item)
      /\ Len(Pop(p.output)) = Len(p.output) - 1
      /\ \A i \in 1..(Len(p.output) - 1) : Pop(p.output)[i] = p.output[i]
  BY <1>1, PopProperties
<1>3. q \in Printer
  BY <1>1, <1>2, Zenon DEF Printer
<1>4. /\ SameLine(p, q) /\ q.output = Pop(p.output)
      /\ q.atLineStart = p.atLineStart
  BY <1>1 DEF SameLine, Printer
<1> HIDE DEF q
<1>5. InOrder(q)
  BY <1>3, <1>4, StripsLine
<1>6. NoTextAtLineStart(p) => NoTextAtLineStart(q)
  BY <1>1, <1>2, <1>4 DEF NoTextAtLineStart, SameLine
<1> QED
  BY <1>4, <1>5, <1>6 DEF q

\* stripTrailingSpaces
LEMMA StripTrailingSpacesSafe ==
  ASSUME NEW p, Safe(p)
  PROVE  /\ Safe(StripTrailingSpaces(p))
         /\ StripTrailingSpaces(p).atLineStart = p.atLineStart
BY PopSafe DEF Safe, StripTrailingSpaces

\* ensureSpace
LEMMA EnsureSpaceSafe ==
  ASSUME NEW p, Safe(p)
  PROVE  /\ Safe(EnsureSpace(p))
         /\ EnsureSpace(p).atLineStart = p.atLineStart
BY AppendSpacesSafe DEF EnsureSpace

\* ensureSingleSpace
LEMMA EnsureSingleSpaceSafe ==
  ASSUME NEW p, Safe(p)
  PROVE  Safe(EnsureSingleSpace(p))
<1>1. Safe(StripTrailingSpaces(p))
      /\ StripTrailingSpaces(p).atLineStart = p.atLineStart
  BY StripTrailingSpacesSafe
<1>2. 1 \in Nat
  OBVIOUS
<1>3. Safe(AppendSpaces(StripTrailingSpaces(p), 1))
  BY <1>1, <1>2, AppendSpacesSafe
<1> QED
  BY <1>3 DEF EnsureSingleSpace

\* depth++ and depth--
LEMMA DepthSafe ==
  ASSUME NEW p, Safe(p)
  PROVE  Safe(Indent(p)) /\ Safe(Dedent(p))
<1>1. p \in Printer /\ p.depth \in Nat
  BY Zenon DEF Safe, InOrder, Printer
<1>2. \A n \in Nat :
        LET q == [p EXCEPT !.depth = n]
        IN  Safe(q)
  <2> SUFFICES ASSUME NEW n \in Nat
               PROVE  Safe([p EXCEPT !.depth = n])
    OBVIOUS
  <2> DEFINE q == [p EXCEPT !.depth = n]
  <2>1. q \in Printer
    BY <1>1, Zenon DEF Printer
  <2>2. SameLine(p, q) /\ q.output = p.output /\ q.atLineStart = p.atLineStart
    BY <1>1 DEF SameLine, Printer
  <2> HIDE DEF q
  <2>3. Safe(q)
    BY <2>1, <2>2, SetsFlags
  <2> QED
    BY <2>3 DEF q
<1>3. /\ (IF p.depth = MaxUnsigned THEN 0 ELSE p.depth + 1) \in Nat
      /\ (IF p.depth = 0 THEN MaxUnsigned ELSE p.depth - 1) \in Nat
  BY <1>1, MaxUnsignedAssumption
<1> QED
  BY <1>2, <1>3 DEF Indent, Dedent

-----------------------------------------------------------------------------
(* Helpers that end a line. *)

\* An end of line written and recorded, whatever the line held.
LEMMA EndLineSafe ==
  ASSUME NEW p, InOrder(p)
  PROVE  Safe(EndLine(p))
<1> DEFINE r == [kind |-> p.currentKind, depth |-> p.lineDepth,
                 lineNumber |-> p.outputLineNumber]
           out == Append(p.output, Newline)
           q == EndLine(p)
<1>1. /\ p \in Printer /\ p.output \in Seq(Item)
      /\ p.lineMetadata \in Seq(LineMetadata)
      /\ p.currentKind \in LineKinds /\ p.lineDepth \in Nat
      /\ p.outputLineNumber \in Nat
  BY Zenon DEF InOrder, Printer
<1>2. r \in LineMetadata
  BY <1>1, Zenon DEF LineMetadata
<1>3. Newline \in Item
  BY DEF Newline, Item
<1>4. out \in Seq(Item) /\ Len(out) \in Nat
  BY <1>1, <1>3, AppendProperties
<1>5. Append(p.lineMetadata, r) \in Seq(LineMetadata)
  BY <1>1, <1>2, AppendProperties
<1>6. p.outputLineNumber + 1 \in Nat /\ "Other" \in LineKinds
  BY <1>1 DEF LineKinds
<1>7. q = [p EXCEPT !.output = out, !.lineMetadata = Append(p.lineMetadata, r),
                    !.outputLineNumber = p.outputLineNumber + 1,
                    !.currentKind = "Other", !.lineStart = Len(out)]
  BY <1>1, Zenon DEF EndLine, FinalizeLine, AppendItem, Printer
<1> HIDE DEF out, r
<1>8. q \in Printer
  <2> DEFINE s == [p EXCEPT !.output = out, !.lineStart = Len(out)]
  <2>1. s \in Printer
    BY <1>1, <1>4, Zenon DEF Printer
  <2>2. q = [s EXCEPT !.lineMetadata = Append(p.lineMetadata, r),
                      !.outputLineNumber = p.outputLineNumber + 1,
                      !.currentKind = "Other"]
    BY <1>7
  <2> HIDE DEF s, q
  <2> QED
    BY <1>5, <1>6, <2>1, <2>2, Zenon DEF Printer
<1>9. /\ q.style = p.style /\ q.output = out /\ q.lineStart = Len(out)
      /\ q.lineMetadata = Append(p.lineMetadata, r)
      /\ q.outputLineNumber = p.outputLineNumber + 1
  BY <1>1, <1>7 DEF Printer
<1>10. r.lineNumber = p.outputLineNumber /\ q.output = Append(p.output, Newline)
  BY <1>9 DEF r, out
<1> HIDE DEF q
<1>11. InOrder(q) /\ NoTextAtLineStart(q)
  BY <1>2, <1>8, <1>9, <1>10, EndsLine
<1> QED
  BY <1>11 DEF Safe, q

\* atLineStart set behind an end of line.
LEMMA AtLineStartSafe ==
  ASSUME NEW p, InOrder(p), p.lineStart = Len(p.output)
  PROVE  Safe([p EXCEPT !.atLineStart = TRUE])
<1> DEFINE q == [p EXCEPT !.atLineStart = TRUE]
<1>1. p \in Printer /\ p.output \in Seq(Item)
  BY Zenon DEF InOrder, Printer
<1>2. q \in Printer
  BY <1>1, Zenon DEF Printer
<1>3. SameLine(p, q) /\ q.output = p.output
  BY <1>1 DEF SameLine, Printer
<1>4. InOrder(q)
  BY <1>2, <1>3, KeepsOutput
<1>5. (q.lineStart + 1)..Len(q.output) = {}
  BY <1>1, <1>3 DEF SameLine
<1> QED
  BY <1>4, <1>5 DEF Safe, NoTextAtLineStart

\* forceNewline
LEMMA ForceNewlineSafe ==
  ASSUME NEW p, InOrder(p)
  PROVE  Safe(ForceNewline(p))
<1> DEFINE s == IF EndsIn(p, "spaces") THEN [p EXCEPT !.output = Pop(@)] ELSE p
<1>1. InOrder(s)
  BY PopSafe
<1> HIDE DEF s
<1>2. Safe(EndLine(s)) /\ EndLine(s).lineStart = Len(EndLine(s).output)
  <2>1. Safe(EndLine(s))
    BY <1>1, EndLineSafe
  <2>2. s \in Printer
    BY <1>1 DEF InOrder
  <2>3. EndLine(s).lineStart = Len(EndLine(s).output)
    BY <2>2, Zenon DEF EndLine, FinalizeLine, AppendItem, Printer
  <2> QED
    BY <2>1, <2>3
<1>3. ForceNewline(p) = [EndLine(s) EXCEPT !.atLineStart = TRUE]
  BY DEF ForceNewline, s
<1> QED
  BY <1>2, <1>3, AtLineStartSafe DEF Safe

\* The pending closing tokens replaced.
LEMMA PendingSafe ==
  ASSUME NEW p, Safe(p),
         NEW pending \in SUBSET {"CloseBrace", "CloseBracket", "CloseParenthesis"}
  PROVE  Safe([p EXCEPT !.pending = pending])
<1> DEFINE q == [p EXCEPT !.pending = pending]
<1>1. p \in Printer
  BY DEF Safe, InOrder
<1>2. q \in Printer
  BY <1>1, Zenon DEF Printer
<1>3. SameLine(p, q) /\ q.output = p.output /\ q.atLineStart = p.atLineStart
  BY <1>1 DEF SameLine, Printer
<1> QED
  BY <1>2, <1>3, SetsFlags

\* breakBeforeClose
LEMMA BreakBeforeCloseSafe ==
  ASSUME NEW p, NEW close, Safe(p)
  PROVE  Safe(BreakBeforeClose(p, close))
<1>1. p.pending \in SUBSET {"CloseBrace", "CloseBracket", "CloseParenthesis"}
  BY Zenon DEF Safe, InOrder, Printer
<1>2. Safe([p EXCEPT !.pending = p.pending \ {close.kind}])
  BY <1>1, PendingSafe
<1> QED
  BY <1>2, ForceNewlineSafe DEF BreakBeforeClose, Safe

-----------------------------------------------------------------------------
(* Spacing between tokens. *)

\* emitDeferredSpaces
LEMMA EmitDeferredSpacesSafe ==
  ASSUME NEW p, Safe(p)
  PROVE  /\ Safe(EmitDeferredSpaces(p))
         /\ EmitDeferredSpaces(p).atLineStart = p.atLineStart
<1> DEFINE due == {f \in p.after :
                \/ f = "operatorToken" /\ ShouldSpaceAroundOperator(p)
                \/ f = "comma" /\ p.style.SpaceAfterComma
                \/ f = "semicolon" /\ p.style.SpaceAfterSemicolon
                \/ f = "openBrace" /\ p.style.SpacesInBraces
                \/ f = "openParen" /\ p.style.SpacesInParens}
<1>1. p.after \in SUBSET AfterTokenFlags
  BY Zenon DEF Safe, InOrder, Printer
<1>2. IsFiniteSet(AfterTokenFlags)
  <2>1. IsFiniteSet({"comma"})
    BY FS_Singleton
  <2>2. IsFiniteSet({"comma"} \cup {"openBrace"})
    BY <2>1, FS_AddElement
  <2>3. IsFiniteSet({"comma"} \cup {"openBrace"} \cup {"openBracket"})
    BY <2>2, FS_AddElement
  <2>4. IsFiniteSet({"comma"} \cup {"openBrace"} \cup {"openBracket"} \cup {"openParen"})
    BY <2>3, FS_AddElement
  <2>5. IsFiniteSet({"comma"} \cup {"openBrace"} \cup {"openBracket"} \cup {"openParen"}
                      \cup {"operatorToken"})
    BY <2>4, FS_AddElement
  <2>6. IsFiniteSet({"comma"} \cup {"openBrace"} \cup {"openBracket"} \cup {"openParen"}
                      \cup {"operatorToken"} \cup {"semicolon"})
    BY <2>5, FS_AddElement
  <2>7. AfterTokenFlags \subseteq {"comma"} \cup {"openBrace"} \cup {"openBracket"}
                        \cup {"openParen"} \cup {"operatorToken"} \cup {"semicolon"}
    BY DEF AfterTokenFlags
  <2> QED
    BY <2>6, <2>7, FS_Subset
<1>3. due \subseteq AfterTokenFlags
  BY <1>1
<1>4. Cardinality(due) \in Nat
  BY <1>2, <1>3, FS_Subset, FS_CardinalityType
<1> QED
  BY <1>4, AppendSpacesSafe DEF EmitDeferredSpaces

\* The suppressed separator recorded or forgotten.
LEMMA SuppressSafe ==
  ASSUME NEW p, Safe(p), NEW b \in BOOLEAN
  PROVE  /\ Safe([p EXCEPT !.suppressSeparator = b])
         /\ [p EXCEPT !.suppressSeparator = b].atLineStart = p.atLineStart
<1> DEFINE q == [p EXCEPT !.suppressSeparator = b]
<1>1. p \in Printer
  BY DEF Safe, InOrder
<1>2. q \in Printer
  BY <1>1, Zenon DEF Printer
<1>3. SameLine(p, q) /\ q.output = p.output /\ q.atLineStart = p.atLineStart
  BY <1>1 DEF SameLine, Printer
<1> QED
  BY <1>2, <1>3, SetsFlags

\* emitSeparator
LEMMA EmitSeparatorSafe ==
  ASSUME NEW p, NEW kind, Safe(p)
  PROVE  /\ Safe(EmitSeparator(p, kind))
         /\ EmitSeparator(p, kind).atLineStart = p.atLineStart
<1>1. Safe(AppendSpaces(p, 0)) /\ Safe(AppendSpaces(p, 1))
      /\ AppendSpaces(p, 0).atLineStart = p.atLineStart
      /\ AppendSpaces(p, 1).atLineStart = p.atLineStart
  BY AppendSpacesSafe
<1> QED
  BY <1>1, SuppressSafe DEF EmitSeparator

\* normalizeSpaceBefore
LEMMA NormalizeSpaceBeforeSafe ==
  ASSUME NEW p, NEW next, NEW want \in BOOLEAN, NEW suppress \in BOOLEAN, Safe(p)
  PROVE  Safe(NormalizeSpaceBefore(p, next, want, suppress))
<1> DEFINE s == IF want THEN EnsureSpace(p) ELSE StripTrailingSpaces(p)
<1>1. Safe(s)
  BY EnsureSpaceSafe, StripTrailingSpacesSafe
<1>2. (s.suppressSeparator \/ suppress) \in BOOLEAN
  OBVIOUS
<1> HIDE DEF s
<1>3. Safe([s EXCEPT !.suppressSeparator = s.suppressSeparator \/ suppress])
  BY <1>1, <1>2, SuppressSafe
<1> QED
  BY <1>3 DEF NormalizeSpaceBefore, s

\* normalizeBeforeClose
LEMMA NormalizeBeforeCloseSafe ==
  ASSUME NEW p, NEW kind, Safe(p)
  PROVE  /\ Safe(NormalizeBeforeClose(p, kind))
         /\ NormalizeBeforeClose(p, kind).atLineStart = p.atLineStart
BY StripTrailingSpacesSafe, AppendSpacesSafe DEF NormalizeBeforeClose

\* A product of naturals is one; the factors are opaque to keep it linear.
LEMMA ProductType ==
  ASSUME NEW m \in Nat, NEW n \in Nat
  PROVE  m * n \in Nat
OBVIOUS

\* The width of the indentation of an item of a port list: it wraps around
\* below depth 1 but is never negative.
LEMMA PortIndentWidthType ==
  ASSUME NEW p, Safe(p)
  PROVE  PortIndentWidth(p) \in Nat
<1> DEFINE indent == p.style.IndentWidth
           extra  == p.style.ParameterPortListIndentWidth
           level  == p.depth - 1
<1>1. p.depth \in Nat
  BY Zenon DEF Safe, InOrder, Printer
<1>2. /\ indent \in Nat /\ indent \in 0..MaxUnsigned
      /\ extra \in Nat /\ MaxUnsigned \in Nat
  BY StyleTypes, MaxUnsignedAssumption DEF Safe, InOrder
<1>3. CASE p.depth > 0
  <2>1. level \in Nat
    BY <1>1, <1>3
  <2> HIDE DEF level, indent, extra
  <2>2. level * indent \in Nat
    BY <1>2, <2>1, ProductType
  <2>3. level * indent + extra \in Nat
    BY <1>2, <2>2
  <2> QED
    BY <1>3, <2>3, Zenon DEF PortIndentWidth, level, indent, extra
<1>4. CASE ~(p.depth > 0)
  <2>1. PortIndentWidth(p) = IF indent <= extra THEN extra - indent
                             ELSE MaxUnsigned + 1 + extra - indent
    BY <1>4, Zenon DEF PortIndentWidth
  <2> HIDE DEF indent, extra
  <2> QED
    BY <1>2, <2>1
<1> QED
  BY <1>3, <1>4

\* The width of an indentation.
LEMMA IndentWidthType ==
  ASSUME NEW p, Safe(p)
  PROVE  IndentWidth(p) \in Nat
<1>1. p.depth \in Nat
  BY Zenon DEF Safe, InOrder, Printer
<1>2. p.style.IndentWidth \in Nat /\ p.style.ContinuationIndentWidth \in Nat
  BY StyleTypes DEF Safe, InOrder
<1>3. p.depth * p.style.IndentWidth \in Nat
  BY <1>1, <1>2, ProductType
<1> QED
  BY <1>2, <1>3, PortIndentWidthType DEF IndentWidth

\* emitIndent
LEMMA EmitIndentSafe ==
  ASSUME NEW p, Safe(p)
  PROVE  Safe(EmitIndent(p))
<1> DEFINE r == AppendSpaces(p, IndentWidth(p))
           q == [r EXCEPT !.portItemNextIndent = FALSE]
<1>1. Safe(r)
  BY IndentWidthType, AppendSpacesSafe
<1> HIDE DEF r
<1>2. r \in Printer
  BY <1>1 DEF Safe, InOrder
<1>3. q \in Printer
  BY <1>2, Zenon DEF Printer
<1>4. SameLine(r, q) /\ q.output = r.output /\ q.atLineStart = r.atLineStart
  BY <1>2, Zenon DEF SameLine, Printer
<1>5. Safe(q)
  BY <1>1, <1>3, <1>4, SetsFlags
<1> QED
  BY <1>5, Zenon DEF EmitIndent, r

\* padBeforeTrailingComment
LEMMA PadBeforeTrailingCommentSafe ==
  ASSUME NEW p, Safe(p)
  PROVE  Safe(PadBeforeTrailingComment(p))
<1> DEFINE want == p.style.SpacesBeforeTrailingComments
           have == IF EndsIn(p, "spaces") THEN p.output[Len(p.output)].size ELSE 0
<1>1. p \in Printer /\ p.output \in Seq(Item)
  BY Zenon DEF Safe, InOrder, Printer
<1>2. want \in Nat
  BY <1>1, StyleTypes
<1>3. have \in Nat
  <2>1. CASE EndsIn(p, "spaces")
    <3>1. Len(p.output) \in DOMAIN p.output
      BY <1>1, <2>1, EmptySeq DEF EndsIn
    <3>2. p.output[Len(p.output)] \in Item
      BY <1>1, <3>1
    <3> QED
      BY <2>1, <3>2, Zenon DEF Item
  <2> QED
    BY <2>1
<1>4. have < want => want - have \in Nat
  BY <1>2, <1>3
<1> QED
  BY <1>4, AppendSpacesSafe DEF PadBeforeTrailingComment

-----------------------------------------------------------------------------
(* Trivia. *)

\* shouldSuppressBlankLine, for its effect.
LEMMA CountBlankLineSafe ==
  ASSUME NEW p, Safe(p)
  PROVE  Safe(CountBlankLine(p))
<1> DEFINE q == [p EXCEPT !.emptyLineCount = p.emptyLineCount + 1]
<1>1. p \in Printer /\ p.emptyLineCount \in Nat
  BY Zenon DEF Safe, InOrder, Printer
<1>2. p.emptyLineCount + 1 \in Nat
  BY <1>1
<1>3. q \in Printer
  BY <1>1, <1>2, Zenon DEF Printer
<1>4. SameLine(p, q) /\ q.output = p.output /\ q.atLineStart = p.atLineStart
  BY <1>1 DEF SameLine, Printer
<1>5. Safe(q)
  BY <1>3, <1>4, SetsFlags
<1> QED
  BY <1>5 DEF CountBlankLine

\* The kind of the current line set.
LEMMA CurrentKindSafe ==
  ASSUME NEW p, Safe(p), NEW kind \in LineKinds
  PROVE  Safe([p EXCEPT !.currentKind = kind])
<1> DEFINE q == [p EXCEPT !.currentKind = kind]
<1>1. p \in Printer
  BY DEF Safe, InOrder
<1>2. q \in Printer
  BY <1>1, Zenon DEF Printer
<1>3. SameLine(p, q) /\ q.output = p.output /\ q.atLineStart = p.atLineStart
  BY <1>1 DEF SameLine, Printer
<1> QED
  BY <1>2, <1>3, SetsFlags

\* The flags that the end of a line resets.
LEMMA LineFlagsSafe ==
  ASSUME NEW p, Safe(p)
  PROVE  Safe([p EXCEPT !.beforeOperator = FALSE, !.after = {}, !.pending = {},
                        !.suppressSeparator = FALSE])
<1> DEFINE q == [p EXCEPT !.beforeOperator = FALSE, !.after = {}, !.pending = {},
                          !.suppressSeparator = FALSE]
<1>1. p \in Printer
  BY DEF Safe, InOrder
<1>2. q \in Printer
  <2>1. [p EXCEPT !.beforeOperator = FALSE, !.after = {}] \in Printer
    BY <1>1, Zenon DEF Printer
  <2>2. \A s \in Printer :
          [s EXCEPT !.pending = {}, !.suppressSeparator = FALSE] \in Printer
    BY Zenon DEF Printer
  <2> QED
    BY <2>1, <2>2
<1>3. SameLine(p, q) /\ q.output = p.output /\ q.atLineStart = p.atLineStart
  BY <1>1 DEF SameLine, Printer
<1> QED
  BY <1>2, <1>3, SetsFlags

\* A line of text about to be ended: in order, whatever the flags say.
LEMMA EndTextLine ==
  ASSUME NEW p, InOrder(p)
  PROVE  InOrder([p EXCEPT !.emptyLineCount = 0, !.atLineStart = TRUE])
<1> DEFINE q == [p EXCEPT !.emptyLineCount = 0, !.atLineStart = TRUE]
<1>1. p \in Printer
  BY DEF InOrder
<1>2. q \in Printer
  BY <1>1, Zenon DEF Printer
<1>3. SameLine(p, q) /\ q.output = p.output
  BY <1>1 DEF SameLine, Printer
<1> QED
  BY <1>2, <1>3, KeepsOutput

\* emitTrivia of an end of line.
LEMMA EmitEndOfLineSafe ==
  ASSUME NEW p, Safe(p)
  PROVE  Safe(EmitEndOfLine(p))
<1> DEFINE q == [p EXCEPT !.beforeOperator = FALSE, !.after = {}, !.pending = {},
                          !.suppressSeparator = FALSE]
<1>1. Safe(q)
  BY LineFlagsSafe
<1> HIDE DEF q
<1>2. Safe(CountBlankLine(q))
  BY <1>1, CountBlankLineSafe
<1>3. Safe(EndLine([CountBlankLine(q) EXCEPT !.currentKind = "Empty"]))
  <2>1. Safe([CountBlankLine(q) EXCEPT !.currentKind = "Empty"])
    BY <1>2, CurrentKindSafe DEF LineKinds
  <2> QED
    BY <2>1, EndLineSafe DEF Safe
<1>4. Safe(EndLine([StripTrailingSpaces(q) EXCEPT !.emptyLineCount = 0,
                                                  !.atLineStart = TRUE]))
  BY <1>1, StripTrailingSpacesSafe, EndTextLine, EndLineSafe DEF Safe
<1> QED
  BY <1>2, <1>3, <1>4 DEF EmitEndOfLine, q

\* emitTrivia of whitespace.
LEMMA EmitWhitespaceSafe ==
  ASSUME NEW p, NEW width \in Nat, Safe(p)
  PROVE  Safe(EmitWhitespace(p, width))
BY AppendSpacesSafe DEF EmitWhitespace

\* The text of a token or comment written, and the line no longer at its start.
LEMMA WritesText ==
  ASSUME NEW p, NEW q, NEW item \in Item, InOrder(p), q \in Printer, SameLine(p, q),
         item.kind # "newline", Counted(item) = 0,
         item.kind = "comment" => item.size \in CommentLines,
         q.output = Append(p.output, item), q.atLineStart = FALSE
  PROVE  Safe(q)
BY WritesOnLine DEF Safe, NoTextAtLineStart

\* emitTrivia of a comment.
LEMMA EmitCommentSafe ==
  ASSUME NEW p, NEW t \in Trivia, NEW at \in Nat \X Nat, Safe(p),
         t.lines \in CommentLines
  PROVE  Safe(EmitComment(p, t, at))
<1> DEFINE q == [EmitDeferredSpaces(p) EXCEPT !.beforeOperator = FALSE, !.after = {}]
           s == [q EXCEPT !.currentKind = "Comment"]
           r == IF p.atLineStart
                THEN IF p.formatEnabled THEN AppendSpaces(s, IndentWidth(s)) ELSE s
                ELSE PadBeforeTrailingComment(q)
           item == [kind |-> "comment", size |-> t.lines, at |-> at]
           out == Append(r.output, item)
           enabled == IF r.formatEnabled THEN t.pragma # "off" ELSE t.pragma = "on"
           c == [r EXCEPT !.output = out, !.lineDepth = p.depth,
                          !.atLineStart = FALSE, !.formatEnabled = enabled]
<1>1. Safe(q)
  <2> DEFINE e == EmitDeferredSpaces(p)
  <2>1. Safe(e)
    BY EmitDeferredSpacesSafe
  <2>2. e \in Printer
    BY <2>1 DEF Safe, InOrder
  <2> HIDE DEF e
  <2>3. q = [e EXCEPT !.beforeOperator = FALSE, !.after = {}]
    BY DEF e
  <2> HIDE DEF q
  <2>4. q \in Printer
    BY <2>2, <2>3, Zenon DEF Printer
  <2>5. SameLine(e, q) /\ q.output = e.output /\ q.atLineStart = e.atLineStart
    BY <2>2, <2>3 DEF SameLine, Printer
  <2> QED
    BY <2>1, <2>4, <2>5, SetsFlags
<1> HIDE DEF q
<1>2. Safe(s)
  BY <1>1, CurrentKindSafe DEF LineKinds
<1> HIDE DEF s
<1>3. Safe(r)
  BY <1>1, <1>2, IndentWidthType, AppendSpacesSafe, PadBeforeTrailingCommentSafe
<1>4. r \in Printer /\ r.output \in Seq(Item)
  <2> HIDE DEF r
  <2> QED
    BY <1>3, Zenon DEF Safe, InOrder, Printer
<1>5. EmitComment(p, t, at) = c
  BY <1>4, Zenon DEF EmitComment, AppendItem, Printer, s, q
<1> HIDE DEF r
<1>6. /\ item \in Item /\ item.kind # "newline" /\ Counted(item) = 0
      /\ item.size \in CommentLines
  <2>1. t.lines \in Nat
    BY Zenon DEF Trivia
  <2> QED
    BY <2>1 DEF Item, Counted
<1>7. out \in Seq(Item)
  BY <1>4, <1>6, AppendProperties
<1>8. p.depth \in Nat /\ enabled \in BOOLEAN
  BY Zenon DEF Safe, InOrder, Printer
<1> HIDE DEF item, out, enabled
<1>9. c \in Printer
  <2> DEFINE c1 == [r EXCEPT !.output = out, !.lineDepth = p.depth]
  <2>1. c1 \in Printer
    BY <1>4, <1>7, <1>8, Zenon DEF Printer
  <2>2. c = [c1 EXCEPT !.atLineStart = FALSE, !.formatEnabled = enabled]
    OBVIOUS
  <2> HIDE DEF c1, c
  <2> QED
    BY <1>8, <2>1, <2>2, Zenon DEF Printer
<1>10. SameLine(r, c) /\ c.output = out /\ c.atLineStart = FALSE
  BY <1>4 DEF SameLine, Printer
<1> HIDE DEF c
<1>11. Safe(c)
  BY <1>3, <1>6, <1>9, <1>10, WritesText DEF Safe, out
<1> QED
  BY <1>5, <1>11

-----------------------------------------------------------------------------
(* Directives. *)

\* The name or another token of a directive written.
LEMMA EmitRawTextSafe ==
  ASSUME NEW p, NEW t \in Trivia, NEW kind \in {"word", "directive"},
         NEW at \in Nat \X Nat, Safe(p)
  PROVE  Safe(EmitRawText(p, t, kind, at))
<1> DEFINE item == [kind |-> kind, size |-> t.lines, at |-> at]
           out == Append(p.output, item)
           lines == p.outputLineNumber + t.lines
           c == [p EXCEPT !.output = out, !.outputLineNumber = lines]
           q == [c EXCEPT !.lineDepth = p.depth, !.atLineStart = FALSE]
<1>1. /\ p \in Printer /\ p.output \in Seq(Item) /\ p.depth \in Nat /\ InOrder(p)
      /\ p.outputLineNumber \in Nat
  BY Zenon DEF Safe, InOrder, Printer
<1>2. t.lines \in Nat
  BY Zenon DEF Trivia
<1>3. /\ item \in Item /\ item.kind \notin {"newline", "comment"}
      /\ Counted(item) = t.lines
  BY <1>2 DEF Item, Counted, NewlinesIn
<1>4. out \in Seq(Item) /\ lines \in Nat
  BY <1>1, <1>2, <1>3, AppendProperties
<1>5. EmitRawText(p, t, kind, at) = q
  BY <1>1, Zenon DEF EmitRawText, AppendItem, Printer
<1> HIDE DEF item, out, lines
<1>6. c \in Printer
  BY <1>1, <1>4, Zenon DEF Printer
<1>7. q \in Printer
  <2> HIDE DEF c
  <2> QED
    BY <1>1, <1>6, Zenon DEF Printer
<1>8. /\ q.style = p.style /\ q.lineStart = p.lineStart
      /\ q.lineMetadata = p.lineMetadata /\ q.outputLineNumber = lines
      /\ q.output = out /\ q.atLineStart = FALSE
  BY <1>1, Zenon DEF Printer
<1> HIDE DEF q
<1>9. InOrder(q)
  BY <1>1, <1>3, <1>7, <1>8, WritesLines DEF out, lines
<1> QED
  BY <1>5, <1>8, <1>9 DEF Safe, NoTextAtLineStart

\* The beginning of a directive.
LEMMA StartDirectiveSafe ==
  ASSUME NEW p, NEW t, Safe(p)
  PROVE  Safe(StartDirective(p, t))
<1> DEFINE e == EmitDeferredSpaces(p)
           skip == e.skipExpandedToken \/ t.kind = "MacroUsage"
           q == [e EXCEPT !.beforeOperator = FALSE, !.after = {},
                          !.skipExpandedToken = skip]
<1>1. Safe(e)
  BY EmitDeferredSpacesSafe
<1> HIDE DEF e
<1>2. e \in Printer
  BY <1>1 DEF Safe, InOrder
<1>3. skip \in BOOLEAN
  OBVIOUS
<1>4. StartDirective(p, t) = q
  BY <1>2, Zenon DEF StartDirective, Printer, e
<1> HIDE DEF skip
<1>5. q \in Printer
  BY <1>2, <1>3, Zenon DEF Printer
<1>6. SameLine(e, q) /\ q.output = e.output /\ q.atLineStart = e.atLineStart
  BY <1>2 DEF SameLine, Printer
<1> HIDE DEF q
<1> QED
  BY <1>1, <1>4, <1>5, <1>6, SetsFlags

\* The name of a directive, which makes its line one of comments.
LEMMA NameDirectiveSafe ==
  ASSUME NEW p, NEW t \in Trivia, NEW at \in Nat \X Nat, Safe(p)
  PROVE  Safe(NameDirective(p, t, at))
<1> DEFINE q == IF p.atLineStart THEN [p EXCEPT !.currentKind = "Comment"] ELSE p
<1>1. Safe(q)
  BY CurrentKindSafe DEF LineKinds
<1> HIDE DEF q
<1>2. Safe(EmitRawText(q, t, "directive", at))
  BY <1>1, EmitRawTextSafe
<1> QED
  BY <1>2 DEF NameDirective, q

\* Another token of a directive.
LEMMA EmitDirectiveTokenSafe ==
  ASSUME NEW p, NEW t \in Trivia, NEW at \in Nat \X Nat, Safe(p)
  PROVE  Safe(EmitDirectiveToken(p, t, at))
<1> DEFINE q == IF t.kind = "DirectiveClose" /\ p.depth > 0 THEN Dedent(p) ELSE p
           r == IF q.formatEnabled /\ q.atLineStart /\ q.depth > 0
                THEN EmitIndent(q) ELSE q
           s == EmitRawText(r, t, "word", at)
<1>1. Safe(q)
  BY DepthSafe
<1> HIDE DEF q
<1>2. Safe(r)
  BY <1>1, EmitIndentSafe
<1> HIDE DEF r
<1>3. Safe(s)
  BY <1>2, EmitRawTextSafe
<1> HIDE DEF s
<1>4. Safe(Indent(s))
  BY <1>3, DepthSafe
<1> QED
  BY <1>3, <1>4 DEF EmitDirectiveToken, q, r, s

\* The end of a directive.
LEMMA EndDirectiveSafe ==
  ASSUME NEW p, Safe(p)
  PROVE  Safe(EndDirective(p))
<1> DEFINE q == [p EXCEPT !.lineDepth = p.depth, !.atLineStart = FALSE]
<1>1. p \in Printer /\ p.depth \in Nat
  BY Zenon DEF Safe, InOrder, Printer
<1>2. q \in Printer
  BY <1>1, Zenon DEF Printer
<1>3. SameLine(p, q) /\ q.output = p.output /\ q.atLineStart = FALSE
  BY <1>1 DEF SameLine, Printer
<1>4. EndDirective(p) = q
  BY DEF EndDirective
<1> HIDE DEF q
<1> QED
  BY <1>2, <1>3, <1>4, SetsFlags

\* emitTrivia
LEMMA EmitTriviaSafe ==
  ASSUME NEW p, NEW t \in Trivia, NEW at \in Nat \X Nat, Safe(p),
         IsComment(t) => t.lines \in CommentLines
  PROVE  Safe(EmitTrivia(p, t, at))
<1>1. t.width \in Nat
  BY Zenon DEF Trivia
<1>2. Safe(EmitDirectiveWhitespace(p, t.width))
  BY <1>1, AppendSpacesSafe DEF EmitDirectiveWhitespace
<1>3. Safe(EmitTriviaInDirective(p, t, at))
  BY <1>2, EmitEndOfLineSafe, EmitDirectiveTokenSafe DEF EmitTriviaInDirective
<1>4. /\ Safe(EmitEndOfLine(p)) /\ Safe(EmitWhitespace(p, t.width))
      /\ Safe(StartDirective(p, t)) /\ Safe(NameDirective(p, t, at))
      /\ Safe(EndDirective(p)) /\ (IsComment(t) => Safe(EmitComment(p, t, at)))
  BY <1>1, EmitEndOfLineSafe, EmitWhitespaceSafe, StartDirectiveSafe,
     NameDirectiveSafe, EndDirectiveSafe, EmitCommentSafe
<1>5. t.kind \in TriviaKinds
  BY Zenon DEF Trivia
<1> QED
  BY <1>3, <1>4, <1>5
     DEF EmitTrivia, TriviaKinds, DirectiveTexts, IsComment, IsInDirective, StartsDirective

-----------------------------------------------------------------------------
(* Tokens. *)

\* The start of a line left behind: nothing is asked of the rest of the line.
LEMMA StartLineSafe ==
  ASSUME NEW p, NEW kind, Safe(p)
  PROVE  Safe(StartLine(p, kind)) /\ StartLine(p, kind).atLineStart = FALSE
<1> DEFINE q == IF p.nextLineKind = "none" THEN p
                ELSE [p EXCEPT !.currentKind = p.nextLineKind,
                               !.nextLineKind = "none"]
           r == IF p.formatEnabled /\ kind # "EndOfFile" THEN EmitIndent(q) ELSE q
           s == [r EXCEPT !.atLineStart = FALSE]
<1>1. p \in Printer /\ p.nextLineKind \in LineKinds \cup {"none"}
      /\ p.atLineStart \in BOOLEAN
  BY Zenon DEF Safe, InOrder, Printer
<1>2. Safe(q)
  <2>1. CASE p.nextLineKind = "none"
    BY <2>1
  <2>2. CASE p.nextLineKind # "none"
    <3>1. p.nextLineKind \in LineKinds
      BY <1>1, <2>2
    <3>2. q = [p EXCEPT !.currentKind = p.nextLineKind, !.nextLineKind = "none"]
      BY <2>2
    <3> HIDE DEF q
    <3>3. q \in Printer
      BY <1>1, <3>1, <3>2, Zenon DEF Printer
    <3>4. SameLine(p, q) /\ q.output = p.output /\ q.atLineStart = p.atLineStart
      BY <1>1, <3>2 DEF SameLine, Printer
    <3> QED
      BY <3>3, <3>4, SetsFlags
  <2> QED
    BY <2>1, <2>2
<1> HIDE DEF q
<1>3. Safe(r)
  BY <1>2, EmitIndentSafe
<1> HIDE DEF r
<1>4. r \in Printer
  BY <1>3 DEF Safe, InOrder
<1>5. s \in Printer
  BY <1>4, Zenon DEF Printer
<1>6. SameLine(r, s) /\ s.output = r.output /\ s.atLineStart = FALSE
  BY <1>4 DEF SameLine, Printer
<1> HIDE DEF s
<1>7. Safe(s)
  BY <1>3, <1>5, <1>6, SetsFlags
<1> QED
  BY <1>1, <1>6, <1>7 DEF StartLine, s, r, q

\* What emitToken adjusts in front of a token.
LEMMA NormalizeBeforeSafe ==
  ASSUME NEW p, NEW kind, Safe(p)
  PROVE  /\ Safe(NormalizeBefore(p, kind))
         /\ NormalizeBefore(p, kind).atLineStart = p.atLineStart
<1> DEFINE q == IF NeedsStripBefore(kind) THEN StripTrailingSpaces(p) ELSE p
           depth == IF kind = "CloseBracket" /\ q.bracketDepth > 0
                    THEN q.bracketDepth - 1 ELSE q.bracketDepth
           r == [q EXCEPT !.bracketDepth = depth]
           s == NormalizeBeforeClose(r, kind)
<1>1. Safe(q) /\ q.atLineStart = p.atLineStart
  BY StripTrailingSpacesSafe
<1> HIDE DEF q
<1>2. q \in Printer /\ q.bracketDepth \in Nat
  BY <1>1, Zenon DEF Safe, InOrder, Printer
<1>3. depth \in Nat
  BY <1>2
<1> HIDE DEF depth
<1>4. r \in Printer
  BY <1>2, <1>3, Zenon DEF Printer
<1>5. SameLine(q, r) /\ r.output = q.output /\ r.atLineStart = q.atLineStart
  BY <1>2 DEF SameLine, Printer
<1>6. Safe(r)
  BY <1>1, <1>4, <1>5, SetsFlags
<1>7. NormalizeBefore(p, kind) =
        IF ~p.formatEnabled THEN p
        ELSE IF ~p.beforeOperator THEN s
             ELSE AppendSpaces(StripTrailingSpaces(s),
                               IF ShouldSpaceAroundOperator(s) THEN 1 ELSE 0)
  BY <1>2, Zenon DEF NormalizeBefore, q, depth, Printer
<1> HIDE DEF r
<1>8. Safe(s) /\ s.atLineStart = p.atLineStart
  BY <1>1, <1>5, <1>6, NormalizeBeforeCloseSafe
<1> HIDE DEF s
<1>9. \A n \in {0, 1} :
        /\ Safe(AppendSpaces(StripTrailingSpaces(s), n))
        /\ AppendSpaces(StripTrailingSpaces(s), n).atLineStart = p.atLineStart
  BY <1>8, StripTrailingSpacesSafe, AppendSpacesSafe
<1> QED
  BY <1>7, <1>8, <1>9

\* The text of a token, if it has one.
LEMMA AppendTokenSafe ==
  ASSUME NEW p, NEW kind, NEW at \in Nat \X Nat, Safe(p), p.atLineStart = FALSE
  PROVE  Safe(AppendToken(p, kind, at)) /\ AppendToken(p, kind, at).atLineStart = FALSE
<1> DEFINE item == [kind |-> IF kind \in WordKinds THEN "word" ELSE "symbol",
                    size |-> 0, at |-> at]
           q == [p EXCEPT !.output = Append(p.output, item)]
<1>1. p \in Printer /\ p.output \in Seq(Item)
  BY Zenon DEF Safe, InOrder, Printer
<1>2. /\ item \in Item /\ item.kind \notin {"newline", "comment"}
      /\ Counted(item) = 0
  BY DEF Item, Counted, NewlinesIn
<1> HIDE DEF item
<1>3. Append(p.output, item) \in Seq(Item)
  BY <1>1, <1>2, AppendProperties
<1>4. q \in Printer
  BY <1>1, <1>3, Zenon DEF Printer
<1>5. /\ SameLine(p, q) /\ q.output = Append(p.output, item)
      /\ q.atLineStart = FALSE
  BY <1>1 DEF SameLine, Printer
<1>6. Safe(q)
  BY <1>2, <1>4, <1>5, WritesText DEF Safe
<1> QED
  BY <1>5, <1>6 DEF AppendToken, AppendItem, item

\* updateAfterTokenFlags
LEMMA UpdateAfterTokenFlagsSafe ==
  ASSUME NEW p, NEW kind, Safe(p)
  PROVE  Safe(UpdateAfterTokenFlags(p, kind))
<1> DEFINE after == IF ~p.formatEnabled THEN {}
                    ELSE FlagsAfter(kind)
                           \cup (IF p.beforeOperator THEN {"operatorToken"} ELSE {})
           pending == IF p.formatEnabled THEN p.pending \cup ClosingOf(kind)
                      ELSE p.pending
           depth == IF p.formatEnabled /\ kind = "OpenBracket"
                    THEN p.bracketDepth + 1 ELSE p.bracketDepth
           q == [p EXCEPT !.after = after, !.beforeOperator = FALSE,
                          !.pending = pending, !.bracketDepth = depth]
<1>1. /\ p \in Printer /\ p.bracketDepth \in Nat
      /\ p.pending \in SUBSET {"CloseBrace", "CloseBracket", "CloseParenthesis"}
  BY Zenon DEF Safe, InOrder, Printer
<1>2. after \in SUBSET AfterTokenFlags
  BY DEF FlagsAfter, AfterTokenFlags
<1>3. pending \in SUBSET {"CloseBrace", "CloseBracket", "CloseParenthesis"}
  BY <1>1 DEF ClosingOf
<1>4. depth \in Nat
  BY <1>1
<1>5. UpdateAfterTokenFlags(p, kind) = q
  BY <1>1, Zenon DEF UpdateAfterTokenFlags, Printer
<1> HIDE DEF after, pending, depth
<1>6. q \in Printer
  <2> DEFINE r == [p EXCEPT !.after = after, !.beforeOperator = FALSE]
  <2>1. r \in Printer
    BY <1>1, <1>2, Zenon DEF Printer
  <2>2. q = [r EXCEPT !.pending = pending, !.bracketDepth = depth]
    OBVIOUS
  <2> HIDE DEF q, r
  <2> QED
    BY <1>3, <1>4, <2>1, <2>2, Zenon DEF Printer
<1>7. SameLine(p, q) /\ q.output = p.output /\ q.atLineStart = p.atLineStart
  BY <1>1 DEF SameLine, Printer
<1> HIDE DEF q
<1> QED
  BY <1>5, <1>6, <1>7, SetsFlags

\* emitToken after its trivia.
LEMMA FinishTokenSafe ==
  ASSUME NEW p, NEW kind \in TokenKinds, NEW at \in Nat \X Nat, Safe(p)
  PROVE  Safe(FinishToken(p, kind, at))
<1> DEFINE spaced == IF p.atLineStart THEN p ELSE EmitDeferredSpaces(p)
           begun  == StartLine(EmitSeparator(spaced, kind), kind)
           placed == NormalizeBefore(begun, kind)
           text   == AppendToken(placed, kind, at)
           q == [text EXCEPT !.lineDepth = p.depth, !.nextIsPrimary = FALSE,
                             !.emptyLineCount = 0, !.skipExpandedToken = FALSE,
                             !.lastTokenKind = kind]
<1>1. Safe(spaced)
  BY EmitDeferredSpacesSafe
<1> HIDE DEF spaced
<1>2. Safe(begun) /\ begun.atLineStart = FALSE
  BY <1>1, EmitSeparatorSafe, StartLineSafe
<1> HIDE DEF begun
<1>3. Safe(placed) /\ placed.atLineStart = FALSE
  BY <1>2, NormalizeBeforeSafe
<1> HIDE DEF placed
<1>4. Safe(text)
  BY <1>3, AppendTokenSafe
<1>5. p.depth \in Nat /\ kind \in LastTokenKinds
  BY Zenon DEF Safe, InOrder, Printer, LastTokenKinds
<1> HIDE DEF text
<1>6. text \in Printer
  BY <1>4 DEF Safe, InOrder
<1>7. q \in Printer
  <2> DEFINE r == [text EXCEPT !.lineDepth = p.depth, !.nextIsPrimary = FALSE]
  <2>1. r \in Printer
    BY <1>5, <1>6, Zenon DEF Printer
  <2>2. q = [r EXCEPT !.emptyLineCount = 0, !.skipExpandedToken = FALSE,
                      !.lastTokenKind = kind]
    OBVIOUS
  <2>3. 0 \in Nat
    OBVIOUS
  <2> HIDE DEF q, r
  <2> QED
    BY <1>5, <2>1, <2>2, <2>3, Zenon DEF Printer
<1>8. SameLine(text, q) /\ q.output = text.output /\ q.atLineStart = text.atLineStart
  BY <1>6 DEF SameLine, Printer
<1> HIDE DEF q
<1>9. Safe(q)
  BY <1>4, <1>7, <1>8, SetsFlags
<1> QED
  BY <1>9, UpdateAfterTokenFlagsSafe
     DEF FinishToken, spaced, begun, placed, text, q

-----------------------------------------------------------------------------
(* What leaves the depth alone. *)

\* q is at the depth of p.
KeepsDepth(p, q) == "depth" \in DOMAIN q /\ q.depth = p.depth

HasDepth(p) == "depth" \in DOMAIN p

\* Every printer has one.
LEMMA PrinterHasDepth ==
  ASSUME NEW p, Safe(p)
  PROVE  HasDepth(p) /\ p.depth \in Nat
BY Zenon DEF Safe, InOrder, Printer, HasDepth

\* The output buffer does not move the depth.
LEMMA OutputKeepsDepth ==
  ASSUME NEW p, HasDepth(p)
  PROVE  /\ \A item : KeepsDepth(p, AppendItem(p, item))
         /\ \A n : KeepsDepth(p, AppendSpaces(p, n))
         /\ KeepsDepth(p, StripTrailingSpaces(p))
         /\ KeepsDepth(p, EnsureSpace(p))
         /\ KeepsDepth(p, EndLine(p))
<1>1. \A item : KeepsDepth(p, AppendItem(p, item))
  BY DEF HasDepth, KeepsDepth, AppendItem
<1>2. \A n : KeepsDepth(p, AppendSpaces(p, n))
  BY <1>1 DEF HasDepth, KeepsDepth, AppendSpaces
<1>3. KeepsDepth(p, StripTrailingSpaces(p))
  BY DEF HasDepth, KeepsDepth, StripTrailingSpaces
<1>4. KeepsDepth(p, EnsureSpace(p))
  BY <1>2 DEF HasDepth, KeepsDepth, EnsureSpace
<1>5. KeepsDepth(p, EndLine(p))
  BY DEF HasDepth, KeepsDepth, EndLine, FinalizeLine, AppendItem
<1> QED
  BY <1>1, <1>2, <1>3, <1>4, <1>5

\* Spaces, separators and forced breaks do not move it.
LEMMA SpacesKeepDepth ==
  ASSUME NEW p, HasDepth(p), NEW n, NEW kind
  PROVE  /\ KeepsDepth(p, AppendSpaces(StripTrailingSpaces(p), n))
         /\ KeepsDepth(p, EnsureSingleSpace(p))
         /\ KeepsDepth(p, ForceNewline(p))
         /\ KeepsDepth(p, EmitDeferredSpaces(p))
         /\ KeepsDepth(p, EmitSeparator(p, kind))
         /\ KeepsDepth(p, NormalizeBeforeClose(p, kind))
         /\ KeepsDepth(p, EmitIndent(p))
         /\ KeepsDepth(p, PadBeforeTrailingComment(p))
<1> DEFINE q == StripTrailingSpaces(p)
<1>1. HasDepth(q) /\ q.depth = p.depth
  BY OutputKeepsDepth DEF KeepsDepth, HasDepth
<1>2. \A k : KeepsDepth(p, AppendSpaces(q, k))
  BY <1>1, OutputKeepsDepth DEF KeepsDepth
<1> HIDE DEF q
<1>3. KeepsDepth(p, EnsureSingleSpace(p))
  BY <1>2 DEF EnsureSingleSpace, KeepsDepth, HasDepth, q
<1>4. KeepsDepth(p, ForceNewline(p))
  BY DEF HasDepth, KeepsDepth, ForceNewline, EndLine, FinalizeLine, AppendItem
<1>5. \A k : KeepsDepth(p, AppendSpaces(p, k))
  BY OutputKeepsDepth
<1>6. KeepsDepth(p, EmitDeferredSpaces(p))
  BY <1>5 DEF EmitDeferredSpaces
<1>7. KeepsDepth(p, EmitSeparator(p, kind))
  BY <1>5 DEF EmitSeparator, KeepsDepth, HasDepth
<1>8. KeepsDepth(p, NormalizeBeforeClose(p, kind))
  BY <1>2 DEF NormalizeBeforeClose, KeepsDepth, HasDepth, q
<1>9. KeepsDepth(p, EmitIndent(p))
  BY <1>5 DEF EmitIndent, KeepsDepth, HasDepth
<1>10. KeepsDepth(p, PadBeforeTrailingComment(p))
  BY <1>5 DEF PadBeforeTrailingComment, KeepsDepth, HasDepth
<1> QED
  BY <1>2, <1>3, <1>4, <1>6, <1>7, <1>8, <1>9, <1>10 DEF q

\* Nor do the rules for the space before a token, or the flags of a line.
LEMMA BreaksKeepDepth ==
  ASSUME NEW p, HasDepth(p), NEW tok
  PROVE  /\ KeepsDepth(p, BreakBeforeClose(p, tok))
         /\ \A want, suppress : KeepsDepth(p, NormalizeSpaceBefore(p, tok, want, suppress))
         /\ KeepsDepth(p, Primary(p))
<1>1. KeepsDepth(p, BreakBeforeClose(p, tok))
  <2> DEFINE q == [p EXCEPT !.pending = @ \ {tok.kind}]
  <2>1. KeepsDepth(p, q)
    BY DEF KeepsDepth, HasDepth
  <2>2. KeepsDepth(q, ForceNewline(q))
    BY <2>1, SpacesKeepDepth DEF KeepsDepth, HasDepth
  <2> HIDE DEF q
  <2>3. KeepsDepth(p, ForceNewline(q))
    BY <2>1, <2>2 DEF KeepsDepth
  <2> QED
    BY <2>3 DEF BreakBeforeClose, KeepsDepth, HasDepth, q
<1>2. ASSUME NEW want, NEW suppress
      PROVE  KeepsDepth(p, NormalizeSpaceBefore(p, tok, want, suppress))
  <2> DEFINE q == IF want THEN EnsureSpace(p) ELSE StripTrailingSpaces(p)
  <2>1. KeepsDepth(p, q)
    BY OutputKeepsDepth
  <2> HIDE DEF q
  <2>2. KeepsDepth(p, [q EXCEPT !.suppressSeparator = @ \/ suppress])
    BY <2>1 DEF KeepsDepth
  <2> QED
    BY <2>2 DEF NormalizeSpaceBefore, KeepsDepth, HasDepth, q
<1>3. KeepsDepth(p, Primary(p))
  BY DEF KeepsDepth, HasDepth, Primary
<1> QED
  BY <1>1, <1>2, <1>3

\* Nor does an end of line.
LEMMA EndOfLineKeepsDepth ==
  ASSUME NEW p, HasDepth(p)
  PROVE  KeepsDepth(p, EmitEndOfLine(p))
<1> DEFINE q == [p EXCEPT !.beforeOperator = FALSE, !.after = {}, !.pending = {},
                          !.suppressSeparator = FALSE]
           r == CountBlankLine(q)
           s == [r EXCEPT !.currentKind = "Empty"]
           t == StripTrailingSpaces(q)
           u == [t EXCEPT !.emptyLineCount = 0, !.atLineStart = TRUE]
<1>1. KeepsDepth(p, q)
  BY DEF KeepsDepth, HasDepth
<1>2. KeepsDepth(q, t)
  BY <1>1, OutputKeepsDepth DEF KeepsDepth, HasDepth
<1>3. KeepsDepth(q, r)
  <2> HIDE DEF q
  <2> QED
    BY <1>1 DEF CountBlankLine, KeepsDepth
<1>4. EmitEndOfLine(p) \in {r, EndLine(s), EndLine(u)}
  <2> HIDE DEF q
  <2>1. EmitEndOfLine(p) = IF p.atLineStart THEN IF ShouldSuppressBlankLine(q) THEN r
                             ELSE EndLine(s) ELSE EndLine(u)
    BY DEF EmitEndOfLine, q
  <2> HIDE DEF r, s, u
  <2> QED
    BY <2>1
<1> HIDE DEF q, r, t
<1>5. KeepsDepth(p, r) /\ KeepsDepth(p, s) /\ KeepsDepth(p, u)
  BY <1>1, <1>2, <1>3 DEF KeepsDepth
<1> HIDE DEF s, u
<1>6. KeepsDepth(s, EndLine(s)) /\ KeepsDepth(u, EndLine(u))
  BY <1>5, OutputKeepsDepth DEF KeepsDepth, HasDepth
<1>7. KeepsDepth(p, EndLine(s)) /\ KeepsDepth(p, EndLine(u))
  BY <1>5, <1>6 DEF KeepsDepth
<1> QED
  BY <1>4, <1>5, <1>7

\* Nor does a comment.
LEMMA CommentKeepsDepth ==
  ASSUME NEW p, HasDepth(p), NEW t, NEW at
  PROVE  KeepsDepth(p, EmitComment(p, t, at))
<1> DEFINE d == EmitDeferredSpaces(p)
           q == [d EXCEPT !.beforeOperator = FALSE, !.after = {}]
           s == [q EXCEPT !.currentKind = "Comment"]
           r == IF p.atLineStart
                THEN IF p.formatEnabled THEN AppendSpaces(s, IndentWidth(s)) ELSE s
                ELSE PadBeforeTrailingComment(q)
           a == AppendItem(r, [kind |-> "comment", size |-> t.lines, at |-> at])
<1>1. KeepsDepth(p, d)
  BY SpacesKeepDepth
<1> HIDE DEF d
<1>2. KeepsDepth(p, q)
  BY <1>1 DEF KeepsDepth
<1> HIDE DEF q
<1>3. KeepsDepth(p, s)
  BY <1>2 DEF KeepsDepth
<1> HIDE DEF s
<1>4. KeepsDepth(s, AppendSpaces(s, IndentWidth(s)))
  BY <1>3, OutputKeepsDepth DEF KeepsDepth, HasDepth
<1>5. KeepsDepth(q, PadBeforeTrailingComment(q))
  BY <1>2, SpacesKeepDepth DEF KeepsDepth, HasDepth
<1>6. KeepsDepth(p, r)
  BY <1>2, <1>3, <1>4, <1>5 DEF KeepsDepth
<1> HIDE DEF r
<1>7. KeepsDepth(r, a)
  BY <1>6, OutputKeepsDepth DEF KeepsDepth, HasDepth
<1> HIDE DEF a
<1>8. EmitComment(p, t, at)
        = [a EXCEPT !.lineDepth = p.depth, !.atLineStart = FALSE,
                    !.formatEnabled = IF @ THEN t.pragma # "off" ELSE t.pragma = "on"]
  <2>1. q = [EmitDeferredSpaces(p) EXCEPT !.beforeOperator = FALSE, !.after = {}]
    BY DEF q, d
  <2>2. s = [q EXCEPT !.currentKind = "Comment"]
    BY DEF s
  <2>3. r = IF p.atLineStart
            THEN IF p.formatEnabled THEN AppendSpaces(s, IndentWidth(s)) ELSE s
            ELSE PadBeforeTrailingComment(q)
    BY DEF r
  <2> QED
    BY <2>1, <2>2, <2>3, Zenon DEF EmitComment, a
<1> QED
  BY <1>6, <1>7, <1>8 DEF KeepsDepth

\* Directives move the depth in disabled branches only.
LEMMA DirectivesKeepDepth ==
  ASSUME NEW p, HasDepth(p), NEW t, NEW at
  PROVE  /\ KeepsDepth(p, StartDirective(p, t))
         /\ KeepsDepth(p, NameDirective(p, t, at))
         /\ t.kind \notin {"DirectiveOpen", "DirectiveClose"} =>
              KeepsDepth(p, EmitDirectiveToken(p, t, at))
         /\ \A width : KeepsDepth(p, EmitDirectiveWhitespace(p, width))
         /\ KeepsDepth(p, EndDirective(p))
<1>1. \A q : HasDepth(q) => \A kind : KeepsDepth(q, EmitRawText(q, t, kind, at))
  BY DEF KeepsDepth, HasDepth, EmitRawText, AppendItem
<1>2. KeepsDepth(p, StartDirective(p, t))
  <2>1. KeepsDepth(p, EmitDeferredSpaces(p))
    BY SpacesKeepDepth
  <2> QED
    BY <2>1 DEF KeepsDepth, StartDirective
<1>3. KeepsDepth(p, NameDirective(p, t, at))
  <2> DEFINE q == IF p.atLineStart THEN [p EXCEPT !.currentKind = "Comment"] ELSE p
  <2>1. KeepsDepth(p, q)
    BY DEF KeepsDepth, HasDepth
  <2> HIDE DEF q
  <2> QED
    BY <1>1, <2>1 DEF KeepsDepth, HasDepth, NameDirective, q
<1>4. ASSUME t.kind \notin {"DirectiveOpen", "DirectiveClose"}
      PROVE  KeepsDepth(p, EmitDirectiveToken(p, t, at))
  <2> DEFINE r == IF p.formatEnabled /\ p.atLineStart /\ p.depth > 0
                  THEN EmitIndent(p) ELSE p
  <2>1. KeepsDepth(p, EmitIndent(p))
    BY SpacesKeepDepth
  <2>2. KeepsDepth(p, r)
    BY <2>1 DEF KeepsDepth, HasDepth
  <2>3. EmitDirectiveToken(p, t, at) = EmitRawText(r, t, "word", at)
    BY <1>4 DEF EmitDirectiveToken
  <2> HIDE DEF r
  <2> QED
    BY <1>1, <2>2, <2>3 DEF KeepsDepth, HasDepth
<1>5. ASSUME NEW width
      PROVE  KeepsDepth(p, EmitDirectiveWhitespace(p, width))
  BY OutputKeepsDepth DEF KeepsDepth, HasDepth, EmitDirectiveWhitespace
<1>6. KeepsDepth(p, EndDirective(p))
  BY DEF KeepsDepth, HasDepth, EndDirective
<1> QED
  BY <1>2, <1>3, <1>4, <1>5, <1>6

\* A trivia that neither opens nor closes a scope in a disabled branch.
LEMMA TriviaKeepsDepth ==
  ASSUME NEW p, HasDepth(p), NEW t, NEW at,
         t.kind \notin {"DirectiveOpen", "DirectiveClose"}
  PROVE  KeepsDepth(p, EmitTrivia(p, t, at))
<1>1. KeepsDepth(p, p)
  BY DEF KeepsDepth, HasDepth
<1>2. KeepsDepth(p, EmitTriviaInDirective(p, t, at))
  BY <1>1, EndOfLineKeepsDepth, DirectivesKeepDepth DEF EmitTriviaInDirective
<1>3. KeepsDepth(p, EmitWhitespace(p, t.width))
  BY <1>1, OutputKeepsDepth DEF EmitWhitespace
<1> QED
  BY <1>2, <1>3, EndOfLineKeepsDepth, DirectivesKeepDepth, CommentKeepsDepth DEF EmitTrivia

\* A token, whatever stands in front of it.
LEMMA TokenKeepsDepth ==
  ASSUME NEW p, HasDepth(p), NEW kind, NEW at
  PROVE  KeepsDepth(p, FinishToken(p, kind, at))
<1> DEFINE spaced == IF p.atLineStart THEN p ELSE EmitDeferredSpaces(p)
           apart == EmitSeparator(spaced, kind)
           begun == StartLine(apart, kind)
           placed == NormalizeBefore(begun, kind)
           printed == AppendToken(placed, kind, at)
<1>1. KeepsDepth(p, spaced)
  BY SpacesKeepDepth DEF KeepsDepth, HasDepth
<1> HIDE DEF spaced
<1>2. KeepsDepth(spaced, apart)
  BY <1>1, SpacesKeepDepth DEF KeepsDepth, HasDepth
<1> HIDE DEF apart
<1>3. KeepsDepth(apart, begun)
  <2> DEFINE q == IF apart.nextLineKind = "none" THEN apart
                  ELSE [apart EXCEPT !.currentKind = apart.nextLineKind,
                                     !.nextLineKind = "none"]
             r == IF apart.formatEnabled /\ kind # "EndOfFile" THEN EmitIndent(q) ELSE q
  <2>1. KeepsDepth(apart, q)
    BY <1>2 DEF KeepsDepth
  <2>2. begun = IF ~apart.atLineStart THEN apart
                ELSE IF apart.formatEnabled /\ kind # "EndOfFile"
                     THEN [EmitIndent(q) EXCEPT !.atLineStart = FALSE]
                     ELSE [q EXCEPT !.atLineStart = FALSE]
    <3>1. begun = StartLine(apart, kind)
      OBVIOUS
    <3> HIDE DEF begun
    <3> QED
      BY <3>1, Zenon DEF StartLine
  <2> HIDE DEF q
  <2>3. KeepsDepth(q, EmitIndent(q))
    BY <2>1, SpacesKeepDepth DEF KeepsDepth, HasDepth
  <2> HIDE DEF begun
  <2> QED
    BY <1>2, <2>1, <2>2, <2>3 DEF KeepsDepth
<1> HIDE DEF begun
<1>4. KeepsDepth(begun, placed)
  <2> DEFINE q == IF NeedsStripBefore(kind) THEN StripTrailingSpaces(begun) ELSE begun
             r == [q EXCEPT !.bracketDepth =
                     IF kind = "CloseBracket" /\ @ > 0 THEN @ - 1 ELSE @]
             s == NormalizeBeforeClose(r, kind)
             u == AppendSpaces(StripTrailingSpaces(s),
                               IF ShouldSpaceAroundOperator(s) THEN 1 ELSE 0)
  <2>1. HasDepth(begun)
    BY <1>3 DEF KeepsDepth, HasDepth
  <2>2. KeepsDepth(begun, q)
    BY <2>1, OutputKeepsDepth DEF KeepsDepth, HasDepth
  <2>3. placed \in {begun, s, u}
    <3>1. placed = IF ~begun.formatEnabled THEN begun
                   ELSE IF ~begun.beforeOperator THEN s ELSE u
      BY Zenon DEF NormalizeBefore
    <3> HIDE DEF placed, s, u
    <3> QED
      BY <3>1
  <2> HIDE DEF q, placed
  <2>4. KeepsDepth(begun, r)
    BY <2>2 DEF KeepsDepth
  <2> HIDE DEF r
  <2>5. KeepsDepth(r, s)
    BY <2>4, SpacesKeepDepth DEF KeepsDepth, HasDepth
  <2> HIDE DEF s
  <2>6. KeepsDepth(s, u)
    BY <2>5, SpacesKeepDepth DEF KeepsDepth, HasDepth
  <2> HIDE DEF u
  <2> QED
    BY <2>1, <2>3, <2>4, <2>5, <2>6 DEF KeepsDepth, HasDepth
<1> HIDE DEF placed
<1>5. KeepsDepth(placed, printed)
  BY <1>4, OutputKeepsDepth DEF AppendToken, KeepsDepth, HasDepth
<1> HIDE DEF printed
<1>6. FinishToken(p, kind, at)
        = UpdateAfterTokenFlags(
            [printed EXCEPT !.lineDepth = p.depth, !.nextIsPrimary = FALSE,
                            !.emptyLineCount = 0, !.skipExpandedToken = FALSE,
                            !.lastTokenKind = kind], kind)
  BY Zenon DEF FinishToken, spaced, apart, begun, placed, printed
<1>7. \A q : HasDepth(q) => KeepsDepth(q, UpdateAfterTokenFlags(q, kind))
  BY DEF KeepsDepth, HasDepth, UpdateAfterTokenFlags
<1>8. KeepsDepth(p, printed)
  BY <1>1, <1>2, <1>3, <1>4, <1>5 DEF KeepsDepth
<1> DEFINE last == [printed EXCEPT !.lineDepth = p.depth, !.nextIsPrimary = FALSE,
                            !.emptyLineCount = 0, !.skipExpandedToken = FALSE,
                            !.lastTokenKind = kind]
<1>9. KeepsDepth(p, last)
  BY <1>8 DEF KeepsDepth
<1> HIDE DEF last
<1> QED
  BY <1>6, <1>7, <1>9 DEF KeepsDepth, HasDepth, last

-----------------------------------------------------------------------------
(* What leaves the ends of line comments alone. *)

\* Items of which each line comment has the end of its line behind it.
Ended(output) ==
  /\ \E S : output \in Seq(S)
  /\ \A i \in 1..Len(output) : "kind" \in DOMAIN output[i]
  /\ \A i \in 1..Len(output) :
       IsLineComment(output[i]) => i < Len(output) /\ output[i + 1].kind = "newline"

Tidy(p) == "output" \in DOMAIN p /\ Ended(p.output)

\* Anything but a line comment may be written.
LEMMA EndedAppend ==
  ASSUME NEW s, Ended(s), NEW item, "kind" \in DOMAIN item, ~IsLineComment(item)
  PROVE  Ended(Append(s, item))
<1>1. PICK S : s \in Seq(S)
  BY DEF Ended
<1> DEFINE T == S \cup {item}
           t == Append(s, item)
<1>2. s \in Seq(T) /\ item \in T
  BY <1>1
<1>3. /\ t \in Seq(T) /\ Len(t) = Len(s) + 1 /\ Len(s) \in Nat
      /\ \A i \in 1..Len(s) : t[i] = s[i]
      /\ t[Len(s) + 1] = item
  <2> HIDE DEF T
  <2> QED
    BY <1>2, AppendProperties
<1> HIDE DEF T, t
<1>4. ASSUME NEW i \in 1..Len(t)
      PROVE  /\ "kind" \in DOMAIN t[i]
             /\ IsLineComment(t[i]) => i < Len(t) /\ t[i + 1].kind = "newline"
  <2>1. CASE i = Len(s) + 1
    BY <1>3, <2>1
  <2>2. CASE i # Len(s) + 1
    <3>1. i \in 1..Len(s) /\ t[i] = s[i]
      BY <1>3, <2>2
    <3>2. "kind" \in DOMAIN s[i]
      BY <3>1 DEF Ended
    <3>3. ASSUME IsLineComment(s[i])
          PROVE  i < Len(t) /\ t[i + 1].kind = "newline"
      <4>1. i < Len(s) /\ s[i + 1].kind = "newline"
        BY <3>1, <3>3 DEF Ended
      <4>2. i + 1 \in 1..Len(s)
        BY <1>3, <3>1, <4>1
      <4> QED
        BY <1>3, <3>1, <4>1, <4>2
    <3> QED
      BY <3>1, <3>2, <3>3
  <2> QED
    BY <2>1, <2>2
<1>5. \E U : t \in Seq(U)
  BY <1>3
<1> QED
  BY <1>4, <1>5 DEF Ended, t

\* So may a line comment, and then the end of its line.
LEMMA EndedComment ==
  ASSUME NEW s, Ended(s), NEW item, "kind" \in DOMAIN item
  PROVE  Ended(Append(Append(s, item), Newline))
<1>1. PICK S : s \in Seq(S)
  BY DEF Ended
<1> DEFINE T == S \cup {item, Newline}
           u == Append(s, item)
           t == Append(u, Newline)
<1>2. s \in Seq(T) /\ item \in T /\ Newline \in T
  BY <1>1
<1>3. /\ u \in Seq(T) /\ Len(u) = Len(s) + 1 /\ Len(s) \in Nat
      /\ \A i \in 1..Len(s) : u[i] = s[i]
      /\ u[Len(s) + 1] = item
  <2> HIDE DEF T
  <2> QED
    BY <1>2, AppendProperties
<1>4. /\ t \in Seq(T) /\ Len(t) = Len(u) + 1
      /\ \A i \in 1..Len(u) : t[i] = u[i]
      /\ t[Len(u) + 1] = Newline
  <2> HIDE DEF T, u
  <2> QED
    BY <1>2, <1>3, AppendProperties
<1> HIDE DEF T, t, u
<1>5. Newline.kind = "newline" /\ "kind" \in DOMAIN Newline /\ ~IsLineComment(Newline)
  BY DEF Newline, IsLineComment
<1>6. ASSUME NEW i \in 1..Len(t)
      PROVE  /\ "kind" \in DOMAIN t[i]
             /\ IsLineComment(t[i]) => i < Len(t) /\ t[i + 1].kind = "newline"
  <2>1. CASE i = Len(s) + 2
    BY <1>3, <1>4, <1>5, <2>1
  <2>2. CASE i = Len(s) + 1
    <3>1. t[i] = item /\ t[i + 1] = Newline /\ i < Len(t)
      BY <1>3, <1>4, <2>2
    <3> QED
      BY <1>5, <3>1
  <2>3. CASE i \in 1..Len(s)
    <3>1. t[i] = s[i]
      BY <1>3, <1>4, <2>3
    <3>2. "kind" \in DOMAIN s[i]
      BY <2>3 DEF Ended
    <3>3. ASSUME IsLineComment(s[i])
          PROVE  i < Len(t) /\ t[i + 1].kind = "newline"
      <4>1. i < Len(s) /\ s[i + 1].kind = "newline"
        BY <2>3, <3>3 DEF Ended
      <4>2. i + 1 \in 1..Len(s) /\ t[i + 1] = s[i + 1]
        BY <1>3, <1>4, <2>3, <4>1
      <4> QED
        BY <1>3, <1>4, <2>3, <4>1, <4>2
    <3> QED
      BY <3>1, <3>2, <3>3
  <2> QED
    BY <1>3, <1>4, <2>1, <2>2, <2>3
<1>7. \E U : t \in Seq(U)
  BY <1>4
<1> QED
  BY <1>6, <1>7 DEF Ended, t, u

\* No line comment stands in front of spaces, so they may be taken back.
LEMMA EndedPop ==
  ASSUME NEW s, Ended(s), s # <<>>, s[Len(s)].kind = "spaces"
  PROVE  Ended(Pop(s))
<1>1. PICK S : s \in Seq(S)
  BY DEF Ended
<1> DEFINE t == Pop(s)
<1>2. Len(s) \in Nat /\ Len(s) >= 1 /\ \A i \in 1..(Len(s) - 1) : s[i] \in S
  BY <1>1, ElementOfSeq, EmptySeq
<1>3. /\ t \in Seq(S) /\ Len(t) = Len(s) - 1
      /\ \A i \in 1..Len(t) : t[i] = s[i]
  <2> DEFINE n == Len(s) - 1
  <2>1. n \in Nat /\ n \in Int /\ 1 \in Int /\ \A i \in 1..n : s[i] \in S
    BY <1>2
  <2> HIDE DEF n
  <2>2. /\ t \in Seq(S)
        /\ Len(t) = IF 1 <= n THEN n - 1 + 1 ELSE 0
        /\ \A i \in 1..(n - 1 + 1) : t[i] = s[1 + i - 1]
    BY <2>1, SubSeqProperties DEF Pop, n
  <2> HIDE DEF t
  <2>4. Len(t) = n
    BY <2>1, <2>2
  <2>3. ASSUME NEW i \in 1..Len(t)
        PROVE  t[i] = s[i]
    <3>1. i \in 1..(n - 1 + 1) /\ 1 + i - 1 = i
      BY <2>1, <2>4
    <3> QED
      BY <2>2, <3>1
  <2> QED
    BY <2>2, <2>3, <2>4 DEF n
<1> HIDE DEF t
<1>4. ASSUME NEW i \in 1..Len(t)
      PROVE  /\ "kind" \in DOMAIN t[i]
             /\ IsLineComment(t[i]) => i < Len(t) /\ t[i + 1].kind = "newline"
  <2>1. i \in 1..Len(s) /\ t[i] = s[i]
    BY <1>2, <1>3
  <2>2. "kind" \in DOMAIN s[i]
    BY <2>1 DEF Ended
  <2>3. ASSUME IsLineComment(s[i])
        PROVE  i < Len(t) /\ t[i + 1].kind = "newline"
    <3>1. s[i + 1].kind = "newline"
      BY <2>1, <2>3 DEF Ended
    <3>2. i + 1 # Len(s)
      BY <3>1
    <3>3. i < Len(t) /\ t[i + 1] = s[i + 1]
      BY <1>2, <1>3, <3>2
    <3> QED
      BY <3>1, <3>3
  <2> QED
    BY <2>1, <2>2, <2>3
<1>5. \E U : t \in Seq(U)
  BY <1>3
<1> QED
  BY <1>4, <1>5 DEF Ended, t

\* They may get wider, too.
LEMMA EndedWiden ==
  ASSUME NEW s, Ended(s), s # <<>>, s[Len(s)].kind = "spaces", NEW n
  PROVE  Ended([s EXCEPT ![Len(s)].size = @ + n])
<1>1. PICK S : s \in Seq(S)
  BY DEF Ended
<1> DEFINE last == [s[Len(s)] EXCEPT !.size = @ + n]
           T == S \cup {last}
           t == [s EXCEPT ![Len(s)] = last]
<1>2. Len(s) \in Nat /\ Len(s) \in 1..Len(s) /\ s \in Seq(T)
  BY <1>1, EmptySeq
<1>3. /\ t \in Seq(T) /\ Len(t) = Len(s) /\ t[Len(s)] = last
      /\ \A i \in 1..Len(s) : i # Len(s) => t[i] = s[i]
  <2>1. last \in T
    OBVIOUS
  <2> HIDE DEF last, T
  <2> QED
    BY <1>2, <2>1
<1>4. "kind" \in DOMAIN s[Len(s)]
  BY <1>2 DEF Ended
<1>5. "kind" \in DOMAIN last /\ last.kind = "spaces"
  BY <1>4
<1>6. t = [s EXCEPT ![Len(s)].size = @ + n]
  OBVIOUS
<1> HIDE DEF last, T, t
<1>7. ~IsLineComment(last)
  BY <1>5 DEF IsLineComment
<1>8. ASSUME NEW i \in 1..Len(t)
      PROVE  /\ "kind" \in DOMAIN t[i]
             /\ IsLineComment(t[i]) => i < Len(t) /\ t[i + 1].kind = "newline"
  <2>1. CASE i = Len(s)
    BY <1>3, <1>5, <1>7, <2>1
  <2>2. CASE i # Len(s)
    <3>1. i \in 1..Len(s) /\ t[i] = s[i]
      BY <1>3, <2>2
    <3>2. "kind" \in DOMAIN s[i]
      BY <3>1 DEF Ended
    <3>3. ASSUME IsLineComment(s[i])
          PROVE  i < Len(t) /\ t[i + 1].kind = "newline"
      <4>1. i < Len(s) /\ s[i + 1].kind = "newline"
        BY <3>1, <3>3 DEF Ended
      <4>2. i + 1 # Len(s) /\ i + 1 \in 1..Len(s)
        BY <1>2, <3>1, <4>1
      <4> QED
        BY <1>3, <4>1, <4>2
    <3> QED
      BY <3>1, <3>2, <3>3
  <2> QED
    BY <2>1, <2>2
<1>9. \E U : t \in Seq(U)
  BY <1>3
<1>10. Ended(t)
  BY <1>8, <1>9 DEF Ended
<1> QED
  BY <1>6, <1>10

\* A printer with the output of a tidy one is tidy.
LEMMA TidySame ==
  ASSUME NEW p, NEW q, Tidy(p), "output" \in DOMAIN q, q.output = p.output
  PROVE  Tidy(q)
BY DEF Tidy

\* Spaces, ends of line and all but line comments keep it tidy.
LEMMA OutputTidy ==
  ASSUME NEW p, Tidy(p)
  PROVE  /\ \A item : "kind" \in DOMAIN item /\ ~IsLineComment(item)
                        => Tidy(AppendItem(p, item))
         /\ \A n : Tidy(AppendSpaces(p, n))
         /\ Tidy(StripTrailingSpaces(p))
         /\ Tidy(EnsureSpace(p))
         /\ Tidy(EndLine(p))
<1>1. ASSUME NEW item, "kind" \in DOMAIN item, ~IsLineComment(item)
      PROVE  Tidy(AppendItem(p, item))
  <2>1. Ended(Append(p.output, item))
    BY <1>1, EndedAppend DEF Tidy
  <2> QED
    BY <2>1 DEF Tidy, AppendItem
<1>2. ASSUME NEW n
      PROVE  Tidy(AppendSpaces(p, n))
  <2>1. CASE n # 0 /\ EndsIn(p, "spaces")
    <3>1. Ended([p.output EXCEPT ![Len(p.output)].size = @ + n])
      BY <2>1, EndedWiden DEF Tidy, EndsIn
    <3>2. AppendSpaces(p, n)
            = [p EXCEPT !.output = [p.output EXCEPT ![Len(p.output)].size = @ + n]]
      BY <2>1 DEF AppendSpaces
    <3> DEFINE widened == [p.output EXCEPT ![Len(p.output)].size = @ + n]
    <3> HIDE DEF widened
    <3>3. Tidy([p EXCEPT !.output = widened])
      BY <3>1 DEF Tidy, widened
    <3> QED
      BY <3>2, <3>3 DEF widened
  <2>2. "kind" \in DOMAIN Spaces(n) /\ ~IsLineComment(Spaces(n))
    BY DEF Spaces, IsLineComment
  <2> QED
    BY <1>1, <2>1, <2>2 DEF AppendSpaces
<1>3. ASSUME EndsIn(p, "spaces")
      PROVE  Tidy([p EXCEPT !.output = Pop(@)])
  <2>1. Ended(Pop(p.output))
    BY <1>3, EndedPop DEF Tidy, EndsIn
  <2> QED
    BY <2>1 DEF Tidy
<1>4. Tidy(StripTrailingSpaces(p))
  BY <1>3 DEF StripTrailingSpaces
<1>5. Tidy(EnsureSpace(p))
  BY <1>2 DEF EnsureSpace
<1>6. Tidy(EndLine(p))
  <2>1. "kind" \in DOMAIN Newline /\ ~IsLineComment(Newline)
    BY DEF Newline, IsLineComment
  <2>2. Tidy(AppendItem(p, Newline))
    BY <1>1, <2>1
  <2> QED
    BY <2>2 DEF EndLine, FinalizeLine, Tidy
<1> QED
  BY <1>1, <1>2, <1>4, <1>5, <1>6

\* So do the helpers that space and break.
LEMMA SpacesTidy ==
  ASSUME NEW p, Tidy(p), NEW n, NEW kind
  PROVE  /\ Tidy(AppendSpaces(StripTrailingSpaces(p), n))
         /\ Tidy(EnsureSingleSpace(p))
         /\ Tidy(ForceNewline(p))
         /\ Tidy(EmitDeferredSpaces(p))
         /\ Tidy(EmitSeparator(p, kind))
         /\ Tidy(NormalizeBeforeClose(p, kind))
         /\ Tidy(EmitIndent(p))
         /\ Tidy(PadBeforeTrailingComment(p))
<1>1. \A k : Tidy(AppendSpaces(StripTrailingSpaces(p), k))
  <2>1. Tidy(StripTrailingSpaces(p))
    BY OutputTidy
  <2> QED
    BY <2>1, OutputTidy
<1>2. Tidy(EnsureSingleSpace(p))
  BY <1>1 DEF EnsureSingleSpace
<1>3. Tidy(ForceNewline(p))
  <2> DEFINE q == IF EndsIn(p, "spaces") THEN [p EXCEPT !.output = Pop(@)] ELSE p
  <2>1. CASE EndsIn(p, "spaces")
    <3>1. Ended(Pop(p.output))
      BY <2>1, EndedPop DEF Tidy, EndsIn
    <3> QED
      BY <2>1, <3>1, OutputTidy DEF Tidy, ForceNewline
  <2>2. CASE ~EndsIn(p, "spaces")
    BY <2>2, OutputTidy DEF Tidy, ForceNewline
  <2> QED
    BY <2>1, <2>2
<1>4. \A k : Tidy(AppendSpaces(p, k))
  BY OutputTidy
<1>5. Tidy(EmitDeferredSpaces(p))
  BY <1>4 DEF EmitDeferredSpaces
<1>6. Tidy(EmitSeparator(p, kind))
  BY <1>4 DEF EmitSeparator, Tidy
<1>7. Tidy(NormalizeBeforeClose(p, kind))
  BY <1>1 DEF NormalizeBeforeClose
<1>8. Tidy(EmitIndent(p))
  BY <1>4 DEF EmitIndent, Tidy
<1>9. Tidy(PadBeforeTrailingComment(p))
  BY <1>4 DEF PadBeforeTrailingComment
<1> QED
  BY <1>1, <1>2, <1>3, <1>5, <1>6, <1>7, <1>8, <1>9

LEMMA BreaksTidy ==
  ASSUME NEW p, Tidy(p), NEW tok
  PROVE  /\ Tidy(BreakBeforeClose(p, tok))
         /\ \A want, suppress : Tidy(NormalizeSpaceBefore(p, tok, want, suppress))
<1>1. Tidy(BreakBeforeClose(p, tok))
  <2>1. Tidy([p EXCEPT !.pending = @ \ {tok.kind}])
    BY DEF Tidy
  <2> QED
    BY <2>1, SpacesTidy DEF BreakBeforeClose
<1>2. ASSUME NEW want, NEW suppress
      PROVE  Tidy(NormalizeSpaceBefore(p, tok, want, suppress))
  <2> DEFINE q == IF want THEN EnsureSpace(p) ELSE StripTrailingSpaces(p)
  <2>1. Tidy(q)
    BY OutputTidy
  <2> HIDE DEF q
  <2>2. Tidy([q EXCEPT !.suppressSeparator = @ \/ suppress])
    BY <2>1 DEF Tidy
  <2> QED
    BY <2>2 DEF NormalizeSpaceBefore, q
<1> QED
  BY <1>1, <1>2

LEMMA EndOfLineTidy ==
  ASSUME NEW p, Tidy(p)
  PROVE  Tidy(EmitEndOfLine(p))
<1> DEFINE q == [p EXCEPT !.beforeOperator = FALSE, !.after = {}, !.pending = {},
                          !.suppressSeparator = FALSE]
           r == CountBlankLine(q)
           s == [r EXCEPT !.currentKind = "Empty"]
           t == StripTrailingSpaces(q)
           u == [t EXCEPT !.emptyLineCount = 0, !.atLineStart = TRUE]
<1>1. Tidy(q)
  BY DEF Tidy
<1>2. Tidy(t)
  BY <1>1, OutputTidy
<1>3. EmitEndOfLine(p) \in {r, EndLine(s), EndLine(u)}
  <2> HIDE DEF q
  <2>1. EmitEndOfLine(p) = IF p.atLineStart THEN IF ShouldSuppressBlankLine(q) THEN r
                             ELSE EndLine(s) ELSE EndLine(u)
    BY DEF EmitEndOfLine, q
  <2> HIDE DEF r, s, u
  <2> QED
    BY <2>1
<1> HIDE DEF q
<1>4. Tidy(r)
  BY <1>1 DEF CountBlankLine, Tidy
<1> HIDE DEF r, t
<1>5. Tidy(s) /\ Tidy(u)
  BY <1>2, <1>4 DEF Tidy
<1> HIDE DEF s, u
<1> QED
  BY <1>3, <1>4, <1>5, OutputTidy

\* A comment is written, whatever it is, behind what leaves a printer tidy.
LEMMA CommentTidy ==
  ASSUME NEW p, Tidy(p), NEW t, NEW at
  PROVE  /\ "output" \in DOMAIN EmitComment(p, t, at)
         /\ "atLineStart" \in DOMAIN EmitComment(p, t, at)
              => EmitComment(p, t, at).atLineStart = FALSE
         /\ \E s : /\ Ended(s)
                   /\ EmitComment(p, t, at).output
                        = Append(s, [kind |-> "comment", size |-> t.lines, at |-> at])
<1> DEFINE d == EmitDeferredSpaces(p)
           q == [d EXCEPT !.beforeOperator = FALSE, !.after = {}]
           s == [q EXCEPT !.currentKind = "Comment"]
           r == IF p.atLineStart
                THEN IF p.formatEnabled THEN AppendSpaces(s, IndentWidth(s)) ELSE s
                ELSE PadBeforeTrailingComment(q)
           item == [kind |-> "comment", size |-> t.lines, at |-> at]
           a == AppendItem(r, item)
           e == EmitComment(p, t, at)
<1>1. e = [a EXCEPT !.lineDepth = p.depth, !.atLineStart = FALSE,
                    !.formatEnabled = IF @ THEN t.pragma # "off" ELSE t.pragma = "on"]
  BY Zenon DEF EmitComment, d, q, s, r, a, item
<1>2. Tidy(d)
  BY SpacesTidy
<1> HIDE DEF d
<1>3. Tidy(q)
  BY <1>2 DEF Tidy
<1> HIDE DEF q
<1>4. Tidy(s)
  BY <1>3 DEF Tidy
<1> HIDE DEF s
<1>5. Tidy(r)
  BY <1>3, <1>4, OutputTidy, SpacesTidy
<1> HIDE DEF r, item
<1>6. "output" \in DOMAIN a /\ a.output = Append(r.output, item)
  BY <1>5 DEF Tidy, AppendItem
<1> HIDE DEF a, e
<1>7. "output" \in DOMAIN e /\ e.output = Append(r.output, item)
  BY <1>1, <1>6
<1>8. "atLineStart" \in DOMAIN e => "atLineStart" \in DOMAIN a
  BY <1>1
<1>9. "atLineStart" \in DOMAIN e => e.atLineStart = FALSE
  BY <1>1, <1>8
<1>10. Ended(r.output)
  BY <1>5 DEF Tidy
<1> QED
  BY <1>7, <1>9, <1>10 DEF e, item

\* So do directives,
LEMMA DirectivesTidy ==
  ASSUME NEW p, Tidy(p), NEW t, NEW at
  PROVE  /\ Tidy(StartDirective(p, t))
         /\ Tidy(NameDirective(p, t, at))
         /\ Tidy(EmitDirectiveToken(p, t, at))
         /\ \A width : Tidy(EmitDirectiveWhitespace(p, width))
         /\ Tidy(EndDirective(p))
<1>1. ASSUME NEW q, Tidy(q), NEW kind \in {"directive", "word"}
      PROVE  Tidy(EmitRawText(q, t, kind, at))
  <2> DEFINE item == [kind |-> kind, size |-> t.lines, at |-> at]
  <2>1. "kind" \in DOMAIN item /\ ~IsLineComment(item)
    BY DEF IsLineComment
  <2> HIDE DEF item
  <2>2. Tidy(AppendItem(q, item))
    BY <1>1, <2>1, OutputTidy
  <2> QED
    BY <2>2 DEF EmitRawText, Tidy, item
<1>2. Tidy(StartDirective(p, t))
  BY SpacesTidy DEF StartDirective, Tidy
<1>3. Tidy(NameDirective(p, t, at))
  <2>1. Tidy([p EXCEPT !.currentKind = "Comment"])
    BY DEF Tidy
  <2> QED
    BY <1>1, <2>1 DEF NameDirective
<1>4. Tidy(EmitDirectiveToken(p, t, at))
  <2> DEFINE q == IF t.kind = "DirectiveClose" /\ p.depth > 0 THEN Dedent(p) ELSE p
             r == IF q.formatEnabled /\ q.atLineStart /\ q.depth > 0
                  THEN EmitIndent(q) ELSE q
             s == EmitRawText(r, t, "word", at)
  <2>1. Tidy(q)
    BY DEF Tidy, Dedent
  <2> HIDE DEF q
  <2>2. Tidy(r)
    BY <2>1, SpacesTidy
  <2> HIDE DEF r
  <2>3. Tidy(s)
    BY <1>1, <2>2
  <2>4. EmitDirectiveToken(p, t, at) = IF t.kind = "DirectiveOpen" THEN Indent(s) ELSE s
    BY Zenon DEF EmitDirectiveToken, q, r, s
  <2> HIDE DEF s
  <2> QED
    BY <2>3, <2>4 DEF Tidy, Indent
<1>5. \A width : Tidy(EmitDirectiveWhitespace(p, width))
  BY OutputTidy DEF EmitDirectiveWhitespace
<1>6. Tidy(EndDirective(p))
  BY DEF EndDirective, Tidy
<1> QED
  BY <1>2, <1>3, <1>4, <1>5, <1>6

\* and tokens.
LEMMA TokenTidy ==
  ASSUME NEW p, Tidy(p), NEW kind, NEW at
  PROVE  Tidy(FinishToken(p, kind, at))
<1> DEFINE spaced == IF p.atLineStart THEN p ELSE EmitDeferredSpaces(p)
           apart == EmitSeparator(spaced, kind)
           begun == StartLine(apart, kind)
           placed == NormalizeBefore(begun, kind)
           printed == AppendToken(placed, kind, at)
           last == [printed EXCEPT !.lineDepth = p.depth, !.nextIsPrimary = FALSE,
                                   !.emptyLineCount = 0, !.skipExpandedToken = FALSE,
                                   !.lastTokenKind = kind]
<1>1. Tidy(spaced)
  BY SpacesTidy
<1>2. FinishToken(p, kind, at) = UpdateAfterTokenFlags(last, kind)
  BY Zenon DEF FinishToken, spaced, apart, begun, placed, printed, last
<1> HIDE DEF spaced
<1>3. Tidy(apart)
  BY <1>1, SpacesTidy
<1> HIDE DEF apart
<1>4. Tidy(begun)
  <2> DEFINE q == IF apart.nextLineKind = "none" THEN apart
                  ELSE [apart EXCEPT !.currentKind = apart.nextLineKind,
                                     !.nextLineKind = "none"]
  <2>1. Tidy(q)
    BY <1>3 DEF Tidy
  <2>2. begun = IF ~apart.atLineStart THEN apart
                ELSE IF apart.formatEnabled /\ kind # "EndOfFile"
                     THEN [EmitIndent(q) EXCEPT !.atLineStart = FALSE]
                     ELSE [q EXCEPT !.atLineStart = FALSE]
    <3>1. begun = StartLine(apart, kind)
      OBVIOUS
    <3> HIDE DEF begun
    <3> QED
      BY <3>1, Zenon DEF StartLine
  <2> HIDE DEF q, begun
  <2>3. Tidy(EmitIndent(q))
    BY <2>1, SpacesTidy
  <2> QED
    BY <1>3, <2>1, <2>2, <2>3 DEF Tidy
<1> HIDE DEF begun
<1>5. Tidy(placed)
  <2> DEFINE q == IF NeedsStripBefore(kind) THEN StripTrailingSpaces(begun) ELSE begun
             r == [q EXCEPT !.bracketDepth =
                     IF kind = "CloseBracket" /\ @ > 0 THEN @ - 1 ELSE @]
             s == NormalizeBeforeClose(r, kind)
             u == AppendSpaces(StripTrailingSpaces(s),
                               IF ShouldSpaceAroundOperator(s) THEN 1 ELSE 0)
  <2>1. placed \in {begun, s, u}
    <3>1. placed = IF ~begun.formatEnabled THEN begun
                   ELSE IF ~begun.beforeOperator THEN s ELSE u
      BY Zenon DEF NormalizeBefore
    <3> HIDE DEF placed, s, u
    <3> QED
      BY <3>1
  <2>2. Tidy(q)
    BY <1>4, OutputTidy
  <2> HIDE DEF q, placed
  <2>3. Tidy(r)
    BY <2>2 DEF Tidy
  <2> HIDE DEF r
  <2>4. Tidy(s)
    BY <2>3, SpacesTidy
  <2> HIDE DEF s
  <2>5. Tidy(u)
    BY <2>4, SpacesTidy
  <2> HIDE DEF u
  <2> QED
    BY <1>4, <2>1, <2>4, <2>5
<1> HIDE DEF placed
<1>6. Tidy(printed)
  <2> DEFINE item == [kind |-> IF kind \in WordKinds THEN "word" ELSE "symbol",
                      size |-> 0, at |-> at]
  <2>1. "kind" \in DOMAIN item /\ ~IsLineComment(item)
    BY DEF IsLineComment
  <2>2. printed = IF kind = "EndOfFile" \/ placed.skipExpandedToken THEN placed
                  ELSE AppendItem(placed, item)
    BY Zenon DEF AppendToken
  <2> HIDE DEF item, printed
  <2>3. Tidy(AppendItem(placed, item))
    BY <1>5, <2>1, OutputTidy
  <2> QED
    BY <1>5, <2>2, <2>3
<1> HIDE DEF printed
<1>7. Tidy(last)
  BY <1>6 DEF Tidy
<1> HIDE DEF last
<1> QED
  BY <1>2, <1>7 DEF Tidy, UpdateAfterTokenFlags

\* A trivia that is no line comment, or one that a directive leaves out.
LEMMA TriviaTidy ==
  ASSUME NEW p, Tidy(p), NEW t, NEW at,
         Tok(at[1]).trivia[at[2]].kind # "LineComment" \/ IsInDirective(t)
  PROVE  Tidy(EmitTrivia(p, t, at))
<1>1. Tidy(EmitTriviaInDirective(p, t, at))
  BY EndOfLineTidy, DirectivesTidy DEF EmitTriviaInDirective
<1>2. Tidy(EmitWhitespace(p, t.width))
  BY OutputTidy DEF EmitWhitespace
<1>3. ASSUME ~IsInDirective(t)
      PROVE  Tidy(EmitComment(p, t, at))
  <2> DEFINE item == [kind |-> "comment", size |-> t.lines, at |-> at]
  <2>1. "kind" \in DOMAIN item /\ ~IsLineComment(item)
    BY <1>3 DEF IsLineComment
  <2> DEFINE e == EmitComment(p, t, at)
  <2>2. "output" \in DOMAIN e /\ \E s : Ended(s) /\ e.output = Append(s, item)
    BY CommentTidy
  <2> HIDE DEF item, e
  <2>3. PICK s : Ended(s) /\ e.output = Append(s, item)
    BY <2>2
  <2>4. Ended(Append(s, item))
    BY <2>1, <2>3, EndedAppend
  <2> QED
    BY <2>2, <2>3, <2>4 DEF Tidy, e
<1> QED
  BY <1>1, <1>2, <1>3, EndOfLineTidy, DirectivesTidy DEF EmitTrivia

-----------------------------------------------------------------------------
(* The printer before the first token. *)

\* A new printer is in order.
LEMMA NewPrinterSafe ==
  ASSUME NEW style \in Styles
  PROVE  Safe(NewPrinter(style))
<1> DEFINE p == NewPrinter(style)
<1>1. style \in Style
  BY StylesAssumption
<1>2. /\ <<>> \in Seq(Item) /\ <<>> \in Seq(LineMetadata)
      /\ "Other" \in LineKinds /\ "Unknown" \in LastTokenKinds
  BY DEF LineKinds, LastTokenKinds
<1>3. p \in Printer
  BY <1>1, <1>2 DEF NewPrinter, Printer
<1>4. /\ p.style = style /\ p.output = <<>> /\ p.lineMetadata = <<>>
      /\ p.lineStart = 0 /\ p.outputLineNumber = 0
  BY Zenon DEF NewPrinter
<1>5. NewlineCount(<<>>) = 0
  BY FS_EmptySet DEF NewlineCount
<1> HIDE DEF p
<1>6. Numbered(p)
  <2> DEFINE lines == [n \in 0..0 |-> 0]
  <2>1. Len(p.output) = 0 /\ lines \in [0..0 -> Nat] /\ lines[0] = 0 /\ 1..0 = {}
    BY <1>4
  <2> HIDE DEF lines
  <2>2. NumberedBy(p, lines)
    BY <1>4, <2>1 DEF NumberedBy
  <2> QED
    BY <2>1, <2>2 DEF Numbered
<1>7. InOrder(p)
  BY <1>3, <1>4, <1>5, <1>6 DEF InOrder
<1>8. NoTextAtLineStart(p)
  BY <1>4 DEF NoTextAtLineStart
<1> QED
  BY <1>7, <1>8 DEF Safe, p

-----------------------------------------------------------------------------
(* The calls. *)

TokenOps ==
  {"emitToken", "emitOperator", "emitTrivia", "finishToken",
   "emitEndTokenTrivia", "insertBlankLineBefore", "finishBlankLine",
   "forceStatementBreak", "spaceBefore", "noSpaceBefore", "softSpaceBefore",
   "softNoSpaceBefore", "skipTrivia", "breakBeforeClose", "instanceSpace", "weightSpaces"}

\* The loops over the items of a list, and what starts them.
ListOps ==
  {"portList", "port", "wrappedPort", "plainPort", "instances", "instance",
   "declarator", "listedItem", "listItem", "inlineItem"}

\* The operations on nodes of a certain kind.
KindOps == {"visitExpanded", "importPorts", "coverItems"}
KindsFor(op) ==
  CASE op = "visitExpanded" -> {"ParameterValueAssignment"}
    [] op = "importPorts"   -> {"FunctionPortList"}
    [] OTHER                -> CoverKinds

NodeOps ==
  {"visit", "member", "moduleMember", "blockItem", "constraintItem", "rsItem",
   "closeScope", "breakConditionalBody"} \cup ListOps \cup KindOps

\* The operations on a node that come to its closing token.
ClosingOps ==
  {"moduleMember", "blockItem", "constraintItem", "rsItem", "closeScope"}
    \cup ListOps

\* The calls whose arguments the document has.
Calls ==
  {c \in Call :
     /\ c.op \in TokenOps => c.x \in DOMAIN doc.toks
     /\ c.op = "emitTrivia" => c.i \in DOMAIN doc.toks[c.x].trivia
     /\ c.op \in NodeOps => c.x \in DOMAIN doc.nodes
     /\ c.op \in ClosingOps => doc.nodes[c.x].tail # <<>>
     /\ c.op \in KindOps => doc.nodes[c.x].kind \in KindsFor(c.op)
     /\ c.op = "member" =>
          doc.nodes[c.x].kind = "CompilationUnit" \/ doc.nodes[c.x].tail # <<>>}

-----------------------------------------------------------------------------
(* The depth to which calls lead. *)

\* The operations that visit nodes, and those of them that are called one level
\* deeper than they leave the printer.
DescendOps == NodeOps \ {"breakConditionalBody"}
LeavingOps ==
  {"blockItem", "moduleMember", "constraintItem", "rsItem", "closeScope",
   "listItem", "portList", "port", "wrappedPort"}

\* The loop over the members of a compilation unit closes no scope.
Leaves(d, c) ==
  \/ c.op \in LeavingOps
  \/ c.op = "member" /\ d.nodes[c.x].kind # "CompilationUnit"

\* By how much a call and all it calls move the depth, and how high above the
\* level it is called at it may take it: a node has a higher number than its
\* children.
Rise(d, c) ==
  IF c.op = "indent" THEN 1
  ELSE IF c.op = "dedent" \/ Leaves(d, c) THEN -1
  ELSE 0

Height(d, c) ==
  IF c.op = "indent" THEN 1
  ELSE IF c.op \notin DescendOps THEN 0
  ELSE IF Leaves(d, c) THEN c.x - 1
  ELSE c.x

\* The calls lead from level m to level n, never below 0 and never above top.
LeadsBy(d, calls, levels, m, n, top) ==
  /\ levels[1] = m
  /\ levels[Len(calls) + 1] = n
  /\ \A k \in 1..Len(calls) :
       /\ levels[k] + Height(d, calls[k]) <= top
       /\ levels[k + 1] = levels[k] + Rise(d, calls[k])

Leads(d, calls, m, n, top) ==
  \E levels \in [1..(Len(calls) + 1) -> Nat] : LeadsBy(d, calls, levels, m, n, top)

\* Behind the call that emits a line comment comes the one for the end of its line.
EmitsA(kind, c) == c.op = "emitTrivia" /\ Tok(c.x).trivia[c.i].kind = kind

RowsEnd(calls) ==
  \A k \in 1..Len(calls) :
    EmitsA("LineComment", calls[k])
      => k < Len(calls) /\ EmitsA("EndOfLine", calls[k + 1])

\* What a node n may be replaced with: calls that lead back to where they
\* started, or one level down.
Balanced(n) == {calls \in Seq(Calls) : RowsEnd(calls) /\ Leads(doc, calls, 0, 0, n)}
Closing(n)  == {calls \in Seq(Calls) : RowsEnd(calls) /\ Leads(doc, calls, 1, 0, n)}

\* The calls that neither move the depth nor visit a node, and those that do not
\* move it and visit none above n, without the calls for trivia or with them.
PlainOps ==
  {"forceNewline", "timingControlLine", "declarationLine", "connectionLine",
   "boundaryLine", "stripSpaces", "portItem", "portItemDone", "primary",
   "assignmentLine", "oneSpace", "ensureSpace", "ensureSingleSpace", "freshLine"}

QuietOps == TokenOps \cup PlainOps \cup {"breakConditionalBody"}
Sideways(n) == {c \in Calls : Rise(doc, c) = 0 /\ Height(doc, c) <= n}
Flat(n)  == {c \in Sideways(n) : c.op # "emitTrivia"}

\* In disabled branches of a directive begin and end move the depth as well, and
\* whether they are balanced there is up to the source.
NoDisabledScopes ==
  \A d \in Documents : \A i \in DOMAIN d.toks : \A j \in DOMAIN d.toks[i].trivia :
    d.toks[i].trivia[j].kind \notin {"DirectiveOpen", "DirectiveClose"}

\* The depth has room for the levels of a document.
RoomForDepth == \A d \in Documents : Len(d.nodes) <= MaxUnsigned

DepthCounts == NoDisabledScopes /\ RoomForDepth

\* A line comment has just been written, and the end of its line is next.
Ending(p, calls) ==
  /\ Ended(Append(p.output, Newline)) /\ EndsIn(p, "comment") /\ ~p.atLineStart
  /\ calls # <<>> /\ EmitsA("EndOfLine", Head(calls))

LineComments(p, calls) == RowsEnd(calls) /\ (Tidy(p) \/ Ending(p, calls))

IInv ==
  /\ doc \in Documents
  /\ Safe(pr)
  /\ work \in Seq(Calls)
  /\ LineComments(pr, work)
  /\ DepthCounts => Leads(doc, work, pr.depth, 0, Len(doc.nodes))

-----------------------------------------------------------------------------
(* What a document has. *)

\* The parts of a document.
LEMMA DocumentTypes ==
  ASSUME doc \in Documents
  PROVE  /\ doc.toks \in Seq(Token)
         /\ doc.nodes \in Seq(Node(doc.toks, doc.nodes))
         /\ doc.root \in DOMAIN doc.nodes
         /\ Len(doc.toks) \in DOMAIN doc.toks
         /\ \A n \in DOMAIN doc.nodes : IsWellShaped(doc.nodes[n], doc.nodes)
         /\ \A i \in DOMAIN doc.toks : WellFormedTrivia(doc.toks[i].trivia)
<1>1. IsDocument(doc)
  BY DocumentsAssumption
<1>2. doc.toks \in Seq(Token) /\ doc.toks # <<>>
  BY <1>1 DEF IsDocument
<1>3. Len(doc.toks) \in DOMAIN doc.toks
  BY <1>2, EmptySeq
<1> QED
  BY <1>1, <1>2, <1>3 DEF IsDocument

\* A token of the document and its trivia.
LEMMA TokenTypes ==
  ASSUME doc \in Documents, NEW i \in DOMAIN doc.toks
  PROVE  /\ i \in Nat
         /\ Tok(i).kind \in TokenKinds
         /\ Tok(i).trivia \in Seq(Trivia)
         /\ Len(Tok(i).trivia) \in Nat
<1>1. doc.toks \in Seq(Token) /\ i \in Nat
  BY DocumentTypes
<1>2. Tok(i) \in Token
  BY <1>1 DEF Tok
<1>3. Tok(i).kind \in TokenKinds /\ Tok(i).trivia \in Seq(Trivia)
  BY <1>2, Zenon DEF Token
<1> QED
  BY <1>1, <1>3

\* A node of the document: its tokens and children.
LEMMA NodeTypes ==
  ASSUME doc \in Documents, NEW n \in DOMAIN doc.nodes
  PROVE  /\ n \in Nat
         /\ Kids(n) \in Seq(DOMAIN doc.nodes)
         /\ Label(n) \in Seq(DOMAIN doc.toks)
         /\ Head1(n) \in Seq(DOMAIN doc.toks)
         /\ Tail1(n) \in Seq(DOMAIN doc.toks)
         /\ First(n) \in DOMAIN doc.toks
         /\ IsWellShaped(doc.nodes[n], doc.nodes)
<1>1. /\ doc.nodes \in Seq(Node(doc.toks, doc.nodes)) /\ n \in Nat
      /\ IsWellShaped(doc.nodes[n], doc.nodes)
  BY DocumentTypes
<1>2. doc.nodes[n] \in Node(doc.toks, doc.nodes)
  BY <1>1
<1> QED
  BY <1>1, <1>2, Zenon DEF Node, Kids, Label, Head1, Tail1, First

\* The children of a node, which come before it.
LEMMA KidTypes ==
  ASSUME doc \in Documents, NEW n \in DOMAIN doc.nodes, NEW k \in DOMAIN Kids(n)
  PROVE  /\ Kids(n)[k] \in DOMAIN doc.nodes
         /\ Kids(n)[k] \in Nat /\ n \in Nat
         /\ Kids(n)[k] < n
         /\ First(Kids(n)[k]) \in DOMAIN doc.toks
<1>1. Kids(n)[k] \in DOMAIN doc.nodes
  BY NodeTypes, ElementOfSeq
<1>2. IsDocument(doc)
  BY DocumentsAssumption
<1>3. \A i \in DOMAIN doc.nodes[n].kids : doc.nodes[n].kids[i] < n
  BY <1>2, Zenon DEF IsDocument
<1> QED
  BY <1>1, <1>3, NodeTypes DEF Kids

\* What emitLeadingTrailingComment consumes are trivia of the token, to the last or
\* to an end of line.
LEMMA LeadingTrailingLengthType ==
  ASSUME NEW tok, tok.trivia \in Seq(Trivia)
  PROVE  /\ LeadingTrailingLength(tok) \in Nat
         /\ LeadingTrailingLength(tok) <= Len(tok.trivia)
         /\ \/ LeadingTrailingLength(tok) = Len(tok.trivia)
            \/ tok.trivia[LeadingTrailingLength(tok)].kind = "EndOfLine"
<1> DEFINE ends == {i \in Leading(tok) : tok.trivia[i].kind = "EndOfLine"}
<1>1. /\ Len(tok.trivia) \in Nat /\ DOMAIN tok.trivia = 1..Len(tok.trivia)
      /\ ends \subseteq DOMAIN tok.trivia
  BY DEF Leading
<1>2. CASE ends = {}
  BY <1>1, <1>2 DEF LeadingTrailingLength
<1>3. CASE ends # {}
  <2>1. ends \subseteq Nat
    BY <1>1
  <2>2. PICK i \in ends : \A j \in ends : ~ (<<j, i>> \in OpToRel(<, Nat))
    BY <1>3, <2>1, NatLessThanWellFounded, WFMin
  <2>3. \A j \in ends : i <= j
    <3> SUFFICES ASSUME NEW j \in ends
                 PROVE  i <= j
      OBVIOUS
    <3>1. ~(j < i)
      BY <2>1, <2>2 DEF OpToRel
    <3> QED
      BY <2>1, <3>1
  <2> DEFINE least == CHOOSE k \in ends : \A j \in ends : k <= j
  <2>4. least \in ends
    BY <2>3
  <2>5. LeadingTrailingLength(tok) = least
    BY <1>3 DEF LeadingTrailingLength
  <2> HIDE DEF least
  <2> QED
    BY <1>1, <2>4, <2>5
<1> QED
  BY <1>2, <1>3

\* The whitespace in front of a token has a length.
LEMMA LeadingWhitespaceLengthType ==
  ASSUME doc \in Documents, NEW x \in DOMAIN doc.toks
  PROVE  LeadingWhitespaceLength(Tok(x)) \in Nat
<1> DEFINE trivia == Tok(x).trivia
           lead == Leading(Tok(x))
           columns(i) == {i} \X (1..trivia[i].width)
           all == {columns(i) : i \in lead}
<1>1. trivia \in Seq(Trivia)
  BY TokenTypes
<1>2. lead \subseteq 1..Len(trivia)
  BY <1>1 DEF Leading
<1>3. IsFiniteSet(lead)
  BY <1>1, <1>2, FS_Interval, FS_Subset
<1>4. IsFiniteSet(all)
  <2> DEFINE f == [i \in lead |-> columns(i)]
  <2>1. f \in Surjection(lead, all)
    BY DEF Surjection
  <2> QED
    BY <1>3, <2>1, FS_Surjection
<1>5. ASSUME NEW i \in lead
      PROVE  IsFiniteSet(columns(i))
  <2>1. trivia[i] \in Trivia
    BY <1>1, <1>2, ElementOfSeq
  <2>2. trivia[i].width \in Nat
    BY <2>1, Zenon DEF Trivia
  <2> DEFINE w == trivia[i].width
  <2>3. 1 \in Int /\ w \in Int
    BY <2>2
  <2> HIDE DEF w
  <2>4. IsFiniteSet(1..w)
    BY <2>3, FS_Interval
  <2>5. IsFiniteSet({i})
    BY FS_Singleton
  <2>6. IsFiniteSet({i} \X (1..w))
    BY <2>4, <2>5, FS_Product
  <2> QED
    BY <2>6 DEF w
<1>6. \A T \in all : IsFiniteSet(T)
  BY <1>5
<1> HIDE DEF columns
<1>7. IsFiniteSet(UNION all)
  BY <1>4, <1>6, FS_UNION
<1> QED
  BY <1>7, FS_CardinalityType DEF LeadingWhitespaceLength, columns

\* The token that closes a scope.
LEMMA CloseTokenType ==
  ASSUME doc \in Documents, NEW n \in DOMAIN doc.nodes, Tail1(n) # <<>>
  PROVE  CloseToken(n) \in DOMAIN doc.toks
BY NodeTypes, EmptySeq DEF CloseToken

\* A sequence with an element is not empty.
LEMMA NonEmpty ==
  ASSUME NEW s, Len(s) \in {1, 2}
  PROVE  s # <<>>
<1>1. Len(<<>>) = 0
  OBVIOUS
<1> QED
  BY <1>1

\* The nodes with a body, or something in its place.
LEMMA HasBody ==
  ASSUME doc \in Documents, NEW n \in DOMAIN doc.nodes,
         Kind(n) \in {"ConditionalStatement", "IfGenerate", "LoopStatement",
                      "ForLoopStatement", "ForeverStatement", "DoWhileStatement",
                      "TimingControlStatement", "LoopGenerate",
                      "ConstraintDeclaration"}
                     \cup ProcedureKinds \cup CaseItemKinds
  PROVE  Kids(n) # <<>>
<1>1. Len(Kids(n)) \in {1, 2}
  BY NodeTypes DEF IsWellShaped, Kind, Kids
<1> QED
  BY <1>1, NonEmpty

\* The nodes whose tokens end in one that closes them.
LEMMA HasClose ==
  ASSUME doc \in Documents, NEW n \in DOMAIN doc.nodes,
         Kind(n) \in {"BlockStatement", "ModuleDeclaration", "ConstraintBlock",
                      "HierarchyInstantiation", "Production", "RsCase", "RsCaseItem"}
                     \cup ScopeKinds \cup PortListKinds \cup DeclaratorKinds
                     \cup ItemListKinds \cup BraceListKinds
  PROVE  Tail1(n) # <<>>
BY NodeTypes DEF IsWellShaped, Kind, Tail1

-----------------------------------------------------------------------------
(* Where sequences of calls lead. *)

\* By how much a call moves the depth, and how high it goes.
LEMMA CallLevels ==
  ASSUME NEW d, NEW c \in Calls
  PROVE  Rise(d, c) \in {-1, 0, 1} /\ Height(d, c) \in Int
<1>1. c \in Call
  BY DEF Calls
<1>2. c.x \in Nat
  BY <1>1, Zenon DEF Call
<1> QED
  BY <1>2 DEF Rise, Height

\* No call of the document stays below the level it is called at.
LEMMA CallHeight ==
  ASSUME doc \in Documents, NEW c \in Calls
  PROVE  Height(doc, c) \in Nat
<1>1. Height(doc, c) \in Int
  BY CallLevels
<1>2. CASE c.op = "indent" \/ c.op \notin DescendOps
  BY <1>2 DEF Height
<1>3. CASE c.op # "indent" /\ c.op \in DescendOps
  <2>1. c.x \in DOMAIN doc.nodes
    BY <1>3 DEF Calls, DescendOps
  <2>2. c.x \in 1..Len(doc.nodes)
    BY <2>1, DocumentTypes
  <2> QED
    BY <1>1, <1>3, <2>2 DEF Height
<1> QED
  BY <1>2, <1>3

\* One call.
LEMMA LeadsOnce ==
  ASSUME NEW d, NEW c \in Calls, NEW m \in Nat, NEW top,
         m + Height(d, c) <= top, m + Rise(d, c) \in Nat
  PROVE  Leads(d, <<c>>, m, m + Rise(d, c), top)
<1> DEFINE n == m + Rise(d, c)
           levels == [k \in 1..2 |-> IF k = 1 THEN m ELSE n]
<1>1. Len(<<c>>) = 1 /\ <<c>>[1] = c
  OBVIOUS
<1>2. levels \in [1..2 -> Nat] /\ levels[1] = m /\ levels[2] = n
  OBVIOUS
<1> HIDE DEF levels, n
<1>3. LeadsBy(d, <<c>>, levels, m, n, top)
  <2>1. n = m + Rise(d, c)
    BY DEF n
  <2> QED
    BY <1>1, <1>2, <2>1 DEF LeadsBy
<1>4. \E f \in [1..(Len(<<c>>) + 1) -> Nat] : LeadsBy(d, <<c>>, f, m, n, top)
  BY <1>1, <1>2, <1>3
<1> QED
  BY <1>4 DEF Leads, n

\* Calls that do not move the depth.
LEMMA LeadsFlat ==
  ASSUME NEW n \in Nat, NEW calls \in Seq(Sideways(n))
  PROVE  Leads(doc, calls, 0, 0, n)
<1> DEFINE levels == [k \in 1..(Len(calls) + 1) |-> 0]
<1>1. levels \in [1..(Len(calls) + 1) -> Nat]
  OBVIOUS
<1>2. Len(calls) \in Nat /\ \A k \in 1..Len(calls) : calls[k] \in Sideways(n)
  BY ElementOfSeq
<1>3. \A k \in 1..Len(calls) :
        /\ Rise(doc, calls[k]) = 0 /\ Height(doc, calls[k]) <= n
        /\ Height(doc, calls[k]) \in Int
  BY <1>2, CallLevels DEF Sideways
<1>4. /\ levels[1] = 0 /\ levels[Len(calls) + 1] = 0
      /\ \A k \in 1..Len(calls) : levels[k] = 0 /\ levels[k + 1] = 0
  BY <1>2
<1> HIDE DEF levels
<1>5. LeadsBy(doc, calls, levels, 0, 0, n)
  BY <1>3, <1>4 DEF LeadsBy
<1> QED
  BY <1>1, <1>5 DEF Leads

\* Calls and then others.
LEMMA LeadsOn ==
  ASSUME NEW d, NEW a \in Seq(Calls), NEW b \in Seq(Calls), NEW m, NEW n, NEW o, NEW top,
         Leads(d, a, m, n, top), Leads(d, b, n, o, top)
  PROVE  Leads(d, a \o b, m, o, top)
<1>1. PICK f \in [1..(Len(a) + 1) -> Nat] : LeadsBy(d, a, f, m, n, top)
  BY Zenon DEF Leads
<1>2. PICK g \in [1..(Len(b) + 1) -> Nat] : LeadsBy(d, b, g, n, o, top)
  BY Zenon DEF Leads
<1> DEFINE both == [k \in 1..(Len(a) + Len(b) + 1) |->
                      IF k <= Len(a) THEN f[k] ELSE g[k - Len(a)]]
<1>3. /\ Len(a) \in Nat /\ Len(b) \in Nat /\ Len(a \o b) = Len(a) + Len(b)
      /\ \A k \in 1..Len(a) : (a \o b)[k] = a[k]
      /\ \A k \in 1..Len(b) : (a \o b)[Len(a) + k] = b[k]
  BY ConcatProperties
<1>4. /\ f[1] = m /\ f[Len(a) + 1] = n
      /\ \A k \in 1..Len(a) : /\ f[k] + Height(d, a[k]) <= top
                              /\ f[k + 1] = f[k] + Rise(d, a[k])
  BY <1>1 DEF LeadsBy
<1>5. /\ g[1] = n /\ g[Len(b) + 1] = o
      /\ \A k \in 1..Len(b) : /\ g[k] + Height(d, b[k]) <= top
                              /\ g[k + 1] = g[k] + Rise(d, b[k])
  BY <1>2 DEF LeadsBy
<1>6. both \in [1..(Len(a \o b) + 1) -> Nat]
  BY <1>3
<1>7. /\ \A k \in 1..(Len(a) + 1) : both[k] = f[k]
      /\ \A k \in 1..(Len(b) + 1) : both[Len(a) + k] = g[k]
  BY <1>3, <1>4, <1>5
<1> HIDE DEF both
<1>8. both[1] = m /\ both[Len(a \o b) + 1] = o
  BY <1>3, <1>4, <1>5, <1>7
<1>9. ASSUME NEW k \in 1..Len(a \o b)
      PROVE  /\ both[k] + Height(d, (a \o b)[k]) <= top
             /\ both[k + 1] = both[k] + Rise(d, (a \o b)[k])
  <2>1. CASE k <= Len(a)
    <3>1. /\ k \in 1..Len(a) /\ k \in 1..(Len(a) + 1) /\ k + 1 \in 1..(Len(a) + 1)
      BY <1>3, <2>1
    <3> QED
      BY <1>3, <1>4, <1>7, <3>1
  <2>2. CASE k > Len(a)
    <3> DEFINE j == k - Len(a)
    <3>1. /\ j \in 1..Len(b) /\ j \in 1..(Len(b) + 1) /\ j + 1 \in 1..(Len(b) + 1)
          /\ k = Len(a) + j /\ k + 1 = Len(a) + (j + 1)
      BY <1>3, <2>2
    <3> HIDE DEF j
    <3>2. both[k] = g[j] /\ both[k + 1] = g[j + 1] /\ (a \o b)[k] = b[j]
      BY <1>3, <1>7, <3>1, Zenon
    <3> QED
      BY <1>5, <3>1, <3>2
  <2> QED
    BY <1>3, <2>1, <2>2
<1>10. LeadsBy(d, a \o b, both, m, o, top)
  BY <1>8, <1>9 DEF LeadsBy
<1> QED
  BY <1>6, <1>10 DEF Leads

\* The same calls from a higher level.
LEMMA LeadsAbove ==
  ASSUME NEW d, NEW a \in Seq(Calls), NEW m \in Nat, NEW n \in Nat, NEW top \in Int,
         Leads(d, a, m, n, top), NEW s \in Nat, NEW up \in Int, top + s <= up
  PROVE  Leads(d, a, m + s, n + s, up)
<1>1. PICK f \in [1..(Len(a) + 1) -> Nat] : LeadsBy(d, a, f, m, n, top)
  BY Zenon DEF Leads
<1> DEFINE g == [k \in 1..(Len(a) + 1) |-> f[k] + s]
<1>2. /\ f[1] = m /\ f[Len(a) + 1] = n
      /\ \A k \in 1..Len(a) : /\ f[k] + Height(d, a[k]) <= top
                              /\ f[k + 1] = f[k] + Rise(d, a[k])
  BY <1>1 DEF LeadsBy
<1>3. g \in [1..(Len(a) + 1) -> Nat]
  OBVIOUS
<1>4. Len(a) \in Nat /\ \A k \in 1..(Len(a) + 1) : g[k] = f[k] + s /\ f[k] \in Nat
  OBVIOUS
<1> HIDE DEF g
<1>5. g[1] = m + s /\ g[Len(a) + 1] = n + s
  <2>1. 1 \in 1..(Len(a) + 1) /\ Len(a) + 1 \in 1..(Len(a) + 1)
    BY <1>4
  <2> QED
    BY <1>2, <1>4, <2>1
<1>6. ASSUME NEW k \in 1..Len(a)
      PROVE  g[k] + Height(d, a[k]) <= up /\ g[k + 1] = g[k] + Rise(d, a[k])
  <2>1. a[k] \in Calls
    BY ElementOfSeq
  <2>2. Height(d, a[k]) \in Int /\ Rise(d, a[k]) \in Int
    BY <2>1, CallLevels
  <2>3. k \in 1..(Len(a) + 1) /\ k + 1 \in 1..(Len(a) + 1)
    BY <1>4
  <2>4. /\ g[k] = f[k] + s /\ g[k + 1] = f[k + 1] + s
        /\ f[k] \in Nat /\ f[k + 1] \in Nat
        /\ f[k] + Height(d, a[k]) <= top /\ f[k + 1] = f[k] + Rise(d, a[k])
    BY <1>2, <1>4, <2>3
  <2> QED
    BY <2>2, <2>4
<1>7. LeadsBy(d, a, g, m + s, n + s, up)
  BY <1>5, <1>6 DEF LeadsBy
<1> QED
  BY <1>3, <1>7 DEF Leads

\* The first call, and those behind it.
LEMMA LeadsFirst ==
  ASSUME NEW d, NEW a \in Seq(Calls), a # <<>>, NEW m, NEW n, NEW top,
         Leads(d, a, m, n, top)
  PROVE  /\ m \in Nat /\ m + Height(d, Head(a)) <= top
         /\ m + Rise(d, Head(a)) \in Nat
         /\ Leads(d, Tail(a), m + Rise(d, Head(a)), n, top)
<1>1. PICK f \in [1..(Len(a) + 1) -> Nat] : LeadsBy(d, a, f, m, n, top)
  BY Zenon DEF Leads
<1>2. /\ f[1] = m /\ f[Len(a) + 1] = n
      /\ \A k \in 1..Len(a) : /\ f[k] + Height(d, a[k]) <= top
                              /\ f[k + 1] = f[k] + Rise(d, a[k])
  BY <1>1 DEF LeadsBy
<1>3. /\ Len(a) \in Nat /\ Len(a) >= 1 /\ Head(a) = a[1]
      /\ Len(Tail(a)) = Len(a) - 1
      /\ \A k \in 1..(Len(a) - 1) : Tail(a)[k] = a[k + 1]
  BY EmptySeq
<1>4. f[1] \in Nat /\ f[1 + 1] \in Nat /\ 1 \in 1..Len(a)
  BY <1>3
<1>5. m \in Nat /\ m + Height(d, Head(a)) <= top /\ f[1 + 1] = m + Rise(d, Head(a))
  BY <1>2, <1>3, <1>4
<1> DEFINE o == m + Rise(d, Head(a))
           g == [k \in 1..Len(a) |-> f[k + 1]]
<1>6. g \in [1..(Len(Tail(a)) + 1) -> Nat]
  BY <1>3
<1>7. /\ g[1] = o /\ g[Len(Tail(a)) + 1] = n
      /\ \A k \in 1..Len(Tail(a)) : /\ g[k] + Height(d, Tail(a)[k]) <= top
                                    /\ g[k + 1] = g[k] + Rise(d, Tail(a)[k])
  <2>1. \A k \in 1..Len(a) : g[k] = f[k + 1]
    OBVIOUS
  <2>2. g[1] = o /\ g[Len(Tail(a)) + 1] = n
    BY <1>2, <1>3, <1>4, <1>5, <2>1
  <2> HIDE DEF g, o
  <2>3. ASSUME NEW k \in 1..Len(Tail(a))
        PROVE  /\ g[k] + Height(d, Tail(a)[k]) <= top
               /\ g[k + 1] = g[k] + Rise(d, Tail(a)[k])
    <3>1. /\ k \in 1..(Len(a) - 1) /\ k \in 1..Len(a) /\ k + 1 \in 1..Len(a)
      BY <1>3
    <3>2. g[k] = f[k + 1] /\ g[k + 1] = f[(k + 1) + 1] /\ Tail(a)[k] = a[k + 1]
      BY <1>3, <2>1, <3>1
    <3> QED
      BY <1>2, <3>1, <3>2
  <2> QED
    BY <2>2, <2>3
<1> HIDE DEF g, o
<1>8. LeadsBy(d, Tail(a), g, o, n, top)
  BY <1>7 DEF LeadsBy
<1>9. Leads(d, Tail(a), o, n, top)
  BY <1>6, <1>8 DEF Leads
<1> QED
  BY <1>4, <1>5, <1>9 DEF o

\* The rows of calls for trivia stay together where calls are put together.
LEMMA RowsConcat ==
  ASSUME NEW a \in Seq(Calls), NEW b \in Seq(Calls), RowsEnd(a), RowsEnd(b)
  PROVE  RowsEnd(a \o b)
<1> DEFINE m == Len(a)
           c == a \o b
<1>1. /\ m \in Nat /\ Len(b) \in Nat /\ Len(c) = m + Len(b)
      /\ \A i \in 1..(m + Len(b)) : c[i] = IF i <= m THEN a[i] ELSE b[i - m]
  BY ConcatProperties
<1> HIDE DEF c
<1>2. ASSUME NEW k \in 1..Len(c), EmitsA("LineComment", c[k])
      PROVE  k < Len(c) /\ EmitsA("EndOfLine", c[k + 1])
  <2>1. CASE k <= m
    <3>1. k \in 1..m /\ c[k] = a[k]
      BY <1>1, <2>1
    <3>2. k < m /\ EmitsA("EndOfLine", a[k + 1])
      BY <1>2, <3>1 DEF RowsEnd
    <3>3. k < Len(c) /\ c[k + 1] = a[k + 1]
      BY <1>1, <3>1, <3>2
    <3> QED
      BY <3>2, <3>3
  <2>2. CASE ~(k <= m)
    <3>1. k - m \in 1..Len(b) /\ c[k] = b[k - m]
      BY <1>1, <2>2
    <3>2. k - m < Len(b) /\ EmitsA("EndOfLine", b[(k - m) + 1])
      BY <1>2, <3>1 DEF RowsEnd
    <3>3. k < Len(c) /\ c[k + 1] = b[(k - m) + 1]
      <4>1. k + 1 \in 1..(m + Len(b)) /\ ~(k + 1 <= m) /\ (k + 1) - m = (k - m) + 1
        BY <1>1, <2>2, <3>1, <3>2
      <4> QED
        BY <1>1, <4>1
    <3> QED
      BY <3>2, <3>3
  <2> QED
    BY <2>1, <2>2
<1> QED
  BY <1>2 DEF RowsEnd, c

\* Calls for anything but trivia have no rows.
LEMMA NoRows ==
  ASSUME NEW calls, \A k \in 1..Len(calls) : calls[k].op # "emitTrivia"
  PROVE  RowsEnd(calls)
BY DEF RowsEnd, EmitsA

LEMMA NoRow ==
  ASSUME NEW c, c.op # "emitTrivia"
  PROVE  RowsEnd(<<c>>)
BY NoRows

\* What remains of a row, and what is in front of it.
LEMMA RowsTail ==
  ASSUME NEW calls \in Seq(Calls), calls # <<>>, RowsEnd(calls)
  PROVE  /\ RowsEnd(Tail(calls))
         /\ EmitsA("LineComment", Head(calls))
              => Tail(calls) # <<>> /\ EmitsA("EndOfLine", Head(Tail(calls)))
<1> DEFINE t == Tail(calls)
<1>1. /\ Len(calls) \in Nat /\ Len(calls) >= 1 /\ Head(calls) = calls[1]
      /\ t \in Seq(Calls) /\ Len(t) = Len(calls) - 1
      /\ \A i \in 1..Len(t) : t[i] = calls[i + 1]
  <2>1. Len(calls) \in Nat /\ Len(calls) >= 1 /\ Head(calls) = calls[1]
    BY EmptySeq
  <2> QED
    BY <2>1, HeadTailProperties
<1> HIDE DEF t
<1>2. ASSUME NEW k \in 1..Len(t), EmitsA("LineComment", t[k])
      PROVE  k < Len(t) /\ EmitsA("EndOfLine", t[k + 1])
  <2>1. k + 1 \in 1..Len(calls) /\ t[k] = calls[k + 1]
    BY <1>1
  <2>2. k + 1 < Len(calls) /\ EmitsA("EndOfLine", calls[(k + 1) + 1])
    BY <1>2, <2>1 DEF RowsEnd
  <2>3. k < Len(t) /\ t[k + 1] = calls[(k + 1) + 1]
    BY <1>1, <2>2
  <2> QED
    BY <2>2, <2>3
<1>3. RowsEnd(t)
  BY <1>2 DEF RowsEnd
<1>4. ASSUME EmitsA("LineComment", Head(calls))
      PROVE  t # <<>> /\ EmitsA("EndOfLine", Head(t))
  <2>1. 1 \in 1..Len(calls)
    BY <1>1
  <2>2. 1 < Len(calls) /\ EmitsA("EndOfLine", calls[1 + 1])
    BY <1>1, <1>4, <2>1 DEF RowsEnd
  <2>3. 1 \in 1..Len(t) /\ t # <<>> /\ Head(t) = t[1]
    BY <1>1, <2>2
  <2>4. t[1] = calls[1 + 1]
    BY <1>1, <2>3
  <2> QED
    BY <2>2, <2>3, <2>4
<1> QED
  BY <1>3, <1>4 DEF t

\* Calls that lead back, or one level down, put together.
LEMMA BalancedConcat ==
  ASSUME NEW n, NEW a \in Balanced(n), NEW b \in Balanced(n)
  PROVE  a \o b \in Balanced(n)
BY LeadsOn, ConcatProperties, RowsConcat DEF Balanced

LEMMA ClosingThen ==
  ASSUME NEW n, NEW a \in Closing(n), NEW b \in Balanced(n)
  PROVE  a \o b \in Closing(n)
BY LeadsOn, ConcatProperties, RowsConcat DEF Balanced, Closing

LEMMA ThenClosing ==
  ASSUME NEW n \in Nat, NEW a \in Balanced(n - 1), NEW b \in Closing(n)
  PROVE  a \o b \in Closing(n)
<1>1. Leads(doc, a, 1, 1, n)
  <2>1. a \in Seq(Calls) /\ Leads(doc, a, 0, 0, n - 1) /\ n - 1 \in Int /\ n \in Int
        /\ (n - 1) + 1 <= n
    BY DEF Balanced
  <2>2. Leads(doc, a, 0 + 1, 0 + 1, n)
    BY <2>1, LeadsAbove
  <2> QED
    BY <2>2
<1> QED
  BY <1>1, LeadsOn, ConcatProperties, RowsConcat DEF Balanced, Closing

\* One level up and back.
LEMMA IndentClosing ==
  ASSUME doc \in Documents, NEW n \in Nat, n >= 1, NEW a \in Closing(n),
         Do("indent", 0) \in Calls
  PROVE  <<Do("indent", 0)>> \o a \in Balanced(n)
<1> DEFINE c == Do("indent", 0)
<1>1. Rise(doc, c) = 1 /\ Height(doc, c) = 1
  BY DEF Rise, Height, Do
<1> HIDE DEF c
<1>2. Leads(doc, <<c>>, 0, 0 + Rise(doc, c), n)
  BY <1>1, LeadsOnce DEF c
<1>3. Leads(doc, <<c>>, 0, 1, n)
  BY <1>1, <1>2
<1>4. <<c>> \in Seq(Calls)
  BY DEF c
<1> QED
  <2>1. RowsEnd(<<c>>)
    BY NoRow DEF c, Do
  <2> QED
    BY <1>3, <1>4, <2>1, LeadsOn, ConcatProperties, RowsConcat DEF Balanced, Closing, c

\* A call that closes the level.
LEMMA OneClosing ==
  ASSUME NEW n \in Nat, NEW c \in Calls, Rise(doc, c) = -1, 1 + Height(doc, c) <= n
  PROVE  <<c>> \in Closing(n)
<1>2. c.op # "emitTrivia"
  BY DEF Rise, Leaves, LeavingOps
<1>3. RowsEnd(<<c>>)
  BY <1>2, NoRow
<1>1. Leads(doc, <<c>>, 1, 1 + Rise(doc, c), n)
  BY LeadsOnce
<1> QED
  BY <1>1, <1>3 DEF Closing

\* Calls that do not move the depth.
LEMMA FlatBalanced ==
  ASSUME NEW n \in Nat, NEW calls \in Seq(Flat(n))
  PROVE  calls \in Balanced(n)
<1>1. Flat(n) \subseteq Sideways(n) /\ Sideways(n) \subseteq Calls
  BY DEF Flat, Sideways
<1>2. calls \in Seq(Calls) /\ calls \in Seq(Sideways(n))
  BY <1>1
<1>3. \A k \in 1..Len(calls) : calls[k].op # "emitTrivia"
  BY ElementOfSeq DEF Flat
<1> QED
  BY <1>2, <1>3, LeadsFlat, NoRows DEF Balanced

LEMMA OneFlat ==
  ASSUME NEW n \in Nat, NEW c \in Flat(n)
  PROVE  <<c>> \in Seq(Flat(n)) /\ <<c>> \in Balanced(n)
<1>1. <<c>> \in Seq(Flat(n))
  OBVIOUS
<1> QED
  BY <1>1, FlatBalanced

LEMMA TwoFlat ==
  ASSUME NEW n \in Nat, NEW a \in Flat(n), NEW b \in Flat(n)
  PROVE  <<a, b>> \in Balanced(n)
<1>1. <<a, b>> \in Seq(Flat(n))
  OBVIOUS
<1> QED
  BY <1>1, FlatBalanced

LEMMA NoneBalanced ==
  ASSUME NEW n \in Nat
  PROVE  <<>> \in Balanced(n)
<1>1. <<>> \in Seq(Flat(n))
  OBVIOUS
<1> QED
  BY <1>1, FlatBalanced

\* What stays low stays below a higher bound.
LEMMA BalancedBelow ==
  ASSUME NEW m \in Nat, NEW n \in Nat, m <= n, NEW calls \in Balanced(m)
  PROVE  calls \in Balanced(n)
<1>1. calls \in Seq(Calls) /\ RowsEnd(calls) /\ Leads(doc, calls, 0, 0, m)
  BY DEF Balanced
<1>2. 0 \in Nat /\ m \in Int /\ n \in Int /\ m + 0 <= n
  OBVIOUS
<1>3. Leads(doc, calls, 0 + 0, 0 + 0, n)
  BY <1>1, <1>2, LeadsAbove
<1>4. 0 + 0 = 0
  OBVIOUS
<1> QED
  BY <1>1, <1>3, <1>4 DEF Balanced

\* Two calls, one after the other.
LEMMA PairConcat ==
  ASSUME NEW a, NEW b
  PROVE  <<a>> \o <<b>> = <<a, b>>
<1> DEFINE S == {a, b}
           s == <<a>>
           t == <<b>>
           u == <<a, b>>
<1>1. /\ s \in Seq(S) /\ t \in Seq(S) /\ u \in Seq(S)
      /\ Len(s) = 1 /\ Len(t) = 1 /\ Len(u) = 2 /\ u[1] = s[1] /\ u[2] = t[1]
  OBVIOUS
<1> HIDE DEF s, t, u, S
<1>2. /\ s \o t \in Seq(S) /\ Len(s \o t) = Len(s) + Len(t)
      /\ \A i \in 1..(Len(s) + Len(t)) : (s \o t)[i] =
           IF i <= Len(s) THEN s[i] ELSE t[i - Len(s)]
  BY <1>1, ConcatProperties
<1>3. (s \o t)[1] = u[1] /\ (s \o t)[2] = u[2]
  BY <1>1, <1>2
<1>4. \A i \in 1..Len(s \o t) : (s \o t)[i] = u[i]
  BY <1>1, <1>2, <1>3
<1>5. s \o t = u
  BY <1>1, <1>2, <1>4, SeqEqual
<1> QED
  BY <1>5 DEF s, t, u

\* A call in front of two others, and one behind them.
LEMMA ConcatAround ==
  ASSUME NEW a, NEW b, NEW c, NEW d
  PROVE  <<a>> \o (<<b, c>> \o <<d>>) = <<a, b, c, d>>
<1> DEFINE S == {a, b, c, d}
           s == <<a>>
           t == <<b, c>>
           u == <<d>>
           v == <<a, b, c, d>>
<1>1. /\ s \in Seq(S) /\ t \in Seq(S) /\ u \in Seq(S) /\ v \in Seq(S)
      /\ Len(s) = 1 /\ Len(t) = 2 /\ Len(u) = 1 /\ Len(v) = 4
      /\ v[1] = s[1] /\ v[2] = t[1] /\ v[3] = t[2] /\ v[4] = u[1]
  OBVIOUS
<1> HIDE DEF s, t, u, v, S
<1>2. /\ t \o u \in Seq(S) /\ Len(t \o u) = Len(t) + Len(u)
      /\ \A i \in 1..(Len(t) + Len(u)) : (t \o u)[i] =
           IF i <= Len(t) THEN t[i] ELSE u[i - Len(t)]
  BY <1>1, ConcatProperties
<1> DEFINE w == t \o u
<1>3. w \in Seq(S) /\ Len(w) = 3 /\ w[1] = t[1] /\ w[2] = t[2] /\ w[3] = u[1]
  BY <1>1, <1>2
<1> HIDE DEF w
<1>4. /\ s \o w \in Seq(S) /\ Len(s \o w) = Len(s) + Len(w)
      /\ \A i \in 1..(Len(s) + Len(w)) : (s \o w)[i] =
           IF i <= Len(s) THEN s[i] ELSE w[i - Len(s)]
  BY <1>1, <1>3, ConcatProperties
<1>5. \A i \in 1..Len(s \o w) : (s \o w)[i] = v[i]
  <2>1. /\ (s \o w)[1] = v[1] /\ (s \o w)[2] = v[2]
        /\ (s \o w)[3] = v[3] /\ (s \o w)[4] = v[4]
    BY <1>1, <1>3, <1>4
  <2> QED
    BY <1>1, <1>3, <1>4, <2>1
<1>6. s \o w = v
  BY <1>1, <1>4, <1>3, <1>5, SeqEqual
<1> QED
  BY <1>6 DEF s, t, u, v, w

\* A call in front of another, and three behind them.
LEMMA ConcatBehind ==
  ASSUME NEW a, NEW b, NEW c, NEW d, NEW e
  PROVE  <<a>> \o (<<b>> \o <<c, d, e>>) = <<a, b, c, d, e>>
<1> DEFINE S == {a, b, c, d, e}
           s == <<a>>
           t == <<b>>
           u == <<c, d, e>>
           v == <<a, b, c, d, e>>
<1>1. /\ s \in Seq(S) /\ t \in Seq(S) /\ u \in Seq(S) /\ v \in Seq(S)
      /\ Len(s) = 1 /\ Len(t) = 1 /\ Len(u) = 3 /\ Len(v) = 5
      /\ v[1] = s[1] /\ v[2] = t[1] /\ v[3] = u[1] /\ v[4] = u[2] /\ v[5] = u[3]
  OBVIOUS
<1> HIDE DEF s, t, u, v, S
<1>2. /\ t \o u \in Seq(S) /\ Len(t \o u) = Len(t) + Len(u)
      /\ \A i \in 1..(Len(t) + Len(u)) : (t \o u)[i] =
           IF i <= Len(t) THEN t[i] ELSE u[i - Len(t)]
  BY <1>1, ConcatProperties
<1> DEFINE w == t \o u
<1>3. w \in Seq(S) /\ Len(w) = 4 /\ w[1] = t[1] /\ w[2] = u[1] /\ w[3] = u[2] /\ w[4] = u[3]
  BY <1>1, <1>2
<1> HIDE DEF w
<1>4. /\ s \o w \in Seq(S) /\ Len(s \o w) = Len(s) + Len(w)
      /\ \A i \in 1..(Len(s) + Len(w)) : (s \o w)[i] =
           IF i <= Len(s) THEN s[i] ELSE w[i - Len(s)]
  BY <1>1, <1>3, ConcatProperties
<1>5. \A i \in 1..Len(s \o w) : (s \o w)[i] = v[i]
  <2>1. /\ (s \o w)[1] = v[1] /\ (s \o w)[2] = v[2]
        /\ (s \o w)[3] = v[3] /\ (s \o w)[4] = v[4] /\ (s \o w)[5] = v[5]
    BY <1>1, <1>3, <1>4
  <2> QED
    BY <1>1, <1>3, <1>4, <2>1
<1>6. s \o w = v
  BY <1>1, <1>4, <1>3, <1>5, SeqEqual
<1> QED
  BY <1>6 DEF s, t, u, v, w

-----------------------------------------------------------------------------
(* The calls that are made. *)

\* A call that neither moves the depth nor visits a node.
LEMMA FlatCall ==
  ASSUME NEW c \in Calls, c.op \notin DescendOps \cup {"indent", "dedent"},
         NEW m \in Nat
  PROVE  c \in Sideways(m) /\ (c.op # "emitTrivia" => c \in Flat(m))
<1>1. LeavingOps \subseteq DescendOps /\ "member" \in DescendOps
  BY DEF LeavingOps, DescendOps, NodeOps, ListOps
<1>2. ~Leaves(doc, c)
  BY <1>1 DEF Leaves
<1> QED
  BY <1>2 DEF Flat, Sideways, Rise, Height

\* A call about a token of the document.
LEMMA TokenCall ==
  ASSUME doc \in Documents, NEW op \in TokenOps \ {"emitTrivia"},
         NEW x \in DOMAIN doc.toks, NEW m \in Nat
  PROVE  Do(op, x) \in Flat(m)
<1>1. x \in Nat
  BY TokenTypes
<1>2. op \in Ops /\ op \notin NodeOps /\ op \notin ClosingOps /\ op # "member"
      /\ op # "emitTrivia"
      /\ op \notin KindOps /\ op \notin DescendOps \cup {"indent", "dedent"}
  BY DEF TokenOps, Ops, NodeOps, ClosingOps, ListOps, KindOps, DescendOps
<1>3. Do(op, x) \in Call
  BY <1>1, <1>2 DEF Do, Call
<1>4. Do(op, x).op = op /\ Do(op, x).x = x
  BY DEF Do
<1>5. Do(op, x) \in Calls
  BY <1>2, <1>3, <1>4 DEF Calls
<1> QED
  BY <1>2, <1>4, <1>5, FlatCall

\* A call about a node of the document that does not close it.
LEMMA NodeCall ==
  ASSUME doc \in Documents, NEW op \in {"visit", "breakConditionalBody"},
         NEW x \in DOMAIN doc.nodes
  PROVE  Do(op, x) \in Calls
<1>1. x \in Nat
  BY NodeTypes
<1>2. op \in Ops /\ op \notin TokenOps /\ op \notin ClosingOps
      /\ op # "member" /\ op # "emitTrivia" /\ op \notin KindOps
  BY DEF TokenOps, Ops, ClosingOps, ListOps, KindOps
<1>3. Do(op, x) \in Call
  BY <1>1, <1>2 DEF Do, Call
<1>4. Do(op, x).op = op /\ Do(op, x).x = x
  BY DEF Do
<1> QED
  BY <1>2, <1>3, <1>4 DEF Calls

\* A node is visited: one that comes no later than m.
LEMMA VisitCall ==
  ASSUME doc \in Documents, NEW x \in DOMAIN doc.nodes, NEW m \in Nat, x <= m
  PROVE  Do("visit", x) \in Flat(m)
<1>1. Do("visit", x) \in Calls
  BY NodeCall
<1>2. /\ Do("visit", x).op = "visit" /\ Do("visit", x).x = x
  BY DEF Do
<1>3. "visit" \in DescendOps /\ "visit" \notin LeavingOps
  BY DEF DescendOps, NodeOps, LeavingOps
<1>4. ~Leaves(doc, Do("visit", x))
  BY <1>2, <1>3 DEF Leaves
<1> QED
  BY <1>1, <1>2, <1>4 DEF Flat, Sideways, Rise, Height

\* The line is broken in front of a body.
LEMMA BreakBodyCall ==
  ASSUME doc \in Documents, NEW x \in DOMAIN doc.nodes, NEW m \in Nat
  PROVE  Do("breakConditionalBody", x) \in Flat(m)
<1>1. Do("breakConditionalBody", x) \in Calls
  BY NodeCall
<1>2. Do("breakConditionalBody", x).op = "breakConditionalBody"
  BY DEF Do
<1>3. "breakConditionalBody" \notin DescendOps \cup {"indent", "dedent", "emitTrivia"}
  BY DEF DescendOps
<1> QED
  BY <1>1, <1>2, <1>3, FlatCall

\* The loop op may run over node n.
MayLoop(op, n) ==
  \/ op \in ClosingOps /\ Tail1(n) # <<>>
  \/ op = "member" /\ (Kind(n) = "CompilationUnit" \/ Tail1(n) # <<>>)

\* A call about a node of the document that may close it.
LEMMA LoopCall ==
  ASSUME doc \in Documents, NEW op, NEW x \in DOMAIN doc.nodes, NEW i \in Nat,
         MayLoop(op, x)
  PROVE  DoNth(op, x, i) \in Calls
<1>1. x \in Nat
  BY NodeTypes
<1>2. op \in Ops /\ op \notin TokenOps /\ op # "emitTrivia" /\ op \notin KindOps
  BY DEF TokenOps, Ops, ClosingOps, ListOps, KindOps, MayLoop
<1>3. DoNth(op, x, i) \in Call
  BY <1>1, <1>2 DEF DoNth, Call
<1>4. DoNth(op, x, i).op = op /\ DoNth(op, x, i).x = x
  BY DEF DoNth
<1>5. "member" \notin ClosingOps
  BY DEF ClosingOps, ListOps
<1> QED
  BY <1>2, <1>3, <1>4, <1>5 DEF Calls, Tail1, Kind, MayLoop

\* A call without an argument.
LEMMA PlainCall ==
  ASSUME NEW op \in PlainOps, NEW m \in Nat
  PROVE  Do(op, 0) \in Flat(m)
<1>1. op \in Ops /\ op \notin TokenOps /\ op \notin NodeOps /\ op \notin ClosingOps
      /\ op # "member" /\ op # "emitTrivia" /\ op \notin KindOps
      /\ op \notin DescendOps \cup {"indent", "dedent"}
  BY DEF PlainOps, TokenOps, Ops, NodeOps, ClosingOps, ListOps, KindOps, DescendOps
<1>2. Do(op, 0) \in Call /\ Do(op, 0).op = op
  BY <1>1 DEF Do, Call
<1>3. Do(op, 0) \in Calls
  BY <1>1, <1>2 DEF Calls
<1> QED
  BY <1>1, <1>2, <1>3, FlatCall

\* One level up, and one down.
LEMMA DepthCalls ==
  /\ Do("indent", 0) \in Calls /\ Do("dedent", 0) \in Calls
  /\ \A n \in Nat \ {0} : <<Do("dedent", 0)>> \in Closing(n)
<1>1. ASSUME NEW op \in {"indent", "dedent"}
      PROVE  Do(op, 0) \in Calls
  <2>1. op \in Ops /\ op \notin TokenOps /\ op \notin NodeOps /\ op \notin ClosingOps
        /\ op # "member" /\ op # "emitTrivia" /\ op \notin KindOps
    BY DEF TokenOps, Ops, NodeOps, ClosingOps, ListOps, KindOps
  <2>2. Do(op, 0) \in Call /\ Do(op, 0).op = op
    BY <2>1 DEF Do, Call
  <2> QED
    BY <2>1, <2>2 DEF Calls
<1> DEFINE c == Do("dedent", 0)
<1>2. c.op = "dedent" /\ "dedent" \notin DescendOps
  BY DEF Do, DescendOps, NodeOps, ListOps, KindOps
<1>3. Rise(doc, c) = -1 /\ Height(doc, c) = 0
  BY <1>2 DEF Rise, Height
<1>4. c \in Calls
  BY <1>1
<1> HIDE DEF c
<1>5. \A n \in Nat \ {0} : <<c>> \in Closing(n)
  BY <1>3, <1>4, OneClosing
<1> QED
  BY <1>1, <1>5 DEF c

\* The loops over the items of a list that stay on their level.
StayingOps ==
  {"plainPort", "instances", "instance", "declarator", "listedItem", "inlineItem"}

LEMMA StayingCall ==
  ASSUME doc \in Documents, NEW op \in StayingOps, NEW n \in DOMAIN doc.nodes,
         Tail1(n) # <<>>, NEW i \in Nat
  PROVE  DoNth(op, n, i) \in Flat(n) /\ Do(op, n) \in Flat(n)
<1>1. MayLoop(op, n) /\ 0 \in Nat /\ n \in Nat
  BY NodeTypes DEF MayLoop, ClosingOps, ListOps, StayingOps
<1>2. op \notin LeavingOps /\ op # "member" /\ op # "indent" /\ op # "dedent"
      /\ op # "emitTrivia"
  BY DEF StayingOps, LeavingOps
<1>3. ASSUME NEW j \in Nat
      PROVE  DoNth(op, n, j) \in Flat(n)
  <2>1. DoNth(op, n, j) \in Calls
    BY <1>1, LoopCall
  <2>2. DoNth(op, n, j).op = op /\ DoNth(op, n, j).x = n
    BY DEF DoNth
  <2>3. ~Leaves(doc, DoNth(op, n, j))
    BY <1>2, <2>2 DEF Leaves
  <2> QED
    BY <1>1, <1>2, <2>1, <2>2, <2>3 DEF Flat, Sideways, Rise, Height
<1>4. Do(op, n) = DoNth(op, n, 0)
  BY DEF Do, DoNth
<1> QED
  BY <1>1, <1>3, <1>4

\* The loops one level deeper, at the end of which this level is left.
LEMMA LeavingCall ==
  ASSUME doc \in Documents, NEW op, NEW n \in DOMAIN doc.nodes, Tail1(n) # <<>>,
         \/ op \in LeavingOps
         \/ op = "member" /\ Kind(n) # "CompilationUnit",
         NEW i \in Nat
  PROVE  <<DoNth(op, n, i)>> \in Closing(n) /\ <<Do(op, n)>> \in Closing(n)
<1>1. MayLoop(op, n) /\ 0 \in Nat /\ n \in Nat
  BY NodeTypes DEF MayLoop, ClosingOps, ListOps, LeavingOps
<1>2. op # "indent" /\ op \in DescendOps
  BY DEF LeavingOps, DescendOps, NodeOps, ListOps
<1>3. ASSUME NEW j \in Nat
      PROVE  <<DoNth(op, n, j)>> \in Closing(n)
  <2> DEFINE c == DoNth(op, n, j)
  <2>1. c \in Calls
    BY <1>1, LoopCall
  <2>2. c.op = op /\ c.x = n
    BY DEF DoNth
  <2> HIDE DEF c
  <2>3. Leaves(doc, c)
    BY <2>2 DEF Leaves, Kind
  <2>4. Rise(doc, c) = -1 /\ Height(doc, c) = n - 1
    BY <1>2, <2>2, <2>3 DEF Rise, Height
  <2>5. 1 + Height(doc, c) <= n
    BY <1>1, <2>4
  <2> QED
    BY <1>1, <2>1, <2>4, <2>5, OneClosing DEF c
<1>4. Do(op, n) = DoNth(op, n, 0)
  BY DEF Do, DoNth
<1> QED
  BY <1>1, <1>3, <1>4

\* The loop over the members of a compilation unit, which closes nothing.
LEMMA UnitCall ==
  ASSUME doc \in Documents, NEW n \in DOMAIN doc.nodes, Kind(n) = "CompilationUnit",
         NEW i \in Nat
  PROVE  DoNth("member", n, i) \in Flat(n)
<1>1. MayLoop("member", n) /\ n \in Nat
  BY NodeTypes DEF MayLoop
<1> DEFINE c == DoNth("member", n, i)
<1>2. c \in Calls
  BY <1>1, LoopCall
<1>3. c.op = "member" /\ c.x = n
  BY DEF DoNth
<1> HIDE DEF c
<1>4. ~Leaves(doc, c)
  BY <1>3 DEF Leaves, LeavingOps, Kind
<1> QED
  BY <1>1, <1>2, <1>3, <1>4 DEF Flat, Sideways, Rise, Height, c

\* A call about a node of a certain kind.
LEMMA KindCall ==
  ASSUME doc \in Documents, NEW op \in KindOps, NEW n \in DOMAIN doc.nodes,
         Kind(n) \in KindsFor(op), NEW m \in Nat, n <= m
  PROVE  Do(op, n) \in Flat(m)
<1>1. n \in Nat
  BY NodeTypes
<1>2. op \in Ops /\ op \notin TokenOps /\ op \notin ClosingOps
      /\ op # "member" /\ op # "emitTrivia" /\ op \notin LeavingOps
      /\ op # "indent" /\ op # "dedent"
  BY DEF Ops, TokenOps, ClosingOps, ListOps, KindOps, LeavingOps
<1>3. Do(op, n) \in Call
  BY <1>1, <1>2 DEF Do, Call
<1>4. Do(op, n).op = op /\ Do(op, n).x = n
  BY DEF Do
<1>5. Do(op, n) \in Calls
  BY <1>2, <1>3, <1>4 DEF Calls, Kind
<1>6. ~Leaves(doc, Do(op, n))
  BY <1>2, <1>4 DEF Leaves
<1> QED
  BY <1>1, <1>2, <1>4, <1>5, <1>6 DEF Flat, Sideways, Rise, Height

\* A trivia of a token.
LEMMA TriviaCall ==
  ASSUME doc \in Documents, NEW x \in DOMAIN doc.toks, NEW j \in DOMAIN Tok(x).trivia,
         NEW m \in Nat
  PROVE  DoNth("emitTrivia", x, j) \in Sideways(m)
<1> DEFINE c == DoNth("emitTrivia", x, j)
<1>1. Tok(x).trivia \in Seq(Trivia) /\ x \in Nat
  BY TokenTypes
<1>2. j \in Nat
  BY <1>1
<1>3. /\ "emitTrivia" \in Ops /\ "emitTrivia" \notin NodeOps
      /\ "emitTrivia" \notin ClosingOps /\ "emitTrivia" \notin KindOps
      /\ "emitTrivia" \notin DescendOps \cup {"indent", "dedent"}
  BY DEF Ops, NodeOps, ClosingOps, ListOps, KindOps, DescendOps
<1>4. c \in Call
  BY <1>1, <1>2, <1>3 DEF DoNth, Call
<1>5. c.op = "emitTrivia" /\ c.x = x /\ c.i = j
  BY DEF DoNth
<1>6. c.i \in DOMAIN doc.toks[c.x].trivia
  BY <1>5 DEF Tok
<1>7. c \in Calls
  BY <1>3, <1>4, <1>5, <1>6 DEF Calls
<1> QED
  BY <1>3, <1>5, <1>7, FlatCall

\* The trivia of a token from some position on, to the last or to one that is no
\* line comment.
LEMMA TriviaRowCalls ==
  ASSUME doc \in Documents, NEW x \in DOMAIN doc.toks, NEW from \in Nat, NEW n \in Nat,
         n > 0 => /\ from + n <= Len(Tok(x).trivia)
                  /\ \/ from + n = Len(Tok(x).trivia)
                     \/ Tok(x).trivia[from + n].kind # "LineComment",
         NEW m \in Nat
  PROVE  [j \in 1..n |-> DoNth("emitTrivia", x, from + j)] \in Balanced(m)
<1> DEFINE calls == [j \in 1..n |-> DoNth("emitTrivia", x, from + j)]
           ts == Tok(x).trivia
<1>1. ts \in Seq(Trivia) /\ Len(ts) \in Nat /\ DOMAIN ts = 1..Len(ts)
  BY TokenTypes
<1>2. \A j \in 1..n : from + j \in DOMAIN ts
  BY <1>1
<1>3. \A j \in 1..n : DoNth("emitTrivia", x, from + j) \in Sideways(m)
  BY <1>2, TriviaCall
<1>4. calls \in Seq(Sideways(m))
  BY <1>3
<1>5. Sideways(m) \subseteq Calls
  BY DEF Sideways
<1>6. calls \in Seq(Calls) /\ Len(calls) = n
  BY <1>4, <1>5
<1>7. \A j \in 1..n : \A kind : EmitsA(kind, calls[j]) <=> ts[from + j].kind = kind
  BY DEF EmitsA, DoNth
<1>8. WellFormedTrivia(ts)
  BY DocumentTypes DEF Tok
<1> HIDE DEF calls, ts
<1>9. ASSUME NEW k \in 1..n, EmitsA("LineComment", calls[k])
      PROVE  k < n /\ EmitsA("EndOfLine", calls[k + 1])
  <2>1. from + k \in DOMAIN ts /\ ts[from + k].kind = "LineComment"
    BY <1>2, <1>7, <1>9
  <2>2. (from + k) + 1 \in DOMAIN ts /\ ts[(from + k) + 1].kind = "EndOfLine"
    BY <1>8, <2>1 DEF WellFormedTrivia
  <2>3. k # n
    <3> SUFFICES ASSUME k = n PROVE FALSE
      OBVIOUS
    <3>1. (from + n) + 1 <= Len(ts) /\ ts[from + n].kind = "LineComment" /\ n > 0
      BY <1>1, <2>1, <2>2
    <3> QED
      BY <1>1, <3>1 DEF ts
  <2>4. k < n /\ k + 1 \in 1..n /\ from + (k + 1) = (from + k) + 1
    BY <2>3
  <2> QED
    BY <1>7, <2>2, <2>4
<1>10. RowsEnd(calls)
  BY <1>6, <1>9 DEF RowsEnd
<1> QED
  BY <1>4, <1>6, <1>10, LeadsFlat DEF Balanced, calls

\* All of them from some position on,
LEMMA TriviaCalls ==
  ASSUME doc \in Documents, NEW x \in DOMAIN doc.toks, NEW from \in Nat, NEW n \in Nat,
         n > 0 => from + n = Len(Tok(x).trivia), NEW m \in Nat
  PROVE  [j \in 1..n |-> DoNth("emitTrivia", x, from + j)] \in Balanced(m)
<1>1. Len(Tok(x).trivia) \in Nat
  BY TokenTypes
<1>2. n > 0 => /\ from + n <= Len(Tok(x).trivia)
               /\ \/ from + n = Len(Tok(x).trivia)
                  \/ Tok(x).trivia[from + n].kind # "LineComment"
  BY <1>1
<1> QED
  BY <1>2, TriviaRowCalls

\* and the first ones.
LEMMA EmitTriviaUpToCalls ==
  ASSUME doc \in Documents, NEW x \in DOMAIN doc.toks, NEW n \in Nat,
         n <= Len(Tok(x).trivia),
         n = 0 \/ n = Len(Tok(x).trivia) \/ Tok(x).trivia[n].kind # "LineComment",
         NEW m \in Nat
  PROVE  EmitTriviaUpTo(x, n) \in Balanced(m)
<1>1. 0 \in Nat /\ 0 + n = n /\ \A j \in 1..n : 0 + j = j
  OBVIOUS
<1>2. n > 0 => /\ 0 + n <= Len(Tok(x).trivia)
               /\ \/ 0 + n = Len(Tok(x).trivia)
                  \/ Tok(x).trivia[0 + n].kind # "LineComment"
  BY <1>1
<1>3. [j \in 1..n |-> DoNth("emitTrivia", x, 0 + j)] \in Balanced(m)
  BY <1>1, <1>2, TriviaRowCalls
<1>4. EmitTriviaUpTo(x, n) = [j \in 1..n |-> DoNth("emitTrivia", x, 0 + j)]
  BY <1>1 DEF EmitTriviaUpTo
<1> QED
  BY <1>3, <1>4

\* Tokens of the document, one after the other.
LEMMA EmitAllCalls ==
  ASSUME doc \in Documents, NEW toks \in Seq(DOMAIN doc.toks), NEW m \in Nat
  PROVE  EmitAll(toks) \in Balanced(m)
<1>1. ASSUME NEW k \in DOMAIN toks
      PROVE  Emit1(toks[k]) \in Flat(m)
  <2>1. toks[k] \in DOMAIN doc.toks
    BY ElementOfSeq
  <2> QED
    BY <2>1, TokenCall DEF Emit1, TokenOps
<1>2. EmitAll(toks) \in Seq(Flat(m))
  BY <1>1 DEF EmitAll
<1> QED
  BY <1>2, FlatBalanced

\* The name of a block behind its keyword.
LEMMA EmitNamedCalls ==
  ASSUME doc \in Documents, NEW toks \in Seq(DOMAIN doc.toks), NEW m \in Nat
  PROVE  EmitNamed(toks) \in Balanced(m)
<1>1. CASE Len(toks) = 3
  <2>1. 1 \in DOMAIN toks /\ 2 \in DOMAIN toks /\ 3 \in DOMAIN toks
    BY <1>1
  <2>2. /\ toks[1] \in DOMAIN doc.toks /\ toks[2] \in DOMAIN doc.toks
        /\ toks[3] \in DOMAIN doc.toks
    BY <2>1, ElementOfSeq
  <2> DEFINE named == <<Do("emitToken", toks[1]), Do("ensureSpace", 0),
                        Do("emitToken", toks[2]), Do("ensureSpace", 0),
                        Do("emitToken", toks[3])>>
  <2>3. /\ Do("emitToken", toks[1]) \in Flat(m) /\ Do("emitToken", toks[2]) \in Flat(m)
        /\ Do("emitToken", toks[3]) \in Flat(m)
    BY <2>2, TokenCall DEF TokenOps
  <2>4. Do("ensureSpace", 0) \in Flat(m)
    BY PlainCall DEF PlainOps
  <2>5. named \in Seq(Flat(m))
    BY <2>3, <2>4
  <2> HIDE DEF named
  <2>6. EmitNamed(toks) = named \/ EmitNamed(toks) = EmitAll(toks)
    BY DEF EmitNamed, named
  <2> QED
    BY <2>5, <2>6, EmitAllCalls, FlatBalanced
<1>2. CASE Len(toks) # 3
  BY <1>2, EmitAllCalls DEF EmitNamed
<1> QED
  BY <1>1, <1>2

\* The label of a statement.
LEMMA LabelCallsCalls ==
  ASSUME doc \in Documents, NEW n \in DOMAIN doc.nodes, NEW m \in Nat
  PROVE  LabelCalls(n) \in Balanced(m)
<1> DEFINE label == Label(n)
<1>1. label \in Seq(DOMAIN doc.toks) /\ Len(label) \in {0, 2}
  BY NodeTypes DEF IsWellShaped, Label
<1>2. CASE label = <<>>
  BY <1>2, NoneBalanced DEF LabelCalls
<1>3. CASE label # <<>>
  <2>1. Len(label) = 2
    BY <1>1, <1>3, EmptySeq
  <2> HIDE DEF label
  <2>2. label[1] \in DOMAIN doc.toks /\ label[2] \in DOMAIN doc.toks
    <3>1. 1 \in 1..Len(label) /\ 2 \in 1..Len(label)
      BY <2>1
    <3> QED
      BY <1>1, <3>1, ElementOfSeq
  <2>3. /\ Do("emitToken", label[1]) \in Flat(m) /\ Do("emitToken", label[2]) \in Flat(m)
        /\ Do("ensureSpace", 0) \in Flat(m)
    BY <2>2, TokenCall, PlainCall DEF TokenOps, PlainOps
  <2>4. LabelCalls(n) \in Seq(Flat(m))
    BY <1>3, <2>3 DEF LabelCalls, label
  <2> QED
    BY <2>4, FlatBalanced
<1> QED
  BY <1>2, <1>3

\* A call that may be made.
LEMMA WhenCalls ==
  ASSUME NEW m \in Nat, NEW cond, NEW c \in Flat(m)
  PROVE  When(cond, c) \in Balanced(m)
BY OneFlat, NoneBalanced DEF When

\* normalizeSpaceBefore
LEMMA SpaceBeforeCall ==
  ASSUME doc \in Documents, NEW want, NEW x \in DOMAIN doc.toks, NEW m \in Nat
  PROVE  SpaceBefore(want, x) \in Flat(m)
BY TokenCall DEF SpaceBefore, TokenOps

\* normalizeSpaceBefore that leaves the separator to later rules.
LEMMA SoftSpaceBeforeCall ==
  ASSUME doc \in Documents, NEW want, NEW x \in DOMAIN doc.toks, NEW m \in Nat
  PROVE  SoftSpaceBefore(want, x) \in Flat(m)
BY TokenCall DEF SoftSpaceBefore, TokenOps

\* visitBody: the body is one of the nodes before m.
LEMMA VisitBodyCalls ==
  ASSUME doc \in Documents, NEW n \in DOMAIN doc.nodes, NEW m \in Nat, n < m
  PROVE  VisitBody(n) \in Balanced(m)
<1> DEFINE visit == <<Do("primary", 0), Do("visit", n)>>
<1>1. n \in Nat /\ m - 1 \in Nat /\ n <= m - 1 /\ m \in Nat \ {0}
  BY NodeTypes
<1>2. ASSUME NEW k \in Nat, n <= k
      PROVE  visit \in Balanced(k)
  <2>1. Do("primary", 0) \in Flat(k) /\ Do("visit", n) \in Flat(k)
    BY <1>2, PlainCall, VisitCall DEF PlainOps
  <2>2. visit \in Seq(Flat(k))
    BY <2>1
  <2> QED
    BY <2>2, FlatBalanced
<1>3. visit \in Balanced(m) /\ visit \in Balanced(m - 1)
  BY <1>1, <1>2
<1>4. <<Do("indent", 0)>> \o (visit \o <<Do("dedent", 0)>>) =
        <<Do("indent", 0), Do("primary", 0), Do("visit", n), Do("dedent", 0)>>
  BY ConcatAround
<1> HIDE DEF visit
<1>5. visit \o <<Do("dedent", 0)>> \in Closing(m)
  BY <1>1, <1>3, DepthCalls, ThenClosing
<1>6. <<Do("indent", 0)>> \o (visit \o <<Do("dedent", 0)>>) \in Balanced(m)
  BY <1>1, <1>5, DepthCalls, IndentClosing
<1> QED
  BY <1>3, <1>4, <1>6 DEF VisitBody, visit

\* The k-th child of a node, and its visit.
LEMMA KidCalls ==
  ASSUME doc \in Documents, NEW n \in DOMAIN doc.nodes, NEW k \in DOMAIN Kids(n)
  PROVE  /\ Do("visit", Kids(n)[k]) \in Flat(n) /\ Do("visit", Kids(n)[k]) \in Flat(n - 1)
         /\ <<Do("visit", Kids(n)[k])>> \in Balanced(n)
         /\ <<Do("visit", Kids(n)[k])>> \in Balanced(n - 1)
         /\ VisitBody(Kids(n)[k]) \in Balanced(n)
<1>1. /\ Kids(n)[k] \in DOMAIN doc.nodes /\ Kids(n)[k] < n
      /\ Kids(n)[k] \in Nat /\ n \in Nat
  BY KidTypes
<1>2. n - 1 \in Nat /\ Kids(n)[k] <= n - 1 /\ Kids(n)[k] <= n
  BY <1>1
<1>3. Do("visit", Kids(n)[k]) \in Flat(n) /\ Do("visit", Kids(n)[k]) \in Flat(n - 1)
  BY <1>1, <1>2, VisitCall
<1> QED
  BY <1>1, <1>2, <1>3, OneFlat, VisitBodyCalls

\* All children of a node, or all but the last, are visited.
LEMMA VisitKids ==
  ASSUME doc \in Documents, NEW n \in DOMAIN doc.nodes
  PROVE  /\ [k \in DOMAIN Kids(n) |-> Do("visit", Kids(n)[k])] \in Balanced(n)
         /\ Kids(n) # <<>> =>
              [k \in DOMAIN Pop(Kids(n)) |-> Do("visit", Pop(Kids(n))[k])] \in Balanced(n)
<1>1. Kids(n) \in Seq(DOMAIN doc.nodes) /\ n \in Nat
  BY NodeTypes
<1>2. ASSUME NEW kids \in Seq(DOMAIN doc.nodes), Len(kids) <= Len(Kids(n)),
             \A k \in 1..Len(kids) : kids[k] = Kids(n)[k]
      PROVE  [k \in DOMAIN kids |-> Do("visit", kids[k])] \in Balanced(n)
  <2>1. \A k \in 1..Len(kids) : k \in DOMAIN Kids(n)
    BY <1>1, <1>2
  <2>2. \A k \in 1..Len(kids) : Do("visit", kids[k]) \in Flat(n)
    BY <1>2, <2>1, KidCalls
  <2>3. [k \in DOMAIN kids |-> Do("visit", kids[k])] \in Seq(Flat(n))
    BY <2>2
  <2> QED
    BY <1>1, <2>3, FlatBalanced
<1>3. [k \in DOMAIN Kids(n) |-> Do("visit", Kids(n)[k])] \in Balanced(n)
  BY <1>1, <1>2
<1>4. ASSUME Kids(n) # <<>>
      PROVE  [k \in DOMAIN Pop(Kids(n)) |-> Do("visit", Pop(Kids(n))[k])] \in Balanced(n)
  <2>1. /\ Pop(Kids(n)) \in Seq(DOMAIN doc.nodes)
        /\ Len(Pop(Kids(n))) = Len(Kids(n)) - 1
        /\ \A k \in 1..(Len(Kids(n)) - 1) : Pop(Kids(n))[k] = Kids(n)[k]
    BY <1>1, <1>4, PopProperties
  <2>2. Len(Pop(Kids(n))) <= Len(Kids(n))
    BY <1>1, <2>1
  <2> QED
    BY <1>2, <2>1, <2>2
<1> QED
  BY <1>3, <1>4

\* The k-th child of a node in a scope, visited before the next one.
LEMMA VisitKid ==
  ASSUME doc \in Documents, NEW n \in DOMAIN doc.nodes, Tail1(n) # <<>>,
         NEW op,
         \/ op \in LeavingOps
         \/ op = "member" /\ Kind(n) # "CompilationUnit",
         NEW i \in Nat, i \in DOMAIN Kids(n)
  PROVE  <<Do("visit", Kids(n)[i]), DoNth(op, n, i + 1)>> \in Closing(n)
<1>1. n \in Nat /\ i + 1 \in Nat
  BY NodeTypes
<1>2. <<Do("visit", Kids(n)[i])>> \in Balanced(n - 1)
  BY KidCalls
<1>3. <<DoNth(op, n, i + 1)>> \in Closing(n)
  BY <1>1, LeavingCall
<1>4. <<Do("visit", Kids(n)[i])>> \o <<DoNth(op, n, i + 1)>> \in Closing(n)
  BY <1>1, <1>2, <1>3, ThenClosing
<1> QED
  BY <1>4, PairConcat

\* The end of a scope.
LEMMA EndScope ==
  ASSUME doc \in Documents, NEW n \in DOMAIN doc.nodes, Tail1(n) # <<>>
  PROVE  <<Do("emitEndTokenTrivia", CloseToken(n)), Do("closeScope", n)>> \in Closing(n)
<1>1. n \in Nat /\ n - 1 \in Nat
  BY DocumentTypes
<1>2. Do("emitEndTokenTrivia", CloseToken(n)) \in Flat(n - 1)
  BY <1>1, CloseTokenType, TokenCall DEF TokenOps
<1>3. <<Do("emitEndTokenTrivia", CloseToken(n))>> \in Balanced(n - 1)
  BY <1>1, <1>2, OneFlat
<1>4. <<Do("closeScope", n)>> \in Closing(n)
  <2>1. "closeScope" \in LeavingOps /\ 0 \in Nat
    BY DEF LeavingOps
  <2> QED
    BY <2>1, LeavingCall
<1>5. <<Do("emitEndTokenTrivia", CloseToken(n))>> \o <<Do("closeScope", n)>> \in Closing(n)
  BY <1>1, <1>3, <1>4, ThenClosing
<1> QED
  BY <1>5, PairConcat

\* The body of a node in a scope: one level deeper, then the loop over it.
LEMMA OpenScope ==
  ASSUME doc \in Documents, NEW n \in DOMAIN doc.nodes, Tail1(n) # <<>>,
         NEW op,
         \/ op \in LeavingOps
         \/ op = "member" /\ Kind(n) # "CompilationUnit",
         NEW i \in Nat
  PROVE  /\ <<Do("indent", 0), DoNth(op, n, i)>> \in Balanced(n)
         /\ <<Do("indent", 0), Do(op, n)>> \in Balanced(n)
<1>1. n \in Nat /\ n >= 1
  BY DocumentTypes
<1>2. <<DoNth(op, n, i)>> \in Closing(n) /\ <<Do(op, n)>> \in Closing(n)
  BY LeavingCall
<1>3. /\ <<Do("indent", 0)>> \o <<DoNth(op, n, i)>> \in Balanced(n)
      /\ <<Do("indent", 0)>> \o <<Do(op, n)>> \in Balanced(n)
  BY <1>1, <1>2, DepthCalls, IndentClosing
<1> QED
  BY <1>3, PairConcat

\* The header of a module or a function, if it is a node of its own.
LEMMA VisitHeaderOfCalls ==
  ASSUME doc \in Documents, NEW n \in DOMAIN doc.nodes
  PROVE  VisitHeaderOf(n) \in Balanced(n) /\ FirstMember(n) \in Nat
<1>1. CASE HasHeader(n)
  <2>1. Kids(n) \in Seq(DOMAIN doc.nodes) /\ Kids(n) # <<>>
    BY <1>1, NodeTypes DEF HasHeader
  <2>2. 1 \in DOMAIN Kids(n)
    BY <2>1, EmptySeq
  <2>3. <<Do("visit", Kids(n)[1])>> \in Balanced(n)
    BY <2>2, KidCalls
  <2> QED
    BY <1>1, <2>3 DEF VisitHeaderOf, FirstMember
<1>2. CASE ~HasHeader(n)
  <2>1. <<>> \in Balanced(n)
    BY NodeTypes, NoneBalanced
  <2> QED
    BY <1>2, <2>1 DEF VisitHeaderOf, FirstMember
<1> QED
  BY <1>1, <1>2

\* The members of a scope.
LEMMA OpenMembersCalls ==
  ASSUME doc \in Documents, NEW n \in DOMAIN doc.nodes, Tail1(n) # <<>>,
         Kind(n) # "CompilationUnit"
  PROVE  OpenMembers(n) \in Balanced(n)
<1>1. FirstMember(n) \in Nat
  BY VisitHeaderOfCalls
<1> QED
  BY <1>1, OpenScope DEF OpenMembers

-----------------------------------------------------------------------------
(* The steps that every handler asks for. *)

\* What is known of the call that is made.
LEMMA CallTypes ==
  ASSUME IInv, work # <<>>
  PROVE  /\ doc \in Documents /\ Safe(pr)
         /\ Head(work) \in Calls /\ Tail(work) \in Seq(Calls)
         /\ Head(work).i \in Nat
         /\ Head(work).op \in TokenOps => Arg \in DOMAIN doc.toks
         /\ Head(work).op = "emitTrivia" => Head(work).i \in DOMAIN Tok(Arg).trivia
         /\ Head(work).op \in NodeOps => Arg \in DOMAIN doc.nodes
         /\ Head(work).op \in ClosingOps => Tail1(Arg) # <<>>
         /\ Head(work).op \in KindOps => Kind(Arg) \in KindsFor(Head(work).op)
         /\ Head(work).op = "member" =>
              Kind(Arg) = "CompilationUnit" \/ Tail1(Arg) # <<>>
<1>1. Head(work) \in Calls /\ Tail(work) \in Seq(Calls)
  BY HeadTailProperties DEF IInv
<1>2. Head(work) \in Call
  BY <1>1 DEF Calls
<1>3. Head(work).i \in Nat
  BY <1>2, Zenon DEF Call
<1> QED
  BY <1>1, <1>3, Zenon DEF IInv, Calls, Arg, Tok, Tail1, Kind

\* But for the call that is to end it, no line comment is left without its end.
LEMMA TidyNow ==
  ASSUME IInv, work # <<>>, Head(work).op # "emitTrivia"
  PROVE  Tidy(pr)
BY DEF IInv, LineComments, Ending, EmitsA

\* The invariant speaks of doc, pr and work.
LEMMA IInvNext ==
  ASSUME doc' = doc, doc \in Documents, Safe(pr'), work' \in Seq(Calls),
         RowsEnd(work'), Tidy(pr') \/ Ending(pr', work'),
         DepthCounts => Leads(doc, work', pr'.depth, 0, Len(doc.nodes))
  PROVE  IInv'
<1>1. Calls' = Calls
  BY DEF Calls
<1>2. Safe(pr)'
  BY DEF Safe, InOrder, NoTextAtLineStart
<1>3. Leads(doc, work, pr.depth, 0, Len(doc.nodes))'
        = Leads(doc, work', pr'.depth, 0, Len(doc.nodes))
  OBVIOUS
<1>4. DepthCounts' = DepthCounts
  BY DEF DepthCounts, NoDisabledScopes, RoomForDepth
<1>5. RowsEnd(work)'
  BY DEF RowsEnd, EmitsA, Tok
<1>6. ASSUME Tidy(pr')
      PROVE  Tidy(pr)'
  BY <1>6 DEF Tidy, Ended, IsLineComment, Tok
<1>7. ASSUME Ending(pr', work')
      PROVE  Ending(pr, work)'
  BY <1>7 DEF Ending, Ended, IsLineComment, EmitsA, Tok, EndsIn
<1>8. LineComments(pr, work)'
  BY <1>5, <1>6, <1>7 DEF LineComments
<1> QED
  BY <1>1, <1>2, <1>3, <1>4, <1>8 DEF IInv

\* A call that makes further calls: together they move the depth as it does.
LEMMA ContinueIInv ==
  ASSUME IInv, work # <<>>, Head(work).op # "emitTrivia", NEW p, NEW calls,
         Safe(p), Tidy(pr) => Tidy(p),
         calls \in Seq(Calls), RowsEnd(calls), Continue(p, calls),
         DepthCounts =>
           Leads(doc, calls, p.depth, pr.depth + Rise(doc, Head(work)),
                 pr.depth + Height(doc, Head(work)))
  PROVE  IInv'
<1> DEFINE c == Head(work)
           n == Len(doc.nodes)
<1>1. doc' = doc /\ pr' = p /\ work' = calls \o Tail(work)
  BY DEF Continue
<1>2. doc \in Documents /\ c \in Calls /\ Tail(work) \in Seq(Calls)
  BY CallTypes
<1>3. work' \in Seq(Calls)
  BY <1>1, <1>2, ConcatProperties
<1>4. ASSUME DepthCounts
      PROVE  Leads(doc, calls \o Tail(work), p.depth, 0, n)
  <2>1. work \in Seq(Calls) /\ Leads(doc, work, pr.depth, 0, n)
    BY <1>4 DEF IInv
  <2> HIDE DEF n
  <2>2. /\ pr.depth \in Nat /\ pr.depth + Height(doc, c) <= n
        /\ pr.depth + Rise(doc, c) \in Nat
        /\ Leads(doc, Tail(work), pr.depth + Rise(doc, c), 0, n)
    BY <2>1, LeadsFirst
  <2>3. n \in Int
    BY <1>2, DocumentTypes DEF n
  <2> DEFINE low == pr.depth + Rise(doc, c)
             top == pr.depth + Height(doc, c)
             from == p.depth
  <2>4. from \in Nat
    BY PrinterHasDepth
  <2>5. top \in Int
    BY <1>2, <2>2, CallHeight
  <2>6. Leads(doc, calls, from, low, top) /\ low \in Nat /\ top + 0 <= n
    BY <1>4, <2>2, <2>3, <2>5
  <2> HIDE DEF low, top, from
  <2>7. Leads(doc, calls, from + 0, low + 0, n)
    BY <2>3, <2>4, <2>5, <2>6, LeadsAbove
  <2>8. from + 0 = from /\ low + 0 = low
    BY <2>4, <2>6
  <2>9. Leads(doc, calls, from, low, n)
    BY <2>7, <2>8
  <2> QED
    BY <1>2, <2>2, <2>9, LeadsOn DEF low, from
<1>5. Tidy(p)
  BY TidyNow
<1>6. RowsEnd(calls \o Tail(work))
  <2>1. work \in Seq(Calls) /\ RowsEnd(work)
    BY DEF IInv, LineComments
  <2>2. RowsEnd(Tail(work))
    BY <2>1, RowsTail
  <2> QED
    BY <1>2, <2>2, RowsConcat
<1> QED
  BY <1>1, <1>2, <1>3, <1>4, <1>5, <1>6, IInvNext

\* A call that makes none.
LEMMA ReturnIInv ==
  ASSUME IInv, work # <<>>, NEW p, Safe(p), Return(p),
         Tidy(p) \/ Ending(p, Tail(work)),
         DepthCounts => p.depth = pr.depth + Rise(doc, Head(work))
  PROVE  IInv'
<1>1. doc' = doc /\ pr' = p /\ work' = Tail(work)
  BY DEF Return
<1>2. doc \in Documents /\ Tail(work) \in Seq(Calls)
  BY CallTypes
<1>3. ASSUME DepthCounts
      PROVE  Leads(doc, Tail(work), p.depth, 0, Len(doc.nodes))
  <2>1. work \in Seq(Calls) /\ Leads(doc, work, pr.depth, 0, Len(doc.nodes))
    BY <1>3 DEF IInv
  <2>2. Leads(doc, Tail(work), pr.depth + Rise(doc, Head(work)), 0, Len(doc.nodes))
    BY <2>1, LeadsFirst
  <2> QED
    BY <1>3, <2>2
<1>4. RowsEnd(Tail(work))
  <2>1. work \in Seq(Calls) /\ RowsEnd(work)
    BY DEF IInv, LineComments
  <2> QED
    BY <2>1, RowsTail
<1> QED
  BY <1>1, <1>2, <1>3, <1>4, IInvNext

\* The printer, as it was or with everything but its depth changed.
Steady(p) == Safe(p) /\ p.depth = pr.depth /\ (Tidy(pr) => Tidy(p))

\* A call that neither moves the depth nor visits a node.
LEMMA QuietLevel ==
  ASSUME NEW c \in Calls, c.op \in QuietOps
  PROVE  Rise(doc, c) = 0 /\ Height(doc, c) = 0
<1>1. c.op \notin DescendOps \cup {"indent", "dedent"}
  BY DEF QuietOps, DescendOps, NodeOps, ListOps, KindOps, TokenOps, PlainOps
<1>2. LeavingOps \subseteq DescendOps /\ "member" \in DescendOps
  BY DEF LeavingOps, DescendOps, NodeOps, ListOps
<1>3. ~Leaves(doc, c)
  BY <1>1, <1>2 DEF Leaves
<1> QED
  BY <1>1, <1>3 DEF Rise, Height

LEMMA QuietReturn ==
  ASSUME IInv, work # <<>>, Head(work).op \in QuietOps \ {"emitTrivia"},
         NEW p, Steady(p), Return(p)
  PROVE  IInv'
<1>1. Head(work) \in Calls /\ Safe(pr)
  BY CallTypes
<1>2. Rise(doc, Head(work)) = 0
  BY <1>1, QuietLevel
<1>3. p.depth = pr.depth + Rise(doc, Head(work))
  BY <1>1, <1>2, PrinterHasDepth DEF Steady
<1>4. Tidy(p)
  BY TidyNow DEF Steady
<1> QED
  BY <1>3, <1>4, ReturnIInv DEF Steady

LEMMA QuietContinue ==
  ASSUME IInv, work # <<>>, Head(work).op \in QuietOps \ {"emitTrivia"},
         NEW p, Steady(p), NEW calls \in Balanced(0), Continue(p, calls)
  PROVE  IInv'
<1>1. Head(work) \in Calls /\ Safe(pr)
  BY CallTypes
<1>2. Rise(doc, Head(work)) = 0 /\ Height(doc, Head(work)) = 0
  BY <1>1, QuietLevel
<1> DEFINE m == pr.depth
<1>3. m \in Nat /\ p.depth = m
  BY <1>1, PrinterHasDepth DEF Steady
<1> HIDE DEF m
<1>4. calls \in Seq(Calls) /\ RowsEnd(calls) /\ Leads(doc, calls, 0, 0, 0)
  BY DEF Balanced
<1>5. 0 \in Nat /\ 0 \in Int /\ m \in Int /\ 0 + m <= m
  BY <1>3
<1>6. Leads(doc, calls, 0 + m, 0 + m, m)
  BY <1>3, <1>4, <1>5, LeadsAbove
<1>7. 0 + m = m /\ m + 0 = m
  BY <1>3
<1>8. Leads(doc, calls, p.depth, m + Rise(doc, Head(work)), m + Height(doc, Head(work)))
  BY <1>2, <1>3, <1>6, <1>7
<1> QED
  BY <1>4, <1>8, ContinueIInv DEF Steady, m

\* A call that visits a node and leaves the depth where it was.
LEMMA NodeContinue ==
  ASSUME IInv, work # <<>>, Head(work).op \in DescendOps, ~Leaves(doc, Head(work)),
         NEW p, Steady(p), NEW calls \in Balanced(Arg), Continue(p, calls)
  PROVE  IInv'
<1> DEFINE m == pr.depth
           x == Head(work).x
<1>1. Safe(pr) /\ doc \in Documents /\ x \in Nat
  BY CallTypes, NodeTypes DEF DescendOps, Arg
<1>2. m \in Nat /\ p.depth = m
  BY <1>1, PrinterHasDepth DEF Steady
<1>3. /\ Rise(doc, Head(work)) = 0 /\ Height(doc, Head(work)) = x
      /\ Head(work).op # "emitTrivia"
  <2>1. Head(work).op # "indent" /\ Head(work).op # "dedent" /\ Head(work).op # "emitTrivia"
    BY DEF DescendOps, NodeOps, ListOps, KindOps
  <2> QED
    BY <2>1 DEF Rise, Height
<1>4. calls \in Seq(Calls) /\ RowsEnd(calls) /\ Leads(doc, calls, 0, 0, x)
  BY DEF Balanced, Arg
<1> HIDE DEF m, x
<1>5. 0 \in Nat /\ x \in Int /\ m + x \in Int /\ x + m <= m + x
  BY <1>1, <1>2
<1>6. Leads(doc, calls, 0 + m, 0 + m, m + x)
  BY <1>2, <1>4, <1>5, LeadsAbove
<1>7. 0 + m = m /\ m + 0 = m
  BY <1>2
<1>8. Leads(doc, calls, p.depth, m + Rise(doc, Head(work)), m + Height(doc, Head(work)))
  BY <1>2, <1>3, <1>6, <1>7
<1> QED
  BY <1>3, <1>4, <1>8, ContinueIInv DEF Steady, m

\* A call that closes the scope of its node, in which it was called.
LEMMA LeaveContinue ==
  ASSUME IInv, work # <<>>, Leaves(doc, Head(work)),
         NEW p, Steady(p), NEW calls \in Closing(Arg), Continue(p, calls)
  PROVE  IInv'
<1> DEFINE m == pr.depth
           x == Head(work).x
<1>1. Head(work).op \in DescendOps /\ Head(work).op # "indent" /\ Head(work).op # "emitTrivia"
  BY DEF Leaves, LeavingOps, DescendOps, NodeOps, ListOps
<1>2. Safe(pr) /\ doc \in Documents /\ x \in Nat
  BY <1>1, CallTypes, NodeTypes DEF DescendOps, Arg
<1>3. m \in Nat /\ p.depth = m
  BY <1>2, PrinterHasDepth DEF Steady
<1>4. Rise(doc, Head(work)) = -1 /\ Height(doc, Head(work)) = x - 1
  BY <1>1 DEF Rise, Height
<1>5. calls \in Seq(Calls) /\ RowsEnd(calls) /\ Leads(doc, calls, 1, 0, x)
  BY DEF Closing, Arg
<1> HIDE DEF x
<1>6. DepthCounts => Leads(doc, calls, p.depth, m + Rise(doc, Head(work)),
                           m + Height(doc, Head(work)))
  <2> SUFFICES ASSUME DepthCounts
               PROVE  Leads(doc, calls, p.depth, m + Rise(doc, Head(work)),
                            m + Height(doc, Head(work)))
    OBVIOUS
  <2>1. m + Rise(doc, Head(work)) \in Nat
    BY LeadsFirst DEF IInv
  <2> DEFINE s == m - 1
  <2> HIDE DEF m
  <2>2. s \in Nat
    BY <1>3, <1>4, <2>1
  <2>3. 1 + s = m /\ 0 + s = m + (-1) /\ x + s = m + (x - 1)
    BY <1>2, <1>3
  <2> HIDE DEF s
  <2>4. x \in Int /\ m + (x - 1) \in Int /\ x + s <= m + (x - 1)
    BY <1>2, <1>3, <2>3
  <2>5. Leads(doc, calls, 1 + s, 0 + s, m + (x - 1))
    BY <1>5, <2>2, <2>4, LeadsAbove
  <2> QED
    BY <1>3, <1>4, <2>3, <2>5
<1> QED
  BY <1>1, <1>5, <1>6, ContinueIInv DEF Steady, m

\* A call that closes the scope of its node and leaves it before what it calls.
LEMMA ClosedContinue ==
  ASSUME IInv, work # <<>>, Leaves(doc, Head(work)), Arg \in Nat,
         NEW p, Safe(p), p.depth = Dedent(pr).depth, Tidy(pr) => Tidy(p),
         NEW calls \in Balanced(0), Continue(p, calls)
  PROVE  IInv'
<1> DEFINE m == pr.depth
           x == Head(work).x
<1>1. Head(work).op \in DescendOps /\ Head(work).op # "indent" /\ Head(work).op # "emitTrivia"
  BY DEF Leaves, LeavingOps, DescendOps, NodeOps, ListOps
<1>2. HasDepth(pr) /\ m \in Nat /\ x \in Nat
  BY PrinterHasDepth DEF IInv, Arg
<1>3. p.depth = IF m = 0 THEN MaxUnsigned ELSE m - 1
  BY <1>2 DEF Dedent, HasDepth
<1>4. Rise(doc, Head(work)) = -1 /\ Height(doc, Head(work)) = x - 1
  BY <1>1 DEF Rise, Height
<1>5. calls \in Seq(Calls) /\ RowsEnd(calls) /\ Leads(doc, calls, 0, 0, 0)
  BY DEF Balanced
<1> HIDE DEF x
<1>6. DepthCounts => Leads(doc, calls, p.depth, m + Rise(doc, Head(work)),
                           m + Height(doc, Head(work)))
  <2> SUFFICES ASSUME DepthCounts
               PROVE  Leads(doc, calls, p.depth, m + Rise(doc, Head(work)),
                            m + Height(doc, Head(work)))
    OBVIOUS
  <2>1. m + Rise(doc, Head(work)) \in Nat
    BY LeadsFirst DEF IInv
  <2> DEFINE s == m - 1
  <2> HIDE DEF m
  <2>2. s \in Nat /\ p.depth = s
    BY <1>2, <1>3, <1>4, <2>1
  <2>3. 0 + s = s /\ s = m + (-1)
    BY <1>2
  <2>4. m + (x - 1) \in Int /\ 0 + s <= m + (x - 1)
    BY <1>2
  <2> HIDE DEF s
  <2>5. 0 \in Nat /\ 0 \in Int
    OBVIOUS
  <2>6. Leads(doc, calls, 0 + s, 0 + s, m + (x - 1))
    BY <1>5, <2>2, <2>4, <2>5, LeadsAbove
  <2> QED
    BY <1>4, <2>2, <2>3, <2>6
<1> QED
  BY <1>1, <1>5, <1>6, ContinueIInv DEF m

\* The state set.
LEMMA InitIInv ==
  ASSUME Init
  PROVE  IInv
<1> DEFINE n == Len(doc.nodes)
           rest == When(Kind(doc.root) # "CompilationUnit", Do("emitToken", Len(doc.toks)))
<1>1. doc \in Documents /\ work = <<Do("visit", doc.root)>> \o rest
  BY DEF Init
<1>2. PICK style \in Styles : pr = NewPrinter(style)
  BY DEF Init
<1>3. Safe(pr) /\ pr.depth = 0
  BY <1>2, NewPrinterSafe DEF NewPrinter
<1>4. doc.root \in DOMAIN doc.nodes /\ Len(doc.toks) \in DOMAIN doc.toks
  BY <1>1, DocumentTypes
<1>5. n \in Nat /\ doc.root <= n
  BY <1>1, <1>4, DocumentTypes
<1> HIDE DEF n
<1>6. Do("visit", doc.root) \in Flat(n) /\ Do("emitToken", Len(doc.toks)) \in Flat(n)
  BY <1>1, <1>4, <1>5, VisitCall, TokenCall DEF TokenOps
<1>7. <<Do("visit", doc.root)>> \in Balanced(n) /\ rest \in Balanced(n)
  BY <1>5, <1>6, OneFlat, WhenCalls
<1> HIDE DEF rest
<1>8. work \in Balanced(n)
  BY <1>1, <1>7, BalancedConcat
<1>9. work \in Seq(Calls) /\ RowsEnd(work) /\ Leads(doc, work, 0, 0, n)
  BY <1>8 DEF Balanced
<1>10. Tidy(pr)
  <2>1. "output" \in DOMAIN pr /\ pr.output = <<>>
    BY <1>2 DEF NewPrinter
  <2> QED
    BY <2>1 DEF Tidy, Ended
<1> QED
  BY <1>1, <1>3, <1>9, <1>10 DEF IInv, LineComments, n

\* A printer that differs from a steady one in other fields.
LEMMA SteadyKeeps ==
  ASSUME NEW p, NEW q, Steady(p), Safe(q), KeepsDepth(p, q), Tidy(p) => Tidy(q)
  PROVE  Steady(q)
BY DEF Steady, KeepsDepth

\* The flags that handlers set themselves.
LEMMA HandlerFlags ==
  ASSUME NEW p, Safe(p)
  PROVE  /\ Safe(Primary(p))
         /\ \A kind \in LineKinds : Safe([p EXCEPT !.nextLineKind = kind])
         /\ \A n \in Nat : Safe([p EXCEPT !.triviaSkip = n])
         /\ \A n \in Nat : Safe([p EXCEPT !.emptyLineCount = n])
         /\ \A b \in BOOLEAN : Safe([p EXCEPT !.portItemNextIndent = b])
         /\ Safe([p EXCEPT !.beforeOperator = p.formatEnabled])
<1>1. p \in Printer /\ p.formatEnabled \in BOOLEAN
  BY Zenon DEF Safe, InOrder, Printer
<1>2. Safe(Primary(p))
  <2> DEFINE q == Primary(p)
  <2>1. q \in Printer
    BY <1>1, Zenon DEF Primary, Printer
  <2>2. SameLine(p, q) /\ q.output = p.output /\ q.atLineStart = p.atLineStart
    BY <1>1 DEF SameLine, Primary, Printer
  <2> QED
    BY <2>1, <2>2, SetsFlags
<1>3. ASSUME NEW kind \in LineKinds
      PROVE  Safe([p EXCEPT !.nextLineKind = kind])
  <2> DEFINE q == [p EXCEPT !.nextLineKind = kind]
  <2>1. q \in Printer
    BY <1>1, Zenon DEF Printer
  <2>2. SameLine(p, q) /\ q.output = p.output /\ q.atLineStart = p.atLineStart
    BY <1>1 DEF SameLine, Printer
  <2> QED
    BY <2>1, <2>2, SetsFlags
<1>4. ASSUME NEW n \in Nat
      PROVE  Safe([p EXCEPT !.triviaSkip = n])
  <2> DEFINE q == [p EXCEPT !.triviaSkip = n]
  <2>1. q \in Printer
    BY <1>1, Zenon DEF Printer
  <2>2. SameLine(p, q) /\ q.output = p.output /\ q.atLineStart = p.atLineStart
    BY <1>1 DEF SameLine, Printer
  <2> QED
    BY <2>1, <2>2, SetsFlags
<1>5. ASSUME NEW n \in Nat
      PROVE  Safe([p EXCEPT !.emptyLineCount = n])
  <2> DEFINE q == [p EXCEPT !.emptyLineCount = n]
  <2>1. q \in Printer
    BY <1>1, Zenon DEF Printer
  <2>2. SameLine(p, q) /\ q.output = p.output /\ q.atLineStart = p.atLineStart
    BY <1>1 DEF SameLine, Printer
  <2> QED
    BY <2>1, <2>2, SetsFlags
<1>6. ASSUME NEW b \in BOOLEAN
      PROVE  Safe([p EXCEPT !.portItemNextIndent = b])
  <2> DEFINE q == [p EXCEPT !.portItemNextIndent = b]
  <2>1. q \in Printer
    BY <1>1, Zenon DEF Printer
  <2>2. SameLine(p, q) /\ q.output = p.output /\ q.atLineStart = p.atLineStart
    BY <1>1 DEF SameLine, Printer
  <2> QED
    BY <2>1, <2>2, SetsFlags
<1>7. Safe([p EXCEPT !.beforeOperator = p.formatEnabled])
  <2> DEFINE q == [p EXCEPT !.beforeOperator = p.formatEnabled]
  <2>1. q \in Printer
    BY <1>1, Zenon DEF Printer
  <2>2. SameLine(p, q) /\ q.output = p.output /\ q.atLineStart = p.atLineStart
    BY <1>1 DEF SameLine, Printer
  <2> QED
    BY <2>1, <2>2, SetsFlags
<1> QED
  BY <1>2, <1>3, <1>4, <1>5, <1>7, <1>6

\* They leave the output and the depth alone.
LEMMA FlagsTidy ==
  ASSUME NEW p, Tidy(p)
  PROVE  /\ Tidy(Primary(p)) /\ Tidy(Indent(p)) /\ Tidy(Dedent(p))
         /\ \A kind : /\ Tidy([p EXCEPT !.nextLineKind = kind])
                      /\ Tidy([p EXCEPT !.currentKind = kind])
         /\ \A n : /\ Tidy([p EXCEPT !.triviaSkip = n])
                   /\ Tidy([p EXCEPT !.emptyLineCount = n])
                   /\ Tidy([p EXCEPT !.portItemNextIndent = n])
         /\ Tidy([p EXCEPT !.beforeOperator = p.formatEnabled])
BY DEF Tidy, Primary, Indent, Dedent

LEMMA SteadyFlags ==
  ASSUME NEW p, Steady(p)
  PROVE  /\ Steady(Primary(p))
         /\ \A kind \in LineKinds : Steady([p EXCEPT !.nextLineKind = kind])
         /\ \A kind \in LineKinds : Steady([p EXCEPT !.currentKind = kind])
         /\ \A n \in Nat : Steady([p EXCEPT !.triviaSkip = n])
         /\ \A n \in Nat : Steady([p EXCEPT !.emptyLineCount = n])
         /\ \A b \in BOOLEAN : Steady([p EXCEPT !.portItemNextIndent = b])
         /\ Steady([p EXCEPT !.beforeOperator = p.formatEnabled])
<1>1. Safe(p) /\ HasDepth(p) /\ p.depth = pr.depth
  BY PrinterHasDepth DEF Steady
<1>2. Steady(Primary(p))
  BY <1>1, HandlerFlags, FlagsTidy DEF Steady, HasDepth, Primary
<1>3. \A kind \in LineKinds : Steady([p EXCEPT !.nextLineKind = kind])
  BY <1>1, HandlerFlags, FlagsTidy DEF Steady, HasDepth
<1>4. \A kind \in LineKinds : Steady([p EXCEPT !.currentKind = kind])
  BY <1>1, CurrentKindSafe, FlagsTidy DEF Steady, HasDepth
<1>5. /\ \A n \in Nat : Steady([p EXCEPT !.triviaSkip = n])
      /\ \A n \in Nat : Steady([p EXCEPT !.emptyLineCount = n])
  BY <1>1, HandlerFlags, FlagsTidy DEF Steady, HasDepth
<1>6. /\ \A b \in BOOLEAN : Steady([p EXCEPT !.portItemNextIndent = b])
      /\ Steady([p EXCEPT !.beforeOperator = p.formatEnabled])
  BY <1>1, HandlerFlags, FlagsTidy DEF Steady, HasDepth
<1> QED
  BY <1>2, <1>3, <1>4, <1>5, <1>6

\* So do spaces and line breaks.
LEMMA SteadyLayout ==
  ASSUME NEW p, Steady(p)
  PROVE  /\ Steady(ForceNewline(p)) /\ Steady(EndLine(p))
         /\ Steady(StripTrailingSpaces(p))
         /\ \A n \in Nat : Steady(AppendSpaces(p, n))
         /\ Steady(EnsureSpace(p)) /\ Steady(EnsureSingleSpace(p))
         /\ \A tok : Steady(BreakBeforeClose(p, tok))
         /\ \A tok : \A want, suppress \in BOOLEAN :
              Steady(NormalizeSpaceBefore(p, tok, want, suppress))
<1>1. Safe(p) /\ HasDepth(p) /\ p.depth = pr.depth
  BY PrinterHasDepth DEF Steady
<1>2. /\ Safe(ForceNewline(p)) /\ Safe(EndLine(p)) /\ Safe(StripTrailingSpaces(p))
      /\ Safe(EnsureSpace(p)) /\ Safe(EnsureSingleSpace(p))
  BY <1>1, ForceNewlineSafe, EndLineSafe, StripTrailingSpacesSafe, EnsureSpaceSafe,
     EnsureSingleSpaceSafe DEF Safe
<1>3. \A n \in Nat : Steady(AppendSpaces(p, n))
  BY <1>1, AppendSpacesSafe, OutputKeepsDepth, OutputTidy DEF Steady, KeepsDepth
<1>4. \A tok : Steady(BreakBeforeClose(p, tok))
  BY <1>1, BreakBeforeCloseSafe, BreaksKeepDepth, BreaksTidy DEF Steady, KeepsDepth
<1>5. \A tok : \A want, suppress \in BOOLEAN :
        Steady(NormalizeSpaceBefore(p, tok, want, suppress))
  <2> TAKE tok
  <2> TAKE want, suppress \in BOOLEAN
  <2>1. Safe(NormalizeSpaceBefore(p, tok, want, suppress))
    BY <1>1, NormalizeSpaceBeforeSafe
  <2>2. KeepsDepth(p, NormalizeSpaceBefore(p, tok, want, suppress))
    BY <1>1, BreaksKeepDepth
  <2> QED
    BY <2>1, <2>2, SteadyKeeps, BreaksTidy
<1>6. /\ KeepsDepth(p, ForceNewline(p)) /\ KeepsDepth(p, EndLine(p))
      /\ KeepsDepth(p, StripTrailingSpaces(p))
      /\ KeepsDepth(p, EnsureSpace(p)) /\ KeepsDepth(p, EnsureSingleSpace(p))
  BY <1>1, OutputKeepsDepth, SpacesKeepDepth
<1>7. Tidy(p) =>
        /\ Tidy(ForceNewline(p)) /\ Tidy(EndLine(p)) /\ Tidy(StripTrailingSpaces(p))
        /\ Tidy(EnsureSpace(p)) /\ Tidy(EnsureSingleSpace(p))
  BY OutputTidy, SpacesTidy
<1> QED
  BY <1>2, <1>3, <1>4, <1>5, <1>6, <1>7, SteadyKeeps

\* The printer itself, and the break before a statement.
LEMMA SteadyNow ==
  ASSUME IInv
  PROVE  Steady(pr) /\ \A tok : Steady(BreakStatement(tok))
<1>1. Steady(pr)
  BY DEF IInv, Steady
<1> QED
  BY <1>1, SteadyLayout DEF BreakStatement

\* A trivia is written: a line comment, or something else, which may be the end of
\* the line of the comment in front of it.
LEMMA TriviaTidyOrEnding ==
  ASSUME IInv, work # <<>>, Head(work).op = "emitTrivia", NEW i, i = Head(work).i,
         NEW t, t = Tok(Arg).trivia[i], Safe(EmitTrivia(pr, t, <<Arg, i>>))
  PROVE  \/ Tidy(EmitTrivia(pr, t, <<Arg, i>>))
         \/ Ending(EmitTrivia(pr, t, <<Arg, i>>), Tail(work))
<1> DEFINE at == <<Arg, i>>
<1>1. /\ RowsEnd(work) /\ work \in Seq(Calls) /\ Safe(pr)
      /\ Tidy(pr) \/ Ending(pr, work)
  BY DEF IInv, LineComments
<1>2. at[1] = Arg /\ at[2] = i /\ t = Tok(at[1]).trivia[at[2]]
  OBVIOUS
<1>3. \A kind : EmitsA(kind, Head(work)) <=> t.kind = kind
  BY DEF EmitsA, Arg
<1> HIDE DEF at
<1>4. CASE Tidy(pr) /\ (t.kind # "LineComment" \/ IsInDirective(t))
  <2>1. Tidy(EmitTrivia(pr, t, at))
    BY <1>2, <1>4, TriviaTidy
  <2> QED
    BY <2>1 DEF at
<1>5. CASE Tidy(pr) /\ t.kind = "LineComment" /\ ~IsInDirective(t)
  <2> DEFINE e == EmitComment(pr, t, at)
             item == [kind |-> "comment", size |-> t.lines, at |-> at]
  <2>1. EmitTrivia(pr, t, at) = e
    BY <1>5 DEF EmitTrivia, StartsDirective
  <2>2. e \in Printer
    BY <2>1 DEF at, Safe, InOrder
  <2>3. "atLineStart" \in DOMAIN e
    BY <2>2, Zenon DEF Printer
  <2>4. /\ e.atLineStart = FALSE
        /\ \E s : Ended(s) /\ e.output = Append(s, item)
    <3>1. Tidy(pr)
      BY <1>5
    <3>2. \A u, w : LET c == EmitComment(pr, u, w)
                   IN  /\ "atLineStart" \in DOMAIN c => c.atLineStart = FALSE
                       /\ \E s : /\ Ended(s)
                                 /\ c.output = Append(s, [kind |-> "comment",
                                                         size |-> u.lines, at |-> w])
      BY <3>1, CommentTidy
    <3> QED
      BY <2>3, <3>2, Zenon DEF item, e
  <2>5. Tail(work) # <<>> /\ EmitsA("EndOfLine", Head(Tail(work)))
    BY <1>1, <1>3, <1>5, RowsTail
  <2> HIDE DEF e, item
  <2>6. PICK s : Ended(s) /\ e.output = Append(s, item)
    BY <2>4
  <2>7. "kind" \in DOMAIN item /\ item.kind = "comment"
    BY DEF item
  <2>8. Ended(Append(e.output, Newline))
    BY <2>6, <2>7, EndedComment
  <2>9. EndsIn(e, "comment")
    <3>1. PICK S : s \in Seq(S)
      BY <2>6 DEF Ended
    <3> DEFINE T == S \cup {item}
    <3>2. s \in Seq(T) /\ item \in T
      BY <3>1
    <3> HIDE DEF T
    <3>3. e.output # <<>> /\ e.output[Len(e.output)] = item
      BY <2>6, <3>2
    <3> QED
      BY <2>7, <3>3 DEF EndsIn
  <2>10. Ending(e, Tail(work))
    BY <2>4, <2>5, <2>8, <2>9 DEF Ending
  <2> QED
    BY <2>1, <2>10 DEF at
<1>6. CASE Ending(pr, work)
  <2>1. /\ Ended(Append(pr.output, Newline)) /\ EndsIn(pr, "comment")
        /\ ~pr.atLineStart /\ t.kind = "EndOfLine"
    BY <1>3, <1>6 DEF Ending
  <2> DEFINE q == [pr EXCEPT !.beforeOperator = FALSE, !.after = {}, !.pending = {},
                             !.suppressSeparator = FALSE]
             r == [q EXCEPT !.emptyLineCount = 0, !.atLineStart = TRUE]
  <2>2. EmitTrivia(pr, t, at) = EmitEndOfLine(pr)
    BY <2>1 DEF EmitTrivia, EmitTriviaInDirective, StartsDirective, DirectiveTexts
  <2>3. "output" \in DOMAIN pr /\ "atLineStart" \in DOMAIN pr
    BY <1>1, Zenon DEF Safe, InOrder, Printer
  <2>4. q.output = pr.output /\ q.atLineStart = pr.atLineStart /\ "output" \in DOMAIN r
        /\ r.output = pr.output
    BY <2>3
  <2>5. StripTrailingSpaces(q) = q
    BY <2>1, <2>4 DEF StripTrailingSpaces, EndsIn
  <2>6. EmitEndOfLine(pr) = EndLine(r)
    BY <2>1, <2>5 DEF EmitEndOfLine
  <2> HIDE DEF r, q
  <2>7. EndLine(r).output = Append(pr.output, Newline) /\ "output" \in DOMAIN EndLine(r)
    <3> DEFINE a == AppendItem(r, Newline)
    <3>1. a.output = Append(pr.output, Newline) /\ "output" \in DOMAIN a
      BY <2>4 DEF AppendItem
    <3> HIDE DEF a
    <3>2. EndLine(r).output = a.output /\ "output" \in DOMAIN EndLine(r)
      BY <3>1 DEF EndLine, FinalizeLine, a
    <3> QED
      BY <3>1, <3>2
  <2> QED
    BY <2>1, <2>2, <2>6, <2>7 DEF Tidy, at
<1> QED
  BY <1>1, <1>4, <1>5, <1>6

\* The calls that write tokens, trivia and blank lines.
LEMMA EmitStep ==
  ASSUME IInv, Emit
  PROVE  IInv'
<1> USE SteadyNow
<1>1. CASE EmitToken
  <2> DEFINE trivia == Tok(Arg).trivia
             from == pr.triviaSkip
             n == IF from < Len(trivia) THEN Len(trivia) - from ELSE 0
             p == [pr EXCEPT !.triviaSkip = 0]
             some == [j \in 1..n |-> DoNth("emitTrivia", Arg, from + j)]
  <2>1. /\ work # <<>> /\ Head(work).op = "emitToken"
        /\ Continue(p, some \o <<Do("finishToken", Arg)>>)
    BY <1>1 DEF EmitToken, Calling
  <2>2. doc \in Documents /\ Safe(pr) /\ Arg \in DOMAIN doc.toks
    BY <2>1, CallTypes DEF TokenOps
  <2>3. Steady(p)
    BY SteadyFlags
  <2>4. from \in Nat /\ Len(trivia) \in Nat
    BY <2>2, TokenTypes, Zenon DEF Safe, InOrder, Printer
  <2>5. n \in Nat /\ (n > 0 => from + n = Len(trivia))
    BY <2>4
  <2> HIDE DEF n, from
  <2>6. some \in Balanced(0)
    BY <2>2, <2>4, <2>5, TriviaCalls
  <2>7. Do("finishToken", Arg) \in Flat(0)
    BY <2>2, TokenCall DEF TokenOps
  <2>8. <<Do("finishToken", Arg)>> \in Balanced(0)
    BY <2>7, OneFlat
  <2> HIDE DEF some, p
  <2>9. some \o <<Do("finishToken", Arg)>> \in Balanced(0)
    BY <2>6, <2>8, BalancedConcat
  <2>10. "emitToken" \in QuietOps
    BY DEF QuietOps, TokenOps
  <2> QED
    BY <2>1, <2>3, <2>9, <2>10, QuietContinue
<1>2. CASE EmitOperator
  <2> DEFINE p == [pr EXCEPT !.beforeOperator = pr.formatEnabled]
  <2>1. /\ work # <<>> /\ Head(work).op = "emitOperator"
        /\ Continue(p, <<Do("emitToken", Arg)>>)
    BY <1>2 DEF EmitOperator, Calling
  <2>2. doc \in Documents /\ Arg \in DOMAIN doc.toks
    BY <2>1, CallTypes DEF TokenOps
  <2>3. Steady(p)
    BY SteadyFlags
  <2>4. Do("emitToken", Arg) \in Flat(0)
    BY <2>2, TokenCall DEF TokenOps
  <2>5. <<Do("emitToken", Arg)>> \in Balanced(0)
    BY <2>4, OneFlat
  <2> HIDE DEF p
  <2>6. "emitOperator" \in QuietOps
    BY DEF QuietOps, TokenOps
  <2> QED
    BY <2>1, <2>3, <2>5, <2>6, QuietContinue
<1>3. CASE CallEmitTrivia
  <2> DEFINE i == Head(work).i
             t == Tok(Arg).trivia[i]
             p == EmitTrivia(pr, t, <<Arg, i>>)
  <2>1. work # <<>> /\ Head(work).op = "emitTrivia" /\ Return(p)
    BY <1>3 DEF CallEmitTrivia, Calling
  <2>2. /\ doc \in Documents /\ Safe(pr) /\ Arg \in DOMAIN doc.toks
        /\ i \in DOMAIN Tok(Arg).trivia /\ i \in Nat
    BY <2>1, CallTypes DEF TokenOps
  <2>3. t \in Trivia /\ <<Arg, i>> \in Nat \X Nat
    BY <2>2, TokenTypes, ElementOfSeq
  <2>4. IsComment(t) => t.lines \in CommentLines
    <3>1. t.lines \in Nat
      BY <2>3, Zenon DEF Trivia
    <3> QED
      BY <2>2, <3>1, Zenon DEF CommentLines, Tok
  <2>5. Safe(p)
    BY <2>2, <2>3, <2>4, EmitTriviaSafe
  <2>6. DepthCounts => KeepsDepth(pr, p)
    <3> SUFFICES ASSUME DepthCounts
                 PROVE  KeepsDepth(pr, p)
      OBVIOUS
    <3>1. t.kind \notin {"DirectiveOpen", "DirectiveClose"}
      BY <2>2 DEF DepthCounts, NoDisabledScopes, Tok
    <3>2. HasDepth(pr)
      BY <2>2, PrinterHasDepth
    <3> HIDE DEF t
    <3> QED
      BY <3>1, <3>2, TriviaKeepsDepth
  <2>7. Rise(doc, Head(work)) = 0
    BY <2>1, CallTypes, QuietLevel DEF QuietOps, TokenOps
  <2>8. pr.depth \in Nat
    BY <2>2, PrinterHasDepth
  <2>9. Tidy(p) \/ Ending(p, Tail(work))
    BY <2>1, <2>5, CallTypes, TriviaTidyOrEnding DEF Arg
  <2> HIDE DEF p
  <2>10. DepthCounts => p.depth = pr.depth + Rise(doc, Head(work))
    BY <2>6, <2>7, <2>8 DEF KeepsDepth
  <2> QED
    BY <2>1, <2>5, <2>9, <2>10, ReturnIInv
<1>4. CASE CallFinishToken
  <2> DEFINE p == FinishToken(pr, Tok(Arg).kind, <<Arg, 0>>)
  <2>1. work # <<>> /\ Head(work).op = "finishToken" /\ Return(p)
    BY <1>4 DEF CallFinishToken, Calling
  <2>2. doc \in Documents /\ Safe(pr) /\ Arg \in DOMAIN doc.toks
    BY <2>1, CallTypes DEF TokenOps
  <2>3. Tok(Arg).kind \in TokenKinds /\ <<Arg, 0>> \in Nat \X Nat
    BY <2>2, TokenTypes
  <2>4. Safe(p) /\ KeepsDepth(pr, p) /\ (Tidy(pr) => Tidy(p))
    BY <2>2, <2>3, FinishTokenSafe, PrinterHasDepth, TokenKeepsDepth, TokenTidy
  <2> HIDE DEF p
  <2>5. Steady(p)
    BY <2>4, SteadyKeeps
  <2>6. "finishToken" \in QuietOps
    BY DEF QuietOps, TokenOps
  <2> QED
    BY <2>1, <2>5, <2>6, QuietReturn
<1>5. CASE EmitEndTokenTrivia
  <2> DEFINE n == Len(Tok(Arg).trivia)
             p == [pr EXCEPT !.triviaSkip = n]
  <2>1. /\ work # <<>> /\ Head(work).op = "emitEndTokenTrivia"
        /\ Continue(p, EmitTriviaUpTo(Arg, n)) \/ Return(pr)
    BY <1>5 DEF EmitEndTokenTrivia, Calling
  <2>2. doc \in Documents /\ Arg \in DOMAIN doc.toks
    BY <2>1, CallTypes DEF TokenOps
  <2>3. n \in Nat
    BY <2>2, TokenTypes
  <2>4. EmitTriviaUpTo(Arg, n) \in Balanced(0)
    BY <2>2, <2>3, EmitTriviaUpToCalls
  <2>5. Steady(p)
    BY <2>3, SteadyFlags
  <2> HIDE DEF n, p
  <2>6. "emitEndTokenTrivia" \in QuietOps
    BY DEF QuietOps, TokenOps
  <2> QED
    BY <2>1, <2>4, <2>5, <2>6, QuietContinue, QuietReturn
<1>6. CASE InsertBlankLineBefore
  <2> DEFINE n == IF HasLeadingTrailingComment(Tok(Arg))
                  THEN LeadingTrailingLength(Tok(Arg)) ELSE 0
             skip == IF n = 0 THEN pr.triviaSkip ELSE n
             p == [pr EXCEPT !.triviaSkip = skip]
             calls == EmitTriviaUpTo(Arg, n) \o <<Do("finishBlankLine", Arg)>>
  <2>1. work # <<>> /\ Head(work).op = "insertBlankLineBefore"
    BY <1>6 DEF InsertBlankLineBefore, Calling
  <2>2. doc \in Documents /\ Safe(pr) /\ Arg \in DOMAIN doc.toks
    BY <2>1, CallTypes DEF TokenOps
  <2>3. pr \in Printer /\ pr.triviaSkip \in Nat
    BY <2>2, Zenon DEF Safe, InOrder, Printer
  <2>4. Continue(p, calls) \/ Return(pr)
    BY <1>6, <2>3 DEF InsertBlankLineBefore
  <2>5. /\ LeadingTrailingLength(Tok(Arg)) \in Nat
        /\ LeadingTrailingLength(Tok(Arg)) <= Len(Tok(Arg).trivia)
        /\ \/ LeadingTrailingLength(Tok(Arg)) = Len(Tok(Arg).trivia)
           \/ Tok(Arg).trivia[LeadingTrailingLength(Tok(Arg))].kind = "EndOfLine"
    BY <2>2, TokenTypes, LeadingTrailingLengthType
  <2>6. /\ n \in Nat /\ n <= Len(Tok(Arg).trivia)
        /\ n = 0 \/ n = Len(Tok(Arg).trivia) \/ Tok(Arg).trivia[n].kind # "LineComment"
    BY <2>2, <2>5, TokenTypes
  <2> HIDE DEF n
  <2>7. EmitTriviaUpTo(Arg, n) \in Balanced(0)
    BY <2>2, <2>6, EmitTriviaUpToCalls
  <2>8. Do("finishBlankLine", Arg) \in Flat(0)
    BY <2>2, TokenCall DEF TokenOps
  <2>9. calls \in Balanced(0)
    BY <2>7, <2>8, OneFlat, BalancedConcat
  <2>10. skip \in Nat
    BY <2>3, <2>6
  <2>11. Steady(p)
    BY <2>10, SteadyFlags
  <2> HIDE DEF p, calls
  <2>12. "insertBlankLineBefore" \in QuietOps
    BY DEF QuietOps, TokenOps
  <2> QED
    BY <2>1, <2>4, <2>9, <2>11, <2>12, QuietContinue, QuietReturn
<1>7. CASE FinishBlankLine
  <2> DEFINE p == IF pr.atLineStart THEN pr ELSE ForceNewline(pr)
             q == EndLine([p EXCEPT !.currentKind = "Empty"])
             r == [q EXCEPT !.emptyLineCount = pr.style.MaxEmptyLinesToKeep]
  <2>1. work # <<>> /\ Head(work).op = "finishBlankLine" /\ Return(r)
    BY <1>7 DEF FinishBlankLine, Calling
  <2>2. Safe(pr)
    BY <2>1, CallTypes
  <2>3. pr.style.MaxEmptyLinesToKeep \in Nat
    BY <2>2, StyleTypes DEF Safe, InOrder
  <2>4. Steady(p)
    BY SteadyLayout
  <2> HIDE DEF p
  <2>5. Steady([p EXCEPT !.currentKind = "Empty"])
    BY <2>4, SteadyFlags DEF LineKinds
  <2>6. Steady(q)
    BY <2>5, SteadyLayout
  <2> HIDE DEF q
  <2>7. Steady(r)
    BY <2>3, <2>6, SteadyFlags
  <2> HIDE DEF r
  <2>8. "finishBlankLine" \in QuietOps
    BY DEF QuietOps, TokenOps
  <2> QED
    BY <2>1, <2>7, <2>8, QuietReturn
<1> QED
  BY <1>1, <1>2, <1>3, <1>4, <1>5, <1>6, <1>7 DEF Emit

\* The calls that move the depth.
LEMMA DepthStep ==
  ASSUME IInv, CallIndent \/ CallDedent
  PROVE  IInv'
<1> DEFINE m == pr.depth
           n == Len(doc.nodes)
           c == Head(work)
<1>1. work # <<>> /\ work \in Seq(Calls)
  BY DEF CallIndent, CallDedent, Calling, IInv
<1>2. /\ doc \in Documents /\ Safe(pr) /\ c \in Calls
      /\ Safe(Indent(pr)) /\ Safe(Dedent(pr)) /\ HasDepth(pr) /\ m \in Nat
  BY <1>1, CallTypes, DepthSafe, PrinterHasDepth
<1>3. ASSUME DepthCounts
      PROVE  /\ m + Height(doc, c) <= n /\ m + Rise(doc, c) \in Nat
             /\ n \in Nat /\ n <= MaxUnsigned
  <2>1. Leads(doc, work, m, 0, n)
    BY <1>3 DEF IInv
  <2>2. n \in Nat /\ n <= MaxUnsigned
    BY <1>2, <1>3, DocumentTypes DEF DepthCounts, RoomForDepth
  <2> HIDE DEF m, n
  <2> QED
    BY <1>1, <2>1, <2>2, LeadsFirst
<1>6. Tidy(Indent(pr)) /\ Tidy(Dedent(pr))
  <2>1. c.op # "emitTrivia"
    BY DEF CallIndent, CallDedent, Calling
  <2> QED
    BY <1>1, <2>1, TidyNow, FlagsTidy
<1>4. CASE CallIndent
  <2>1. Return(Indent(pr)) /\ c.op = "indent"
    BY <1>4 DEF CallIndent, Calling
  <2>2. Rise(doc, c) = 1 /\ Height(doc, c) = 1
    BY <2>1 DEF Rise, Height
  <2>3. ASSUME DepthCounts
        PROVE  Indent(pr).depth = pr.depth + Rise(doc, c)
    <3>1. m # MaxUnsigned
      BY <1>2, <1>3, <2>2, <2>3
    <3> QED
      BY <1>2, <2>2, <3>1 DEF Indent, HasDepth
  <2> QED
    BY <1>1, <1>2, <1>6, <2>1, <2>3, ReturnIInv
<1>5. CASE CallDedent
  <2>1. Return(Dedent(pr)) /\ c.op = "dedent"
    BY <1>5 DEF CallDedent, Calling
  <2>2. Rise(doc, c) = -1
    BY <2>1 DEF Rise
  <2>3. ASSUME DepthCounts
        PROVE  Dedent(pr).depth = pr.depth + Rise(doc, c)
    <3>1. m # 0
      BY <1>2, <1>3, <2>2, <2>3
    <3> QED
      BY <1>2, <2>2, <3>1 DEF Dedent, HasDepth
  <2> QED
    BY <1>1, <1>2, <1>6, <2>1, <2>3, ReturnIInv
<1> QED
  BY <1>4, <1>5

\* The calls that only move the layout.
LEMMA LayStep ==
  ASSUME IInv, Lay
  PROVE  IInv'
<1>1. Safe(pr) /\ doc \in Documents /\ Steady(pr)
  BY SteadyNow DEF IInv
<1>2. CASE CallPrimary \/ CallForceNewline
  <2>1. Steady(Primary(pr)) /\ Steady(ForceNewline(pr))
    BY <1>1, SteadyFlags, SteadyLayout
  <2> QED
    BY <1>2, <2>1, QuietReturn
       DEF CallPrimary, CallForceNewline, Calling, QuietOps, PlainOps
<1>3. CASE CallLineKind
  <2>1. /\ Steady([pr EXCEPT !.nextLineKind = "TimingControl"])
        /\ Steady([pr EXCEPT !.nextLineKind = "Declaration"])
        /\ Steady([pr EXCEPT !.nextLineKind = "Assignment"])
        /\ Steady([pr EXCEPT !.nextLineKind = "PortConnection"])
        /\ Steady([pr EXCEPT !.nextLineKind = "PortListBoundary"])
    BY <1>1, SteadyFlags DEF LineKinds
  <2> QED
    BY <1>3, <2>1, QuietReturn DEF CallLineKind, Calling, QuietOps, PlainOps
<1>4. CASE CallNormalizeSpaceBefore
  <2>1. /\ Steady(NormalizeSpaceBefore(pr, Tok(Arg), TRUE, TRUE))
        /\ Steady(NormalizeSpaceBefore(pr, Tok(Arg), FALSE, TRUE))
        /\ Steady(NormalizeSpaceBefore(pr, Tok(Arg), TRUE, FALSE))
        /\ Steady(NormalizeSpaceBefore(pr, Tok(Arg), FALSE, FALSE))
    BY <1>1, SteadyLayout
  <2> QED
    BY <1>4, <2>1, QuietReturn DEF CallNormalizeSpaceBefore, Calling, QuietOps, TokenOps
<1>5. CASE ForceStatementBreak
  <2>1. Steady(BreakStatement(Arg))
    BY SteadyNow
  <2> QED
    BY <1>5, <2>1, QuietReturn DEF ForceStatementBreak, Calling, QuietOps, TokenOps
<1>6. CASE BreakConditionalBody
  <2>1. Steady(BreakStatement(First(Arg)))
    BY SteadyNow
  <2>2. /\ work # <<>> /\ Head(work).op = "breakConditionalBody"
        /\ Return(pr) \/ Return(BreakStatement(First(Arg)))
    BY <1>6 DEF BreakConditionalBody, Calling
  <2> QED
    BY <1>1, <2>1, <2>2, QuietReturn DEF QuietOps
<1>7. CASE SkipTrivia
  <2> DEFINE n == Len(Tok(Arg).trivia)
  <2>1. work # <<>> /\ Head(work).op = "skipTrivia"
        /\ Return([pr EXCEPT !.triviaSkip = n])
    BY <1>7 DEF SkipTrivia, Calling
  <2>2. n \in Nat
    BY <2>1, CallTypes, TokenTypes DEF TokenOps
  <2>3. Steady([pr EXCEPT !.triviaSkip = n])
    BY <1>1, <2>2, SteadyFlags
  <2> HIDE DEF n
  <2> QED
    BY <2>1, <2>3, QuietReturn DEF QuietOps, TokenOps
<1>8. CASE CallBreakBeforeClose
  <2>1. Steady(BreakBeforeClose(pr, Tok(Arg)))
    BY <1>1, SteadyLayout
  <2> QED
    BY <1>8, <2>1, QuietReturn DEF CallBreakBeforeClose, Calling, QuietOps, TokenOps
<1>9. CASE CallInstanceSpace
  <2>1. Steady(AppendSpaces(pr, 1))
    <3>1. 1 \in Nat
      OBVIOUS
    <3> QED
      BY <1>1, <3>1, SteadyLayout
  <2>2. /\ work # <<>> /\ Head(work).op = "instanceSpace"
        /\ Return(pr) \/ Return(AppendSpaces(pr, 1))
    BY <1>9 DEF CallInstanceSpace, Calling
  <2> QED
    BY <1>1, <2>1, <2>2, QuietReturn DEF QuietOps, TokenOps
<1>10. CASE CallStripSpaces
  <2>1. Steady(StripTrailingSpaces(pr))
    BY <1>1, SteadyLayout
  <2> QED
    BY <1>1, <1>10, <2>1, QuietReturn DEF CallStripSpaces, Calling, QuietOps, PlainOps
<1>11. CASE CallPortItem
  <2>1. Steady(Primary(pr))
    BY <1>1, SteadyFlags
  <2>2. /\ Steady([Primary(pr) EXCEPT !.portItemNextIndent = TRUE])
        /\ Steady([pr EXCEPT !.portItemNextIndent = FALSE])
    BY <1>1, <2>1, SteadyFlags
  <2> QED
    BY <1>11, <2>2, QuietReturn DEF CallPortItem, Calling, QuietOps, PlainOps
<1>12. CASE CallEnsureSpace
  <2>1. Steady(EnsureSpace(pr)) /\ Steady(EnsureSingleSpace(pr))
    BY <1>1, SteadyLayout
  <2> QED
    BY <1>12, <2>1, QuietReturn DEF CallEnsureSpace, Calling, QuietOps, PlainOps
<1>13. CASE CallFreshLine
  <2>1. Steady(ForceNewline(pr))
    BY <1>1, SteadyLayout
  <2>2. Steady(Primary(ForceNewline(pr)))
    BY <2>1, SteadyFlags
  <2>3. /\ work # <<>> /\ Head(work).op = "freshLine"
        /\ Return(pr) \/ Return(Primary(ForceNewline(pr)))
    BY <1>13 DEF CallFreshLine, Calling
  <2> QED
    BY <1>1, <2>2, <2>3, QuietReturn DEF QuietOps, PlainOps
<1>14. CASE CallWeightSpaces
  <2> DEFINE stripped == StripTrailingSpaces(pr)
             source == LeadingWhitespaceLength(Tok(Arg))
             n == IF source > 1 THEN source ELSE 1
  <2>1. CASE Calling("weightSpaces")
    <3>1. work # <<>> /\ Head(work).op = "weightSpaces"
          /\ (Return(pr) \/ Return(AppendSpaces(stripped, n)))
      BY <1>14, <2>1 DEF CallWeightSpaces, Calling
    <3>2. Arg \in DOMAIN doc.toks
      BY <3>1, CallTypes DEF TokenOps
    <3>3. source \in Nat
      BY <1>1, <3>2, LeadingWhitespaceLengthType
    <3>4. n \in Nat
      BY <3>3
    <3>5. Steady(stripped)
      BY <1>1, SteadyLayout
    <3> HIDE DEF n, stripped
    <3>6. Steady(AppendSpaces(stripped, n))
      BY <3>4, <3>5, SteadyLayout
    <3> QED
      BY <1>1, <3>1, <3>6, QuietReturn DEF QuietOps, TokenOps
  <2>2. CASE Calling("oneSpace")
    <3>1. Steady(AppendSpaces(pr, 1))
      <4>1. 1 \in Nat
        OBVIOUS
      <4> QED
        BY <1>1, <4>1, SteadyLayout
    <3>2. /\ work # <<>> /\ Head(work).op = "oneSpace"
          /\ Return(pr) \/ Return(AppendSpaces(pr, 1))
      BY <1>14, <2>2 DEF CallWeightSpaces, Calling
    <3> QED
      BY <1>1, <3>1, <3>2, QuietReturn DEF QuietOps, PlainOps
  <2> QED
    BY <1>14, <2>1, <2>2 DEF CallWeightSpaces
<1>15. CASE CallIndent \/ CallDedent
  BY <1>15, DepthStep
<1> QED
  BY <1>2, <1>3, <1>4, <1>5, <1>6, <1>7, <1>8, <1>9, <1>10, <1>11, <1>12, <1>13, <1>14,
     <1>15 DEF Lay

-----------------------------------------------------------------------------
(* The node that is visited. *)

\* What is known of the node that is visited.
LEMMA VisitTypes ==
  ASSUME IInv, Calling("visit")
  PROVE  /\ work # <<>> /\ doc \in Documents
         /\ Arg \in DOMAIN doc.nodes /\ Arg \in Nat
         /\ Kids(Arg) \in Seq(DOMAIN doc.nodes)
         /\ Head1(Arg) \in Seq(DOMAIN doc.toks)
         /\ Tail1(Arg) \in Seq(DOMAIN doc.toks)
         /\ First(Arg) \in DOMAIN doc.toks
         /\ EmitAll(Head1(Arg)) \in Balanced(Arg)
         /\ EmitNamed(Head1(Arg)) \in Balanced(Arg)
         /\ LabelCalls(Arg) \in Balanced(Arg)
         /\ <<>> \in Balanced(Arg)
         /\ IsWellShaped(doc.nodes[Arg], doc.nodes)
<1>1. work # <<>> /\ Head(work).op = "visit"
  BY DEF Calling
<1>2. doc \in Documents /\ Arg \in DOMAIN doc.nodes
  BY <1>1, CallTypes DEF NodeOps
<1> QED
  BY <1>1, <1>2, NodeTypes, EmitAllCalls, EmitNamedCalls, LabelCallsCalls, NoneBalanced

\* A handler that makes calls, or asks for a primary line first.
LEMMA VisitIInv ==
  ASSUME IInv, Calling("visit"), NEW calls \in Balanced(Arg),
         Continue(pr, calls) \/ Continue(Primary(pr), calls)
  PROVE  IInv'
<1>1. work # <<>> /\ Steady(pr) /\ Steady(Primary(pr))
  BY VisitTypes, SteadyNow, SteadyFlags
<1>2. Head(work).op \in DescendOps /\ ~Leaves(doc, Head(work))
  BY DEF Calling, DescendOps, NodeOps, Leaves, LeavingOps
<1> QED
  BY <1>1, <1>2, NodeContinue

\* The first child of a node: visiting it, setting it apart.
LEMMA FirstKid ==
  ASSUME doc \in Documents, NEW n \in DOMAIN doc.nodes, Kids(n) # <<>>
  PROVE  /\ Kids(n)[1] \in DOMAIN doc.nodes /\ Kids(n)[1] < n /\ n \in Nat
         /\ First(Kids(n)[1]) \in DOMAIN doc.toks
         /\ Do("visit", Kids(n)[1]) \in Flat(n)
         /\ <<Do("visit", Kids(n)[1])>> \in Balanced(n)
         /\ VisitBody(Kids(n)[1]) \in Balanced(n)
<1>1. 1 \in DOMAIN Kids(n)
  BY NodeTypes, EmptySeq
<1> QED
  BY <1>1, KidTypes, KidCalls

(***************************************************************************)
(* Handlers of statements.                                                 *)
(***************************************************************************)

(* Loops, conditions, timing controls. *)

\* keyword ( ... )
LEMMA ControlHeadCalls ==
  ASSUME doc \in Documents, NEW toks \in Seq(DOMAIN doc.toks), Len(toks) >= 2,
         NEW m \in Nat
  PROVE  ControlHead(toks) \in Balanced(m)
<1>1. /\ toks[1] \in DOMAIN doc.toks /\ toks[2] \in DOMAIN doc.toks
      /\ Tail(toks) \in Seq(DOMAIN doc.toks)
  OBVIOUS
<1>2. Do("emitToken", toks[1]) \in Flat(m)
  BY <1>1, TokenCall DEF TokenOps
<1>3. SpaceBefore(pr.style.SpaceBeforeParens, toks[2]) \in Flat(m)
  BY <1>1, SpaceBeforeCall
<1>4. EmitAll(Tail(toks)) \in Balanced(m)
  BY <1>1, EmitAllCalls
<1> QED
  BY <1>2, <1>3, <1>4, TwoFlat, BalancedConcat DEF ControlHead

\* The break in front of a body.
LEMMA BreakBodyCalls ==
  ASSUME doc \in Documents, NEW n \in DOMAIN doc.nodes, NEW want, NEW m \in Nat
  PROVE  /\ <<Do("breakConditionalBody", n)>> \in Balanced(m)
         /\ <<SpaceBefore(want, First(n))>> \in Balanced(m)
         /\ <<SpaceBefore(want, First(n)), Do("breakConditionalBody", n)>> \in Balanced(m)
         /\ When(~IsBlock(n), Do("forceStatementBreak", First(n))) \in Balanced(m)
<1>1. First(n) \in DOMAIN doc.toks
  BY NodeTypes
<1>2. SpaceBefore(want, First(n)) \in Flat(m)
  BY <1>1, SpaceBeforeCall
<1>3. Do("forceStatementBreak", First(n)) \in Flat(m)
  BY <1>1, TokenCall DEF TokenOps
<1>4. Do("breakConditionalBody", n) \in Flat(m)
  BY BreakBodyCall
<1> QED
  BY <1>2, <1>3, <1>4, OneFlat, TwoFlat, WhenCalls

\* The common part of statements with a condition and a body.
LEMMA ControlCallsCalls ==
  ASSUME doc \in Documents, NEW n \in DOMAIN doc.nodes,
         Len(Head1(n)) >= 2, Kids(n) # <<>>
  PROVE  ControlCalls(n) \in Balanced(n)
<1> DEFINE body  == Kids(n)[1]
           space == <<SpaceBefore(pr.style.SpaceAfterParens, First(body)),
                      Do("breakConditionalBody", body)>>
<1>1. body \in DOMAIN doc.nodes /\ VisitBody(body) \in Balanced(n) /\ n \in Nat
  BY FirstKid
<1>2. space \in Balanced(n)
  BY <1>1, BreakBodyCalls
<1>3. LabelCalls(n) \in Balanced(n) /\ ControlHead(Head1(n)) \in Balanced(n)
  BY NodeTypes, LabelCallsCalls, ControlHeadCalls
<1>4. ControlCalls(n) = LabelCalls(n) \o ControlHead(Head1(n)) \o space \o VisitBody(body)
  BY DEF ControlCalls
<1> HIDE DEF space, body
<1> QED
  BY <1>1, <1>2, <1>3, <1>4, BalancedConcat

\* The else clause.
LEMMA ElseCallsCalls ==
  ASSUME doc \in Documents, NEW n \in DOMAIN doc.nodes,
         Len(Kids(n)) = 2, Tail1(n) # <<>>
  PROVE  ElseCalls(n) \in Balanced(n)
<1> DEFINE clause == Kids(n)[2]
           else == Tail1(n)[1]
<1>1. Kids(n) \in Seq(DOMAIN doc.nodes) /\ Tail1(n) \in Seq(DOMAIN doc.toks)
  BY NodeTypes
<1>2. n \in Nat /\ 2 \in DOMAIN Kids(n)
  BY <1>1, NodeTypes
<1>3. clause \in DOMAIN doc.nodes
  BY <1>2, KidTypes
<1>4. else \in DOMAIN doc.toks
  BY <1>1, EmptySeq
<1>5. When(~IsBlock(Kids(n)[1]), Do("forceStatementBreak", else)) \in Balanced(n)
  BY <1>4, <1>2, TokenCall, WhenCalls DEF TokenOps
<1>6. <<Do("primary", 0), Do("emitToken", else)>> \in Balanced(n)
  <2>1. Do("primary", 0) \in Flat(n)
    BY <1>2, PlainCall DEF PlainOps
  <2>2. Do("emitToken", else) \in Flat(n)
    BY <1>4, <1>2, TokenCall DEF TokenOps
  <2> QED
    BY <1>2, <2>1, <2>2, TwoFlat
<1>7. /\ <<Do("visit", clause)>> \in Balanced(n)
      /\ <<Do("breakConditionalBody", clause)>> \in Balanced(n)
  <2>1. Do("visit", clause) \in Flat(n) /\ Do("breakConditionalBody", clause) \in Flat(n)
    BY <1>3, <1>2, KidCalls, BreakBodyCall
  <2> QED
    BY <1>2, <2>1, OneFlat
<1>8. VisitBody(clause) \in Balanced(n)
  BY <1>2, KidCalls
<1>9. (IF Kind(clause) = "ConditionalStatement" THEN <<Do("visit", clause)>>
       ELSE <<Do("breakConditionalBody", clause)>> \o VisitBody(clause)) \in Balanced(n)
  BY <1>7, <1>8, BalancedConcat
<1> QED
  BY <1>5, <1>6, <1>9, BalancedConcat DEF ElseCalls

\* A timing control.
LEMMA TimingCallsCalls ==
  ASSUME doc \in Documents, NEW n \in DOMAIN doc.nodes, Kids(n) # <<>>
  PROVE  TimingCalls(n) \in Balanced(n)
<1>1. First(Kids(n)[1]) \in DOMAIN doc.toks /\ n \in Nat
  BY FirstKid
<1>2. SpaceBefore(pr.style.SpaceAfterEventControl, First(Kids(n)[1])) \in Flat(n)
  BY <1>1, SpaceBeforeCall
<1>3. EmitAll(Head1(n)) \in Balanced(n) /\ LabelCalls(n) \in Balanced(n)
  BY NodeTypes, EmitAllCalls, LabelCallsCalls
<1> QED
  BY <1>1, <1>2, <1>3, WhenCalls, BalancedConcat DEF TimingCalls

\* Statements that are walked token by token, and blocks.
LEMMA VisitBlockStep ==
  ASSUME IInv, VisitLeaf \/ VisitBlock
  PROVE  IInv'
<1>1. Calling("visit")
  BY DEF VisitLeaf, VisitBlock, Visiting
<1>2. /\ doc \in Documents /\ Arg \in DOMAIN doc.nodes /\ Arg \in Nat
      /\ LabelCalls(Arg) \in Balanced(Arg) /\ EmitAll(Head1(Arg)) \in Balanced(Arg)
      /\ EmitNamed(Head1(Arg)) \in Balanced(Arg)
  BY <1>1, VisitTypes
<1>3. CASE VisitLeaf
  <2>1. Continue(pr, LabelCalls(Arg) \o EmitAll(Head1(Arg)))
    BY <1>3 DEF VisitLeaf
  <2>2. LabelCalls(Arg) \o EmitAll(Head1(Arg)) \in Balanced(Arg)
    BY <1>2, BalancedConcat
  <2> QED
    BY <1>1, <2>1, <2>2, VisitIInv
<1>4. CASE VisitBlock
  <2> DEFINE calls == LabelCalls(Arg) \o EmitNamed(Head1(Arg))
                        \o <<Do("indent", 0), DoNth("blockItem", Arg, 1)>>
  <2>1. Continue(pr, calls)
    BY <1>4 DEF VisitBlock
  <2>2. Tail1(Arg) # <<>>
    BY <1>2, <1>4, HasClose DEF VisitBlock, Visiting
  <2>3. "blockItem" \in LeavingOps /\ 1 \in Nat
    BY DEF LeavingOps
  <2>4. <<Do("indent", 0), DoNth("blockItem", Arg, 1)>> \in Balanced(Arg)
    BY <1>2, <2>2, <2>3, OpenScope
  <2>5. calls \in Balanced(Arg)
    BY <1>2, <2>4, BalancedConcat
  <2> HIDE DEF calls
  <2> QED
    BY <1>1, <2>1, <2>5, VisitIInv
<1> QED
  BY <1>3, <1>4

\* Loops.
LEMMA VisitLoopStep ==
  ASSUME IInv, VisitLoop \/ VisitForLoop \/ VisitForever \/ VisitDoWhile
  PROVE  IInv'
<1> DEFINE body == Kids(Arg)[1]
<1>1. /\ Calling("visit")
      /\ Kind(Arg) \in {"LoopStatement", "ForLoopStatement", "ForeverStatement",
                        "DoWhileStatement"}
  BY DEF VisitLoop, VisitForLoop, VisitForever, VisitDoWhile, Visiting
<1>2. /\ doc \in Documents /\ Arg \in DOMAIN doc.nodes /\ Arg \in Nat
      /\ Head1(Arg) \in Seq(DOMAIN doc.toks) /\ Tail1(Arg) \in Seq(DOMAIN doc.toks)
      /\ LabelCalls(Arg) \in Balanced(Arg) /\ EmitAll(Head1(Arg)) \in Balanced(Arg)
      /\ <<>> \in Balanced(Arg)
      /\ IsWellShaped(doc.nodes[Arg], doc.nodes)
  BY <1>1, VisitTypes
<1>3. /\ Kind(Arg) \in {"LoopStatement", "ForLoopStatement"} => Len(Head1(Arg)) >= 2
      /\ Kind(Arg) = "DoWhileStatement" => Len(Tail1(Arg)) >= 2
  BY <1>2 DEF IsWellShaped, Kind, Head1, Tail1
<1>4. Kids(Arg) # <<>>
  BY <1>1, <1>2, HasBody
<1>5. body \in DOMAIN doc.nodes /\ VisitBody(body) \in Balanced(Arg)
  BY <1>2, <1>4, FirstKid
<1>6. /\ When(~IsBlock(body), Do("forceStatementBreak", First(body))) \in Balanced(Arg)
      /\ <<SpaceBefore(pr.style.SpaceAfterParens, First(body))>> \in Balanced(Arg)
      /\ <<Do("breakConditionalBody", body)>> \in Balanced(Arg)
  BY <1>2, <1>5, BreakBodyCalls
<1>7. CASE VisitLoop
  <2>1. Continue(pr, ControlCalls(Arg)) /\ Len(Head1(Arg)) >= 2
    BY <1>3, <1>7 DEF VisitLoop, Visiting
  <2>2. ControlCalls(Arg) \in Balanced(Arg)
    BY <1>2, <1>4, <2>1, ControlCallsCalls
  <2> QED
    BY <1>1, <2>1, <2>2, VisitIInv
<1>8. CASE VisitForLoop
  <2> DEFINE space == <<SpaceBefore(pr.style.SpaceAfterParens, First(body))>>
             break == When(~IsBlock(body), Do("forceStatementBreak", First(body)))
             calls == LabelCalls(Arg) \o ControlHead(Head1(Arg)) \o space \o break
                        \o VisitBody(body)
  <2>1. Continue(pr, calls) /\ Len(Head1(Arg)) >= 2
    BY <1>3, <1>8 DEF VisitForLoop, Visiting
  <2>2. ControlHead(Head1(Arg)) \in Balanced(Arg)
    BY <1>2, <2>1, ControlHeadCalls
  <2>3. space \in Balanced(Arg) /\ break \in Balanced(Arg)
    BY <1>6
  <2> HIDE DEF space, break, body
  <2>4. calls \in Balanced(Arg)
    BY <1>2, <1>5, <2>2, <2>3, BalancedConcat
  <2> HIDE DEF calls
  <2> QED
    BY <1>1, <2>1, <2>4, VisitIInv
<1>9. CASE VisitForever
  <2> DEFINE break == <<Do("breakConditionalBody", body)>>
             calls == LabelCalls(Arg) \o EmitAll(Head1(Arg)) \o break \o VisitBody(body)
  <2>1. Continue(pr, calls)
    BY <1>9 DEF VisitForever
  <2>2. break \in Balanced(Arg)
    BY <1>6
  <2> HIDE DEF break, body
  <2>3. calls \in Balanced(Arg)
    BY <1>2, <1>5, <2>2, BalancedConcat
  <2> HIDE DEF calls
  <2> QED
    BY <1>1, <2>1, <2>3, VisitIInv
<1>10. CASE VisitDoWhile
  <2> DEFINE while == Tail1(Arg)
             break == When(~IsBlock(body), Do("forceStatementBreak", First(body)))
             after == IF IsBlock(body) THEN <<>>
                      ELSE <<Do("forceStatementBreak", while[1]), Do("primary", 0)>>
             calls == LabelCalls(Arg) \o EmitAll(Head1(Arg)) \o break \o VisitBody(body)
                        \o after \o ControlHead(while)
  <2>1. Continue(pr, calls) /\ Len(while) >= 2
    BY <1>3, <1>10 DEF VisitDoWhile, Visiting
  <2>2. ControlHead(while) \in Balanced(Arg) /\ while[1] \in DOMAIN doc.toks
    BY <1>2, <2>1, ControlHeadCalls
  <2>3. Do("forceStatementBreak", while[1]) \in Flat(Arg) /\ Do("primary", 0) \in Flat(Arg)
    BY <1>2, <2>2, TokenCall, PlainCall DEF TokenOps, PlainOps
  <2>4. break \in Balanced(Arg) /\ after \in Balanced(Arg)
    BY <1>2, <1>6, <2>3, TwoFlat
  <2> HIDE DEF break, after, while, body
  <2>5. calls \in Balanced(Arg)
    BY <1>2, <1>5, <2>2, <2>4, BalancedConcat
  <2> HIDE DEF calls
  <2> QED
    BY <1>1, <2>1, <2>5, VisitIInv
<1> QED
  BY <1>7, <1>8, <1>9, <1>10

\* Conditions and timing controls.
LEMMA VisitConditionalStep ==
  ASSUME IInv, VisitConditional \/ VisitTimingControl
  PROVE  IInv'
<1>1. /\ Calling("visit")
      /\ Kind(Arg) \in {"ConditionalStatement", "TimingControlStatement"}
  BY DEF VisitConditional, VisitTimingControl, Visiting
<1>2. /\ doc \in Documents /\ Arg \in DOMAIN doc.nodes /\ Arg \in Nat
      /\ <<>> \in Balanced(Arg)
      /\ IsWellShaped(doc.nodes[Arg], doc.nodes)
  BY <1>1, VisitTypes
<1>3. Kids(Arg) # <<>>
  BY <1>1, <1>2, HasBody
<1>4. CASE VisitConditional
  <2> DEFINE more == IF Len(Kids(Arg)) = 2 THEN ElseCalls(Arg) ELSE <<>>
  <2>1. Len(Head1(Arg)) >= 2 /\ (Len(Kids(Arg)) = 2 => Tail1(Arg) # <<>>)
    BY <1>2, <1>4 DEF VisitConditional, Visiting, Kind, Head1, Kids, Tail1, IsWellShaped
  <2>2. ControlCalls(Arg) \in Balanced(Arg)
    BY <1>2, <1>3, <2>1, ControlCallsCalls
  <2>3. more \in Balanced(Arg)
    <3>1. CASE Len(Kids(Arg)) = 2
      BY <1>2, <2>1, <3>1, ElseCallsCalls
    <3>2. CASE Len(Kids(Arg)) # 2
      BY <1>2, <3>2
    <3> QED
      BY <3>1, <3>2
  <2>4. Continue(pr, ControlCalls(Arg) \o more)
    BY <1>4 DEF VisitConditional
  <2> HIDE DEF more
  <2>5. ControlCalls(Arg) \o more \in Balanced(Arg)
    BY <2>2, <2>3, BalancedConcat
  <2> QED
    BY <1>1, <2>4, <2>5, VisitIInv
<1>5. CASE VisitTimingControl
  <2> DEFINE body == Kids(Arg)[1]
             rest == IF Kind(body) = "EmptyStatement" THEN <<Do("visit", body)>>
                     ELSE VisitBody(body)
  <2>1. Continue(pr, TimingCalls(Arg) \o rest)
    BY <1>5 DEF VisitTimingControl
  <2>2. TimingCalls(Arg) \in Balanced(Arg) /\ rest \in Balanced(Arg)
    BY <1>2, <1>3, TimingCallsCalls, FirstKid
  <2> HIDE DEF rest
  <2>3. TimingCalls(Arg) \o rest \in Balanced(Arg)
    BY <2>2, BalancedConcat
  <2> QED
    BY <1>1, <2>1, <2>3, VisitIInv
<1> QED
  BY <1>4, <1>5

-----------------------------------------------------------------------------
(* Case statements. *)

\* case ( ... ) inside
LEMMA CaseHeadCalls ==
  ASSUME doc \in Documents, NEW toks \in Seq(DOMAIN doc.toks), Len(toks) >= 3,
         NEW m \in Nat
  PROVE  CaseHead(toks) \in Balanced(m)
<1> DEFINE last == toks[Len(toks)]
           end == <<SpaceBefore(pr.style.SpaceAfterParens, last), Do("emitToken", last)>>
<1>1. last \in DOMAIN doc.toks
  OBVIOUS
<1>2. Pop(toks) \in Seq(DOMAIN doc.toks) /\ Len(Pop(toks)) >= 2
  BY EmptySeq, PopProperties
<1>3. ControlHead(toks) \in Balanced(m) /\ ControlHead(Pop(toks)) \in Balanced(m)
  BY <1>2, ControlHeadCalls
<1>4. end \in Balanced(m)
  <2>1. SpaceBefore(pr.style.SpaceAfterParens, last) \in Flat(m)
    BY <1>1, SpaceBeforeCall
  <2>2. Do("emitToken", last) \in Flat(m)
    BY <1>1, TokenCall DEF TokenOps
  <2> QED
    BY <2>1, <2>2, TwoFlat
<1>5. CaseHead(toks) = ControlHead(toks) \/ CaseHead(toks) = ControlHead(Pop(toks)) \o end
  BY DEF CaseHead
<1> HIDE DEF end
<1> QED
  BY <1>3, <1>4, <1>5, BalancedConcat

\* The expressions of an item and its colon.
LEMMA CaseItemHeadCalls ==
  ASSUME doc \in Documents, NEW n \in DOMAIN doc.nodes, Head1(n) # <<>>
  PROVE  CaseItemHead(n) \in Balanced(n) /\ EmitAll(Pop(Head1(n))) \in Balanced(n)
           /\ Head1(n)[Len(Head1(n))] \in DOMAIN doc.toks
<1> DEFINE head  == Head1(n)
           colon == head[Len(head)]
           end   == <<SoftSpaceBefore(pr.style.SpaceBeforeCaseColon, colon),
                      Do("emitToken", colon)>>
<1>1. head \in Seq(DOMAIN doc.toks) /\ head # <<>> /\ n \in Nat
  BY NodeTypes
<1>2. colon \in DOMAIN doc.toks /\ Pop(head) \in Seq(DOMAIN doc.toks)
  BY <1>1, PopProperties, EmptySeq
<1>3. EmitAll(Pop(head)) \in Balanced(n)
  BY <1>1, <1>2, EmitAllCalls
<1>4. end \in Balanced(n)
  <2>1. SoftSpaceBefore(pr.style.SpaceBeforeCaseColon, colon) \in Flat(n)
    BY <1>1, <1>2, SoftSpaceBeforeCall
  <2>2. Do("emitToken", colon) \in Flat(n)
    BY <1>1, <1>2, TokenCall DEF TokenOps
  <2> QED
    BY <1>1, <2>1, <2>2, TwoFlat
<1>5. CaseItemHead(n) = EmitAll(Pop(head)) \o end
  BY DEF CaseItemHead
<1> HIDE DEF end
<1> QED
  BY <1>2, <1>3, <1>4, <1>5, BalancedConcat

\* visitCaseItemClause, and the space in front of it.
LEMMA VisitClauseCalls ==
  ASSUME doc \in Documents, NEW n \in DOMAIN doc.nodes, Kids(n) # <<>>
  PROVE  VisitClause(Kids(n)[1]) \in Balanced(n) /\ SpaceBeforeClause(n) \in Balanced(n)
<1>1. /\ First(Kids(n)[1]) \in DOMAIN doc.toks /\ Do("visit", Kids(n)[1]) \in Flat(n)
      /\ VisitBody(Kids(n)[1]) \in Balanced(n) /\ n \in Nat
  BY FirstKid
<1>2. SoftSpaceBefore(pr.style.SpaceAfterCaseColon, First(Kids(n)[1])) \in Flat(n)
  BY <1>1, SoftSpaceBeforeCall
<1>3. Do("primary", 0) \in Flat(n)
  BY <1>1, PlainCall DEF PlainOps
<1> QED
  BY <1>1, <1>2, <1>3, OneFlat, TwoFlat DEF VisitClause, SpaceBeforeClause

\* Case statements and random sequences, up to the loop over their items.
LEMMA VisitCaseStep ==
  ASSUME IInv, VisitCase \/ VisitRandCase \/ VisitRandSequence
  PROVE  IInv'
<1>1. /\ Calling("visit")
      /\ Kind(Arg) \in {"CaseStatement", "RandCaseStatement", "RandSequenceStatement"}
  BY DEF VisitCase, VisitRandCase, VisitRandSequence, Visiting
<1>2. /\ doc \in Documents /\ Arg \in DOMAIN doc.nodes /\ Arg \in Nat
      /\ Head1(Arg) \in Seq(DOMAIN doc.toks)
      /\ LabelCalls(Arg) \in Balanced(Arg) /\ EmitAll(Head1(Arg)) \in Balanced(Arg)
      /\ <<>> \in Balanced(Arg)
      /\ IsWellShaped(doc.nodes[Arg], doc.nodes)
  BY <1>1, VisitTypes
<1>3. Tail1(Arg) # <<>>
  BY <1>1, <1>2, HasClose DEF ScopeKinds
<1>4. OpenMembers(Arg) \in Balanced(Arg)
  BY <1>1, <1>2, <1>3, OpenMembersCalls
<1>5. CASE VisitCase
  <2>1. Continue(pr, LabelCalls(Arg) \o CaseHead(Head1(Arg)) \o OpenMembers(Arg))
    BY <1>5 DEF VisitCase
  <2>2. Len(Head1(Arg)) >= 3
    BY <1>2, <1>5 DEF VisitCase, Visiting, Kind, Head1, IsWellShaped
  <2>3. CaseHead(Head1(Arg)) \in Balanced(Arg)
    BY <1>2, <2>2, CaseHeadCalls
  <2>4. LabelCalls(Arg) \o CaseHead(Head1(Arg)) \o OpenMembers(Arg) \in Balanced(Arg)
    BY <1>2, <1>4, <2>3, BalancedConcat
  <2> QED
    BY <1>1, <2>1, <2>4, VisitIInv
<1>6. CASE VisitRandCase \/ VisitRandSequence
  <2>1. Continue(pr, LabelCalls(Arg) \o EmitAll(Head1(Arg)) \o OpenMembers(Arg))
    BY <1>6 DEF VisitRandCase, VisitRandSequence
  <2>2. LabelCalls(Arg) \o EmitAll(Head1(Arg)) \o OpenMembers(Arg) \in Balanced(Arg)
    BY <1>2, <1>4, BalancedConcat
  <2> QED
    BY <1>1, <2>1, <2>2, VisitIInv
<1> QED
  BY <1>5, <1>6

\* The items of a case statement.
LEMMA VisitCaseItemStep ==
  ASSUME IInv, VisitCaseItem \/ VisitDefaultCaseItem \/ VisitRandCaseItem
  PROVE  IInv'
<1> DEFINE clause == Kids(Arg)[1]
<1>1. Calling("visit") /\ Kind(Arg) \in CaseItemKinds
  BY DEF VisitCaseItem, VisitDefaultCaseItem, VisitRandCaseItem, Visiting, CaseItemKinds
<1>2. /\ doc \in Documents /\ Arg \in DOMAIN doc.nodes /\ Arg \in Nat
      /\ <<>> \in Balanced(Arg)
      /\ IsWellShaped(doc.nodes[Arg], doc.nodes)
  BY <1>1, VisitTypes
<1>3. Kids(Arg) # <<>> /\ Head1(Arg) # <<>>
  BY <1>1, <1>2, HasBody DEF IsWellShaped, Kind, Head1
<1>4. /\ CaseItemHead(Arg) \in Balanced(Arg)
      /\ VisitClause(clause) \in Balanced(Arg) /\ SpaceBeforeClause(Arg) \in Balanced(Arg)
      /\ <<Do("visit", clause)>> \in Balanced(Arg)
  BY <1>2, <1>3, CaseItemHeadCalls, VisitClauseCalls, FirstKid
<1>5. CASE VisitCaseItem
  <2>1. Continue(Primary(pr),
                 CaseItemHead(Arg) \o SpaceBeforeClause(Arg) \o VisitClause(clause))
    BY <1>5 DEF VisitCaseItem
  <2> HIDE DEF clause
  <2>2. CaseItemHead(Arg) \o SpaceBeforeClause(Arg) \o VisitClause(clause) \in Balanced(Arg)
    BY <1>4, BalancedConcat
  <2> QED
    BY <1>1, <2>1, <2>2, VisitIInv
<1>6. CASE VisitDefaultCaseItem
  <2> DEFINE space == IF Kind(clause) = "GenerateBlock" THEN <<Do("freshLine", 0)>>
                      ELSE SpaceBeforeClause(Arg)
  <2>1. Continue(Primary(pr), CaseItemHead(Arg) \o space \o VisitClause(clause))
    BY <1>6 DEF VisitDefaultCaseItem
  <2>2. Do("freshLine", 0) \in Flat(Arg)
    BY <1>2, PlainCall DEF PlainOps
  <2>3. space \in Balanced(Arg)
    BY <1>2, <1>4, <2>2, OneFlat
  <2> HIDE DEF space, clause
  <2>4. CaseItemHead(Arg) \o space \o VisitClause(clause) \in Balanced(Arg)
    BY <1>4, <2>3, BalancedConcat
  <2> QED
    BY <1>1, <2>1, <2>4, VisitIInv
<1>7. CASE VisitRandCaseItem
  <2> DEFINE visit == <<Do("visit", clause)>>
  <2>1. Continue(pr, CaseItemHead(Arg) \o SpaceBeforeClause(Arg) \o visit)
    BY <1>7 DEF VisitRandCaseItem
  <2>2. visit \in Balanced(Arg)
    BY <1>4
  <2> HIDE DEF visit
  <2>3. CaseItemHead(Arg) \o SpaceBeforeClause(Arg) \o visit \in Balanced(Arg)
    BY <1>4, <2>2, BalancedConcat
  <2> QED
    BY <1>1, <2>1, <2>3, VisitIInv
<1> QED
  BY <1>5, <1>6, <1>7

-----------------------------------------------------------------------------
(* Assertions. *)

\* The calls of an assertion; break says whether its label may be set apart.
LEMMA AssertionCallsCalls ==
  ASSUME doc \in Documents, NEW n \in DOMAIN doc.nodes, NEW break,
         Tail1(n) # <<>> => Kids(n) # <<>>
  PROVE  AssertionCalls(n, break) \in Balanced(n)
<1> DEFINE fresh == When(Label(n) # <<>> /\ pr.style.BreakAfterAssertionLabel /\ break,
                         Do("freshLine", 0))
<1>1. /\ Kids(n) \in Seq(DOMAIN doc.nodes) /\ n \in Nat
      /\ Tail1(n) \in Seq(DOMAIN doc.toks) /\ Head1(n) \in Seq(DOMAIN doc.toks)
  BY NodeTypes
<1>2. PassActions(n) \in Balanced(n)
  BY VisitKids DEF PassActions
<1>3. ElseAction(n) \in Balanced(n)
  <2>1. CASE Tail1(n) # <<>>
    <3> DEFINE last == Len(Kids(n))
    <3>1. Tail1(n)[1] \in DOMAIN doc.toks
      BY <1>1, <2>1, EmptySeq
    <3>2. last \in DOMAIN Kids(n)
      BY <1>1, <2>1, EmptySeq
    <3>3. Do("primary", 0) \in Flat(n)
      BY <1>1, PlainCall DEF PlainOps
    <3>4. Do("emitToken", Tail1(n)[1]) \in Flat(n)
      BY <1>1, <3>1, TokenCall DEF TokenOps
    <3>5. Do("visit", Kids(n)[last]) \in Flat(n)
      BY <3>2, KidCalls
    <3>6. ElseAction(n) \in Seq(Flat(n))
      BY <2>1, <3>3, <3>4, <3>5 DEF ElseAction
    <3> QED
      BY <1>1, <3>6, FlatBalanced
  <2>2. CASE Tail1(n) = <<>>
    BY <1>1, <2>2, NoneBalanced DEF ElseAction
  <2> QED
    BY <2>1, <2>2
<1>4. LabelCalls(n) \in Balanced(n) /\ EmitAll(Head1(n)) \in Balanced(n)
  BY <1>1, LabelCallsCalls, EmitAllCalls
<1>5. fresh \in Balanced(n)
  BY <1>1, PlainCall, WhenCalls DEF PlainOps
<1>6. AssertionCalls(n, break) =
        LabelCalls(n) \o fresh \o EmitAll(Head1(n)) \o PassActions(n) \o ElseAction(n)
  BY DEF AssertionCalls
<1> HIDE DEF fresh
<1> QED
  BY <1>2, <1>3, <1>4, <1>5, <1>6, BalancedConcat

\* Assertions.
LEMMA VisitAssertionStep ==
  ASSUME IInv, VisitAssertion
  PROVE  IInv'
<1>1. /\ Calling("visit")
      /\ Kind(Arg) \in {"ConcurrentAssertionStatement", "ImmediateAssertionStatement"}
  BY DEF VisitAssertion, Visiting
<1>2. /\ doc \in Documents /\ Arg \in DOMAIN doc.nodes /\ Arg \in Nat
      /\ <<>> \in Balanced(Arg)
      /\ IsWellShaped(doc.nodes[Arg], doc.nodes)
  BY <1>1, VisitTypes
<1>3. Tail1(Arg) # <<>> => Kids(Arg) # <<>>
  BY <1>1, <1>2 DEF IsWellShaped, Kind, Kids, Tail1
<1>4. /\ AssertionCalls(Arg, TRUE) \in Balanced(Arg)
      /\ AssertionCalls(Arg, Tail1(Arg) # <<>>) \in Balanced(Arg)
  BY <1>2, <1>3, AssertionCallsCalls
<1>5. \/ Continue(pr, AssertionCalls(Arg, TRUE))
      \/ Continue(pr, AssertionCalls(Arg, Tail1(Arg) # <<>>))
  BY DEF VisitAssertion
<1> QED
  BY <1>1, <1>4, <1>5, VisitIInv

-----------------------------------------------------------------------------
(* Random sequences. *)

\* Productions and their case items, and the case itself.
LEMMA VisitProductionStep ==
  ASSUME IInv, VisitProduction \/ VisitRsCase
  PROVE  IInv'
<1>1. Calling("visit") /\ Kind(Arg) \in {"Production", "RsCaseItem", "RsCase"}
  BY DEF VisitProduction, VisitRsCase, Visiting
<1>2. /\ doc \in Documents /\ Arg \in DOMAIN doc.nodes /\ Arg \in Nat
      /\ EmitAll(Head1(Arg)) \in Balanced(Arg)
      /\ IsWellShaped(doc.nodes[Arg], doc.nodes)
  BY <1>1, VisitTypes
<1>3. Tail1(Arg) # <<>>
  BY <1>1, <1>2, HasClose
<1>4. CASE VisitProduction
  <2> DEFINE colon == Head1(Arg)[Len(Head1(Arg))]
             rest == <<Do("ensureSingleSpace", 0), Do("emitToken", colon),
                       Do("ensureSpace", 0), DoNth("plainPort", Arg, 1)>>
  <2>1. Continue(pr, EmitAll(Pop(Head1(Arg))) \o rest)
    BY <1>4 DEF VisitProduction
  <2>2. Kind(Arg) \in {"Production", "RsCaseItem"}
    BY <1>4 DEF VisitProduction, Visiting
  <2>3. Head1(Arg) # <<>>
    BY <1>2, <2>2 DEF IsWellShaped, Kind, Head1
  <2>4. EmitAll(Pop(Head1(Arg))) \in Balanced(Arg) /\ colon \in DOMAIN doc.toks
    BY <1>2, <2>3, CaseItemHeadCalls
  <2>5. /\ Do("ensureSingleSpace", 0) \in Flat(Arg) /\ Do("ensureSpace", 0) \in Flat(Arg)
        /\ Do("emitToken", colon) \in Flat(Arg)
    BY <1>2, <2>4, PlainCall, TokenCall DEF TokenOps, PlainOps
  <2>6. DoNth("plainPort", Arg, 1) \in Flat(Arg)
    <3>1. "plainPort" \in StayingOps /\ 1 \in Nat
      BY DEF StayingOps
    <3> QED
      BY <1>2, <1>3, <3>1, StayingCall
  <2>7. rest \in Seq(Flat(Arg))
    BY <2>5, <2>6
  <2> HIDE DEF rest
  <2>8. EmitAll(Pop(Head1(Arg))) \o rest \in Balanced(Arg)
    BY <1>2, <2>4, <2>7, FlatBalanced, BalancedConcat
  <2> QED
    BY <1>1, <2>1, <2>8, VisitIInv
<1>5. CASE VisitRsCase
  <2> DEFINE open == <<Do("indent", 0), DoNth("rsItem", Arg, 1)>>
  <2>1. Continue(pr, EmitAll(Head1(Arg)) \o open)
    BY <1>5 DEF VisitRsCase
  <2>2. "rsItem" \in LeavingOps /\ 1 \in Nat
    BY DEF LeavingOps
  <2>3. open \in Balanced(Arg)
    BY <1>2, <1>3, <2>2, OpenScope
  <2> HIDE DEF open
  <2>4. EmitAll(Head1(Arg)) \o open \in Balanced(Arg)
    BY <1>2, <2>3, BalancedConcat
  <2> QED
    BY <1>1, <2>1, <2>4, VisitIInv
<1> QED
  BY <1>4, <1>5

-----------------------------------------------------------------------------
(* The loops over the items of statements. *)

\* The items of a block and of a case in a random sequence, and the end of a
\* scope.
LEMMA ItemLoopStep ==
  ASSUME IInv, NextBlockItem \/ NextRsItem \/ CloseScope
  PROVE  IInv'
<1>1. Safe(pr) /\ Steady(pr) /\ doc \in Documents
  BY SteadyNow DEF IInv
<1>2. /\ Steady(ForceNewline(pr)) /\ Steady(Primary(pr))
      /\ Steady(Primary(ForceNewline(pr)))
  BY <1>1, SteadyLayout, SteadyFlags
<1> DEFINE i == Head(work).i
           next(op) == <<Do("visit", Kids(Arg)[i]), DoNth(op, Arg, i + 1)>>
           end == <<Do("emitEndTokenTrivia", CloseToken(Arg)), Do("closeScope", Arg)>>
<1>3. CASE NextBlockItem
  <2> DEFINE item == Kids(Arg)[i]
             tok == First(item)
             p == IF i > 1 THEN BreakStatement(tok)
                  ELSE IF pr.style.BreakAfterBegin /\ ~HasLeadingNewline(Tok(tok))
                  THEN ForceNewline(pr) ELSE pr
  <2>1. /\ work # <<>> /\ Head(work).op = "blockItem" /\ "blockItem" \in LeavingOps
        /\ Leaves(doc, Head(work))
    BY <1>3 DEF NextBlockItem, Calling, Leaves, LeavingOps
  <2>2. Arg \in DOMAIN doc.nodes /\ Tail1(Arg) # <<>> /\ i \in Nat
    BY <2>1, CallTypes DEF NodeOps, ClosingOps
  <2>3. CASE i \in DOMAIN Kids(Arg)
    <3>1. Continue(Primary(p), next("blockItem"))
      BY <1>3, <2>3 DEF NextBlockItem
    <3>2. Steady(p)
      BY <1>1, <1>2, SteadyNow
    <3> HIDE DEF p
    <3>3. Steady(Primary(p))
      BY <3>2, SteadyFlags
    <3>4. next("blockItem") \in Closing(Arg)
      BY <1>1, <2>1, <2>2, <2>3, VisitKid
    <3> HIDE DEF next
    <3> QED
      BY <2>1, <3>1, <3>3, <3>4, LeaveContinue
  <2>4. CASE i \notin DOMAIN Kids(Arg)
    <3>1. Continue(Primary(pr), end)
      BY <1>3, <2>4 DEF NextBlockItem
    <3>2. end \in Closing(Arg)
      BY <1>1, <2>2, EndScope
    <3> HIDE DEF end
    <3> QED
      BY <1>2, <2>1, <3>1, <3>2, LeaveContinue
  <2> QED
    BY <2>3, <2>4
<1>4. CASE NextRsItem
  <2>1. /\ work # <<>> /\ Head(work).op = "rsItem" /\ "rsItem" \in LeavingOps
        /\ Leaves(doc, Head(work))
    BY <1>4 DEF NextRsItem, Calling, Leaves, LeavingOps
  <2>2. Arg \in DOMAIN doc.nodes /\ Tail1(Arg) # <<>> /\ i \in Nat
    BY <2>1, CallTypes DEF NodeOps, ClosingOps
  <2>3. ASSUME NEW tok
        PROVE  BreakItem(tok) = pr \/ BreakItem(tok) = ForceNewline(pr)
    BY DEF BreakItem
  <2>4. CASE i \in DOMAIN Kids(Arg)
    <3>1. \/ Continue(Primary(pr), next("rsItem"))
          \/ Continue(Primary(ForceNewline(pr)), next("rsItem"))
      BY <1>4, <2>3, <2>4 DEF NextRsItem
    <3>2. next("rsItem") \in Closing(Arg)
      BY <1>1, <2>1, <2>2, <2>4, VisitKid
    <3> HIDE DEF next
    <3> QED
      BY <1>2, <2>1, <3>1, <3>2, LeaveContinue
  <2>5. CASE i \notin DOMAIN Kids(Arg)
    <3>1. Continue(Primary(pr), end) \/ Continue(Primary(ForceNewline(pr)), end)
      BY <1>4, <2>3, <2>5 DEF NextRsItem
    <3>2. end \in Closing(Arg)
      BY <1>1, <2>2, EndScope
    <3> HIDE DEF end
    <3> QED
      BY <1>2, <2>1, <3>1, <3>2, LeaveContinue
  <2> QED
    BY <2>4, <2>5
<1>5. CASE CloseScope
  <2> DEFINE d == Dedent(pr)
  <2>1. work # <<>> /\ Head(work).op = "closeScope" /\ Leaves(doc, Head(work))
    BY <1>5 DEF CloseScope, Calling, Leaves, LeavingOps
  <2>2. Arg \in DOMAIN doc.nodes
    BY <2>1, CallTypes DEF NodeOps
  <2>3. \/ Continue(Primary(d), EmitNamed(Tail1(Arg)))
        \/ Continue(Primary(ForceNewline(d)), EmitNamed(Tail1(Arg)))
    BY <1>5 DEF CloseScope
  <2>4. Safe(d) /\ (Tidy(pr) => Tidy(d))
    BY <1>1, DepthSafe, FlagsTidy
  <2> HIDE DEF d
  <2>5. Safe(Primary(d)) /\ Safe(ForceNewline(d)) /\ Safe(Primary(ForceNewline(d)))
    BY <2>4, HandlerFlags, ForceNewlineSafe DEF Safe
  <2>6. Primary(d).depth = d.depth /\ Primary(ForceNewline(d)).depth = d.depth
    <3>1. HasDepth(d) /\ HasDepth(ForceNewline(d))
      BY <2>4, <2>5, PrinterHasDepth
    <3>2. ForceNewline(d).depth = d.depth
      BY <3>1, SpacesKeepDepth DEF KeepsDepth
    <3> QED
      BY <3>1, <3>2 DEF Primary, HasDepth
  <2>7. EmitNamed(Tail1(Arg)) \in Balanced(0) /\ Arg \in Nat
    BY <1>1, <2>2, NodeTypes, EmitNamedCalls
  <2>8. Tidy(pr) => Tidy(Primary(d)) /\ Tidy(Primary(ForceNewline(d)))
    BY <2>4, FlagsTidy, SpacesTidy
  <2> QED
    BY <2>1, <2>3, <2>5, <2>6, <2>7, <2>8, ClosedContinue DEF d
<1> QED
  BY <1>3, <1>4, <1>5

-----------------------------------------------------------------------------
(***************************************************************************)
(* Handlers of members, classes and constraints.                           *)
(***************************************************************************)

(* Scopes. *)

\* The handlers that end in visitMembers.
LEMMA ScopeCalls ==
  ASSUME doc \in Documents, NEW n \in DOMAIN doc.nodes, Tail1(n) # <<>>,
         Kind(n) # "CompilationUnit"
  PROVE  Scope(n) \in Balanced(n)
<1>1. LabelCalls(n) \in Balanced(n) /\ EmitNamed(Head1(n)) \in Balanced(n)
  BY NodeTypes, LabelCallsCalls, EmitNamedCalls
<1>2. VisitHeaderOf(n) \in Balanced(n) /\ OpenMembers(n) \in Balanced(n)
  BY VisitHeaderOfCalls, OpenMembersCalls
<1> QED
  BY <1>1, <1>2, BalancedConcat DEF Scope

\* The handlers that do nothing else, and those that may set the declaration
\* apart.
LEMMA VisitScopeStep ==
  ASSUME IInv,
         \/ VisitClass \/ VisitChecker \/ VisitClocking \/ VisitConfig
         \/ VisitCovergroup \/ VisitProperty \/ VisitSequence
         \/ VisitGenerateBlock \/ VisitGenerateRegion
         \/ VisitFunction \/ VisitSpecify
  PROVE  IInv'
<1> DEFINE blank(cond) == When(cond, Do("insertBlankLineBefore", First(Arg)))
<1>1. Calling("visit") /\ Kind(Arg) \in ScopeKinds
  BY DEF VisitClass, VisitChecker, VisitClocking, VisitConfig, VisitCovergroup,
         VisitProperty, VisitSequence, VisitGenerateBlock, VisitGenerateRegion,
         VisitFunction, VisitSpecify, Visiting, ScopeKinds
<1>2. /\ doc \in Documents /\ Arg \in DOMAIN doc.nodes /\ Arg \in Nat
      /\ First(Arg) \in DOMAIN doc.toks
  BY <1>1, VisitTypes
<1>3. Scope(Arg) \in Balanced(Arg)
  BY <1>1, <1>2, HasClose, ScopeCalls DEF ScopeKinds
<1>4. ASSUME NEW cond
      PROVE  blank(cond) \o Scope(Arg) \in Balanced(Arg)
  <2>1. Do("insertBlankLineBefore", First(Arg)) \in Flat(Arg)
    BY <1>2, TokenCall DEF TokenOps
  <2>2. blank(cond) \in Balanced(Arg)
    BY <1>2, <2>1, WhenCalls
  <2> QED
    BY <1>3, <2>2, BalancedConcat
<1>5. \/ Continue(pr, Scope(Arg))
      \/ Continue(pr, blank(BreaksBefore(Arg)) \o Scope(Arg))
      \/ Continue(pr, blank(pr.style.BreakBeforeSpecifyBlock) \o Scope(Arg))
  BY DEF VisitClass, VisitChecker, VisitClocking, VisitConfig, VisitCovergroup,
         VisitProperty, VisitSequence, VisitGenerateBlock, VisitGenerateRegion,
         VisitFunction, VisitSpecify
<1> HIDE DEF blank
<1> QED
  BY <1>1, <1>3, <1>4, <1>5, VisitIInv

\* Modules and compilation units.
LEMMA VisitModuleStep ==
  ASSUME IInv, VisitModule \/ VisitCompilationUnit
  PROVE  IInv'
<1>1. Calling("visit")
  BY DEF VisitModule, VisitCompilationUnit, Visiting
<1>2. /\ doc \in Documents /\ Arg \in DOMAIN doc.nodes /\ Arg \in Nat
      /\ EmitAll(Head1(Arg)) \in Balanced(Arg)
  BY <1>1, VisitTypes
<1>3. CASE VisitModule
  <2> DEFINE open == <<Do("indent", 0), DoNth("moduleMember", Arg, FirstMember(Arg))>>
             calls == EmitAll(Head1(Arg)) \o VisitHeaderOf(Arg) \o open
  <2>1. Continue(Primary(pr), calls)
    BY <1>3 DEF VisitModule
  <2>2. Tail1(Arg) # <<>>
    BY <1>2, <1>3, HasClose DEF VisitModule, Visiting
  <2>3. "moduleMember" \in LeavingOps
    BY DEF LeavingOps
  <2>4. VisitHeaderOf(Arg) \in Balanced(Arg) /\ FirstMember(Arg) \in Nat
    BY <1>2, VisitHeaderOfCalls
  <2>5. open \in Balanced(Arg)
    BY <1>2, <2>2, <2>3, <2>4, OpenScope
  <2> HIDE DEF open
  <2>6. calls \in Balanced(Arg)
    BY <1>2, <2>4, <2>5, BalancedConcat
  <2> HIDE DEF calls
  <2> QED
    BY <1>1, <2>1, <2>6, VisitIInv
<1>4. CASE VisitCompilationUnit
  <2>1. Continue(pr, <<DoNth("member", Arg, 1)>>)
    BY <1>4 DEF VisitCompilationUnit
  <2>2. Kind(Arg) = "CompilationUnit" /\ 1 \in Nat
    BY <1>4 DEF VisitCompilationUnit, Visiting
  <2>3. <<DoNth("member", Arg, 1)>> \in Balanced(Arg)
    BY <1>2, <2>2, UnitCall, OneFlat
  <2> QED
    BY <1>1, <2>1, <2>3, VisitIInv
<1> QED
  BY <1>3, <1>4

\* Generate constructs.
LEMMA VisitGenerateStep ==
  ASSUME IInv, VisitCaseGenerate \/ VisitIfGenerate \/ VisitLoopGenerate
  PROVE  IInv'
<1> DEFINE visit == <<Do("visit", Kids(Arg)[1])>>
<1>1. Calling("visit") /\ Kind(Arg) \in {"CaseGenerate", "IfGenerate", "LoopGenerate"}
  BY DEF VisitCaseGenerate, VisitIfGenerate, VisitLoopGenerate, Visiting
<1>2. /\ doc \in Documents /\ Arg \in DOMAIN doc.nodes /\ Arg \in Nat
      /\ Head1(Arg) \in Seq(DOMAIN doc.toks) /\ Tail1(Arg) \in Seq(DOMAIN doc.toks)
      /\ Kids(Arg) \in Seq(DOMAIN doc.nodes)
      /\ <<>> \in Balanced(Arg)
      /\ IsWellShaped(doc.nodes[Arg], doc.nodes)
  BY <1>1, VisitTypes
<1>3. Len(Head1(Arg)) >= 2
  BY <1>1, <1>2 DEF IsWellShaped, Kind, Head1
<1>4. ControlHead(Head1(Arg)) \in Balanced(Arg)
  BY <1>2, <1>3, ControlHeadCalls
<1>5. Kind(Arg) # "CaseGenerate" => visit \in Balanced(Arg)
  BY <1>1, <1>2, HasBody, FirstKid
<1>6. CASE VisitCaseGenerate
  <2>1. Continue(pr, ControlHead(Head1(Arg)) \o OpenMembers(Arg))
    BY <1>6 DEF VisitCaseGenerate
  <2>2. Tail1(Arg) # <<>>
    BY <1>2, <1>6, HasClose DEF VisitCaseGenerate, Visiting, ScopeKinds
  <2>3. ControlHead(Head1(Arg)) \o OpenMembers(Arg) \in Balanced(Arg)
    BY <1>1, <1>2, <1>4, <2>2, OpenMembersCalls, BalancedConcat
  <2> QED
    BY <1>1, <2>1, <2>3, VisitIInv
<1>7. CASE VisitIfGenerate
  <2> DEFINE two  == Len(Kids(Arg)) = 2
             else == IF two
                     THEN <<Do("primary", 0), Do("emitToken", Tail1(Arg)[1]),
                            Do("visit", Kids(Arg)[2])>>
                     ELSE <<>>
  <2>1. Continue(pr, ControlHead(Head1(Arg)) \o visit \o else)
        /\ Kind(Arg) = "IfGenerate"
    BY <1>7 DEF VisitIfGenerate, Visiting
  <2>2. two => Tail1(Arg) # <<>>
    BY <1>2, <2>1 DEF IsWellShaped, Kind, Kids, Tail1
  <2>3. else \in Balanced(Arg)
    <3>1. CASE two
      <4>1. Tail1(Arg)[1] \in DOMAIN doc.toks
        BY <1>2, <2>2, <3>1, EmptySeq
      <4>2. 2 \in DOMAIN Kids(Arg)
        BY <1>2, <3>1
      <4>3. Do("visit", Kids(Arg)[2]) \in Flat(Arg)
        BY <1>2, <4>2, KidCalls
      <4>4. Do("primary", 0) \in Flat(Arg)
        BY <1>2, PlainCall DEF PlainOps
      <4>5. Do("emitToken", Tail1(Arg)[1]) \in Flat(Arg)
        BY <1>2, <4>1, TokenCall DEF TokenOps
      <4>6. else \in Seq(Flat(Arg))
        BY <3>1, <4>3, <4>4, <4>5
      <4> QED
        BY <1>2, <4>6, FlatBalanced
    <3>2. CASE ~two
      BY <1>2, <3>2
    <3> QED
      BY <3>1, <3>2
  <2>4. visit \in Balanced(Arg)
    BY <1>5, <2>1
  <2> HIDE DEF else, visit
  <2>5. ControlHead(Head1(Arg)) \o visit \o else \in Balanced(Arg)
    BY <1>4, <2>3, <2>4, BalancedConcat
  <2> QED
    BY <1>1, <2>1, <2>5, VisitIInv
<1>8. CASE VisitLoopGenerate
  <2>1. Continue(pr, ControlHead(Head1(Arg)) \o visit) /\ Kind(Arg) = "LoopGenerate"
    BY <1>8 DEF VisitLoopGenerate, Visiting
  <2>2. visit \in Balanced(Arg)
    BY <1>5, <2>1
  <2> HIDE DEF visit
  <2>3. ControlHead(Head1(Arg)) \o visit \in Balanced(Arg)
    BY <1>4, <2>2, BalancedConcat
  <2> QED
    BY <1>1, <2>1, <2>3, VisitIInv
<1> QED
  BY <1>6, <1>7, <1>8

-----------------------------------------------------------------------------
(* Procedures, time units. *)

\* visitProceduralBody
LEMMA ProceduralBodyCalls ==
  ASSUME doc \in Documents, NEW stmt \in DOMAIN doc.nodes, NEW breakAfter,
         NEW m \in Nat, stmt < m
  PROVE  ProceduralBody(stmt, breakAfter) \in Balanced(m)
<1> DEFINE timed  == Kind(stmt) = "TimingControlStatement"
           body   == IF timed THEN Kids(stmt)[1] ELSE stmt
           timing == IF timed THEN TimingCalls(stmt) ELSE <<>>
           break  == IF ShouldBreakAfterProcedural(breakAfter, body)
                     THEN <<Do("forceNewline", 0), Do("primary", 0)>> ELSE <<>>
<1>1. stmt \in Nat /\ stmt <= m /\ <<>> \in Balanced(m)
  BY NodeTypes, NoneBalanced
<1>2. timed => /\ Kids(stmt) # <<>>
               /\ Kids(stmt)[1] \in DOMAIN doc.nodes /\ Kids(stmt)[1] < stmt
  BY HasBody, FirstKid
<1>3. body \in DOMAIN doc.nodes /\ body < m
  <2>1. CASE timed
    <3>1. Kids(stmt)[1] \in Nat
      BY <1>2, <2>1, NodeTypes
    <3> QED
      BY <1>1, <1>2, <2>1, <3>1
  <2>2. CASE ~timed
    BY <2>2
  <2> QED
    BY <2>1, <2>2
<1>4. timing \in Balanced(m)
  BY <1>1, <1>2, TimingCallsCalls, BalancedBelow
<1>5. Do("primary", 0) \in Flat(m) /\ Do("forceNewline", 0) \in Flat(m)
  BY PlainCall DEF PlainOps
<1>6. break \in Balanced(m)
  BY <1>1, <1>5, TwoFlat
<1>7. VisitBody(body) \in Balanced(m)
  BY <1>3, VisitBodyCalls
<1>8. ProceduralBody(stmt, breakAfter) = timing \o break \o VisitBody(body)
  BY DEF ProceduralBody
<1> HIDE DEF timing, break, body
<1> QED
  BY <1>4, <1>6, <1>7, <1>8, BalancedConcat

\* Procedures.
LEMMA VisitProceduralStep ==
  ASSUME IInv, VisitProceduralBlock \/ VisitInitialBlock
  PROVE  IInv'
<1> DEFINE stmt  == Kids(Arg)[1]
           blank(option) == When(ShouldBreakBeforeProcedural(option, TimedBody(stmt)),
                                 Do("insertBlankLineBefore", First(Arg)))
           first == <<Do("primary", 0)>>
<1>1. Calling("visit") /\ Kind(Arg) \in ProcedureKinds
  BY DEF VisitProceduralBlock, VisitInitialBlock, Visiting, ProcedureKinds
<1>2. /\ doc \in Documents /\ Arg \in DOMAIN doc.nodes /\ Arg \in Nat
      /\ First(Arg) \in DOMAIN doc.toks
      /\ EmitAll(Head1(Arg)) \in Balanced(Arg)
  BY <1>1, VisitTypes
<1>3. stmt \in DOMAIN doc.nodes /\ stmt < Arg /\ First(stmt) \in DOMAIN doc.toks
  BY <1>1, <1>2, HasBody, FirstKid
<1>4. Do("insertBlankLineBefore", First(Arg)) \in Flat(Arg)
  BY <1>2, TokenCall DEF TokenOps
<1>5. ASSUME NEW option
      PROVE  blank(option) \in Balanced(Arg) /\ ProceduralBody(stmt, option) \in Balanced(Arg)
  BY <1>2, <1>3, <1>4, WhenCalls, ProceduralBodyCalls
<1>6. first \in Balanced(Arg)
  BY <1>2, PlainCall, OneFlat DEF PlainOps
<1>7. CASE VisitProceduralBlock
  <2> DEFINE before == blank(pr.style.BreakBeforeAlways)
             line   == When(Kind(stmt) = "TimingControlStatement", Do("timingControlLine", 0))
             space  == <<SpaceBefore(pr.style.SpaceAfterAlways, First(stmt))>>
             body   == ProceduralBody(stmt, pr.style.BreakAfterAlways)
  <2>1. Continue(pr, before \o line \o first \o EmitAll(Head1(Arg)) \o space \o body)
    BY <1>7 DEF VisitProceduralBlock
  <2>2. line \in Balanced(Arg)
    BY <1>2, PlainCall, WhenCalls DEF PlainOps
  <2>3. space \in Balanced(Arg)
    BY <1>2, <1>3, SpaceBeforeCall, OneFlat
  <2>4. before \in Balanced(Arg) /\ body \in Balanced(Arg)
    BY <1>5
  <2> HIDE DEF before, line, first, space, body
  <2>5. before \o line \o first \o EmitAll(Head1(Arg)) \o space \o body \in Balanced(Arg)
    BY <1>2, <1>6, <2>2, <2>3, <2>4, BalancedConcat
  <2> QED
    BY <1>1, <2>1, <2>5, VisitIInv
<1>8. CASE VisitInitialBlock
  <2> DEFINE before == blank(pr.style.BreakBeforeInitial)
             body   == ProceduralBody(stmt, pr.style.BreakAfterInitial)
  <2>1. Continue(pr, before \o first \o EmitAll(Head1(Arg)) \o body)
    BY <1>8 DEF VisitInitialBlock
  <2>2. before \in Balanced(Arg) /\ body \in Balanced(Arg)
    BY <1>5
  <2> HIDE DEF before, first, body
  <2>3. before \o first \o EmitAll(Head1(Arg)) \o body \in Balanced(Arg)
    BY <1>2, <1>6, <2>2, BalancedConcat
  <2> QED
    BY <1>1, <2>1, <2>3, VisitIInv
<1> QED
  BY <1>7, <1>8

\* Time units.
LEMMA VisitTimeUnitsStep ==
  ASSUME IInv, VisitTimeUnits
  PROVE  IInv'
<1> DEFINE line == <<Do("declarationLine", 0)>>
<1>1. Calling("visit") /\ Continue(pr, line \o EmitAll(Head1(Arg)))
  BY DEF VisitTimeUnits, Visiting
<1>2. EmitAll(Head1(Arg)) \in Balanced(Arg) /\ Arg \in Nat
  BY <1>1, VisitTypes
<1>3. line \in Balanced(Arg)
  BY <1>2, PlainCall, OneFlat DEF PlainOps
<1> HIDE DEF line
<1>4. line \o EmitAll(Head1(Arg)) \in Balanced(Arg)
  BY <1>2, <1>3, BalancedConcat
<1> QED
  BY <1>1, <1>4, VisitIInv

-----------------------------------------------------------------------------
(* Constraints, and the loops over members. *)

\* Constraints.
LEMMA VisitConstraintStep ==
  ASSUME IInv, VisitConstraint \/ VisitConstraintBlock
  PROVE  IInv'
<1>1. Calling("visit")
  BY DEF VisitConstraint, VisitConstraintBlock, Visiting
<1>2. /\ work # <<>> /\ doc \in Documents
      /\ Arg \in DOMAIN doc.nodes /\ Arg \in Nat
      /\ Kids(Arg) \in Seq(DOMAIN doc.nodes)
      /\ EmitAll(Head1(Arg)) \in Balanced(Arg)
      /\ IsWellShaped(doc.nodes[Arg], doc.nodes)
  BY <1>1, VisitTypes
<1>3. CASE VisitConstraint
  <2>1. Kids(Arg) # <<>>
    BY <1>2, <1>3, HasBody DEF VisitConstraint, Visiting
  <2>2. <<Do("visit", Kids(Arg)[1])>> \in Balanced(Arg)
    BY <1>2, <2>1, FirstKid
  <2>3. EmitAll(Head1(Arg)) \o <<Do("visit", Kids(Arg)[1])>> \in Balanced(Arg)
    BY <1>2, <2>2, BalancedConcat
  <2>4. Continue(pr, EmitAll(Head1(Arg)) \o <<Do("visit", Kids(Arg)[1])>>)
    BY <1>3 DEF VisitConstraint
  <2> QED
    BY <1>1, <2>3, <2>4, VisitIInv
<1>4. CASE VisitConstraintBlock
  <2> DEFINE item  == Kids(Arg)[1]
             close == CloseToken(Arg)
             short == <<Do("skipTrivia", First(item)), Do("visit", item),
                        Do("skipTrivia", close), Do("emitToken", close)>>
             long  == <<Do("indent", 0), DoNth("constraintItem", Arg, 1)>>
  <2>1. Tail1(Arg) # <<>>
    BY <1>2, <1>4 DEF VisitConstraintBlock, Visiting, Kind, Tail1, IsWellShaped
  <2>2. PICK fits \in Fits :
          Continue(pr, EmitAll(Head1(Arg)) \o
                         IF IsShortConstraintBlock(Arg, fits) THEN short ELSE long)
    BY <1>4 DEF VisitConstraintBlock
  <2>3. long \in Balanced(Arg)
    <3>1. "constraintItem" \in LeavingOps /\ 1 \in Nat
      BY DEF LeavingOps
    <3> QED
      BY <1>2, <2>1, <3>1, OpenScope
  <2>4. CASE IsShortConstraintBlock(Arg, fits)
    <3>1. Kids(Arg) # <<>>
      BY <2>4, NonEmpty DEF IsShortConstraintBlock
    <3>2. Do("visit", item) \in Flat(Arg) /\ First(item) \in DOMAIN doc.toks
      BY <1>2, <3>1, FirstKid
    <3>3. close \in DOMAIN doc.toks
      BY <1>2, <2>1, CloseTokenType
    <3>4. /\ Do("skipTrivia", First(item)) \in Flat(Arg)
          /\ Do("skipTrivia", close) \in Flat(Arg)
          /\ Do("emitToken", close) \in Flat(Arg)
      BY <1>2, <3>2, <3>3, TokenCall DEF TokenOps
    <3>5. short \in Seq(Flat(Arg))
      BY <3>2, <3>4
    <3>6. short \in Balanced(Arg)
      BY <1>2, <3>5, FlatBalanced
    <3> HIDE DEF short
    <3>7. EmitAll(Head1(Arg)) \o short \in Balanced(Arg)
      BY <1>2, <3>6, BalancedConcat
    <3>8. Continue(pr, EmitAll(Head1(Arg)) \o short)
      BY <2>2, <2>4
    <3> QED
      BY <1>1, <3>7, <3>8, VisitIInv
  <2>5. CASE ~IsShortConstraintBlock(Arg, fits)
    <3> HIDE DEF long
    <3>1. EmitAll(Head1(Arg)) \o long \in Balanced(Arg)
      BY <1>2, <2>3, BalancedConcat
    <3>2. Continue(pr, EmitAll(Head1(Arg)) \o long)
      BY <2>2, <2>5
    <3> QED
      BY <1>1, <3>1, <3>2, VisitIInv
  <2> QED
    BY <2>4, <2>5
<1> QED
  BY <1>3, <1>4

\* The loops over the members of a scope.
LEMMA MemberLoopStep ==
  ASSUME IInv, NextMember \/ NextModuleMember \/ NextConstraintItem
  PROVE  IInv'
<1>1. Steady(pr) /\ doc \in Documents
  BY SteadyNow DEF IInv
<1>2. /\ Steady(ForceNewline(pr)) /\ Steady(Primary(pr))
      /\ Steady(Primary(ForceNewline(pr)))
  BY <1>1, SteadyLayout, SteadyFlags
<1> DEFINE i == Head(work).i
           next(op) == <<Do("visit", Kids(Arg)[i]), DoNth(op, Arg, i + 1)>>
           end == <<Do("emitEndTokenTrivia", CloseToken(Arg)), Do("closeScope", Arg)>>
<1>3. CASE NextMember
  <2>1. work # <<>> /\ Head(work).op = "member"
    BY <1>3 DEF NextMember, Calling
  <2>2. /\ Arg \in DOMAIN doc.nodes /\ i \in Nat
        /\ Kind(Arg) = "CompilationUnit" \/ Tail1(Arg) # <<>>
    BY <2>1, CallTypes DEF NodeOps
  <2>3. CASE Kind(Arg) = "CompilationUnit"
    <3>1. Head(work).op \in DescendOps /\ ~Leaves(doc, Head(work))
      BY <2>1, <2>3 DEF DescendOps, NodeOps, Leaves, LeavingOps, Kind, Arg
    <3>2. Arg \in Nat
      BY <1>1, <2>2, NodeTypes
    <3>3. CASE i \in DOMAIN Kids(Arg)
      <4>1. Continue(Primary(pr), next("member"))
        BY <1>3, <3>3 DEF NextMember
      <4>2. i + 1 \in Nat
        BY <2>2
      <4>3. /\ Do("visit", Kids(Arg)[i]) \in Flat(Arg)
            /\ DoNth("member", Arg, i + 1) \in Flat(Arg)
        BY <1>1, <2>2, <2>3, <3>3, <4>2, KidCalls, UnitCall
      <4>4. next("member") \in Balanced(Arg)
        BY <3>2, <4>3, TwoFlat
      <4> HIDE DEF next
      <4> QED
        BY <1>2, <2>1, <3>1, <4>1, <4>4, NodeContinue
    <3>4. CASE i \notin DOMAIN Kids(Arg)
      <4>1. Continue(Primary(pr), EmitAll(Tail1(Arg)))
        BY <1>3, <2>3, <3>4 DEF NextMember
      <4>2. EmitAll(Tail1(Arg)) \in Balanced(Arg)
        BY <1>1, <2>2, <3>2, NodeTypes, EmitAllCalls
      <4> QED
        BY <1>2, <2>1, <3>1, <4>1, <4>2, NodeContinue
    <3> QED
      BY <3>3, <3>4
  <2>4. CASE Kind(Arg) # "CompilationUnit"
    <3>1. Leaves(doc, Head(work)) /\ Tail1(Arg) # <<>>
      BY <2>1, <2>2, <2>4 DEF Leaves, Kind, Arg
    <3>2. CASE i \in DOMAIN Kids(Arg)
      <4>1. Continue(Primary(pr), next("member"))
        BY <1>3, <3>2 DEF NextMember
      <4>2. next("member") \in Closing(Arg)
        BY <1>1, <2>2, <2>4, <3>1, <3>2, VisitKid
      <4> HIDE DEF next
      <4> QED
        BY <1>2, <2>1, <3>1, <4>1, <4>2, LeaveContinue
    <3>3. CASE i \notin DOMAIN Kids(Arg)
      <4>1. Continue(Primary(pr), end)
        BY <1>3, <2>4, <3>3 DEF NextMember
      <4>2. end \in Closing(Arg)
        BY <1>1, <2>2, <3>1, EndScope
      <4> HIDE DEF end
      <4> QED
        BY <1>2, <2>1, <3>1, <4>1, <4>2, LeaveContinue
    <3> QED
      BY <3>2, <3>3
  <2> QED
    BY <2>3, <2>4
<1>4. CASE NextModuleMember
  <2>1. /\ work # <<>> /\ Head(work).op = "moduleMember" /\ "moduleMember" \in LeavingOps
        /\ Leaves(doc, Head(work))
    BY <1>4 DEF NextModuleMember, Calling, Leaves, LeavingOps
  <2>2. Arg \in DOMAIN doc.nodes /\ Tail1(Arg) # <<>> /\ i \in Nat
    BY <2>1, CallTypes DEF NodeOps, ClosingOps
  <2>3. CASE i \in DOMAIN Kids(Arg)
    <3> DEFINE p == BeforeModuleMember(Arg, i)
    <3>1. Continue(Primary(p), next("moduleMember"))
      BY <1>4, <2>3 DEF NextModuleMember
    <3>2. Steady(p)
      <4>1. First(Kids(Arg)[i]) \in DOMAIN doc.toks
        BY <1>1, <2>2, <2>3, NodeTypes, ElementOfSeq
      <4>2. Len(Tok(First(Kids(Arg)[i])).trivia) \in Nat
        BY <1>1, <4>1, TokenTypes
      <4>3. Steady([pr EXCEPT !.triviaSkip = Len(Tok(First(Kids(Arg)[i])).trivia)])
        BY <1>1, <4>2, SteadyFlags
      <4> QED
        BY <1>1, <1>2, <4>3 DEF BeforeModuleMember
    <3> HIDE DEF p
    <3>3. Steady(Primary(p))
      BY <3>2, SteadyFlags
    <3>4. next("moduleMember") \in Closing(Arg)
      BY <1>1, <2>1, <2>2, <2>3, VisitKid
    <3> HIDE DEF next
    <3> QED
      BY <2>1, <3>1, <3>3, <3>4, LeaveContinue
  <2>4. CASE i \notin DOMAIN Kids(Arg)
    <3>1. Continue(Primary(pr), end)
      BY <1>4, <2>4 DEF NextModuleMember
    <3>2. end \in Closing(Arg)
      BY <1>1, <2>2, EndScope
    <3> HIDE DEF end
    <3> QED
      BY <1>2, <2>1, <3>1, <3>2, LeaveContinue
  <2> QED
    BY <2>3, <2>4
<1>5. CASE NextConstraintItem
  <2>1. /\ work # <<>> /\ Head(work).op = "constraintItem" /\ "constraintItem" \in LeavingOps
        /\ Leaves(doc, Head(work))
    BY <1>5 DEF NextConstraintItem, Calling, Leaves, LeavingOps
  <2>2. Arg \in DOMAIN doc.nodes /\ Tail1(Arg) # <<>> /\ i \in Nat
    BY <2>1, CallTypes DEF NodeOps, ClosingOps
  <2>3. CASE i \in DOMAIN Kids(Arg)
    <3>1. \/ Continue(Primary(pr), next("constraintItem"))
          \/ Continue(Primary(ForceNewline(pr)), next("constraintItem"))
      BY <1>5, <2>3 DEF NextConstraintItem
    <3>2. next("constraintItem") \in Closing(Arg)
      BY <1>1, <2>1, <2>2, <2>3, VisitKid
    <3> HIDE DEF next
    <3> QED
      BY <1>2, <2>1, <3>1, <3>2, LeaveContinue
  <2>4. CASE i \notin DOMAIN Kids(Arg)
    <3> DEFINE close == CloseToken(Arg)
               calls == <<Do("emitEndTokenTrivia", close), Do("dedent", 0),
                          Do("breakBeforeClose", close), Do("primary", 0),
                          Do("emitToken", close)>>
    <3>1. Continue(Primary(pr), calls)
      BY <1>5, <2>4 DEF NextConstraintItem
    <3>2. close \in DOMAIN doc.toks /\ Arg \in Nat \ {0} /\ Arg - 1 \in Nat
      BY <1>1, <2>2, CloseTokenType, DocumentTypes
    <3> DEFINE trivia == <<Do("emitEndTokenTrivia", close)>>
               dedent == <<Do("dedent", 0)>>
               rest == <<Do("breakBeforeClose", close), Do("primary", 0),
                         Do("emitToken", close)>>
    <3>3. trivia \in Balanced(Arg - 1)
      BY <1>1, <3>2, TokenCall, OneFlat DEF TokenOps
    <3>4. rest \in Balanced(Arg)
      <4>1. /\ Do("breakBeforeClose", close) \in Flat(Arg)
            /\ Do("emitToken", close) \in Flat(Arg) /\ Do("primary", 0) \in Flat(Arg)
        BY <1>1, <3>2, TokenCall, PlainCall DEF TokenOps, PlainOps
      <4>2. rest \in Seq(Flat(Arg))
        BY <4>1
      <4> QED
        BY <3>2, <4>2, FlatBalanced
    <3>5. dedent \in Closing(Arg)
      BY <3>2, DepthCalls
    <3>6. calls = trivia \o (dedent \o rest)
      BY ConcatBehind
    <3> HIDE DEF trivia, dedent, rest, calls
    <3>7. dedent \o rest \in Closing(Arg)
      BY <3>4, <3>5, ClosingThen
    <3>8. calls \in Closing(Arg)
      BY <3>2, <3>3, <3>6, <3>7, ThenClosing
    <3> QED
      BY <1>2, <2>1, <3>1, <3>8, LeaveContinue
  <2> QED
    BY <2>3, <2>4
<1> QED
  BY <1>3, <1>4, <1>5

-----------------------------------------------------------------------------
(***************************************************************************)
(* Handlers of lists of ports and of instantiations.                       *)
(***************************************************************************)

(* Openings, items and closings. *)

\* The comma behind an item, if there is one.
LEMMA CommaCalls ==
  ASSUME doc \in Documents, NEW n \in DOMAIN doc.nodes, NEW i, NEW m \in Nat
  PROVE  Comma(n, i) \in Balanced(m)
<1>1. CASE i + 1 \in DOMAIN Tail1(n)
  <2>1. Tail1(n)[i + 1] \in DOMAIN doc.toks
    BY <1>1, NodeTypes
  <2>2. Do("emitToken", Tail1(n)[i + 1]) \in Flat(m)
    BY <2>1, TokenCall DEF TokenOps
  <2> QED
    BY <1>1, <2>2, OneFlat DEF Comma
<1>2. CASE i + 1 \notin DOMAIN Tail1(n)
  BY <1>2, NoneBalanced DEF Comma
<1> QED
  BY <1>1, <1>2

\* The flags around an item, and the closing token.
LEMMA ClosePortListCalls ==
  ASSUME doc \in Documents, NEW n \in DOMAIN doc.nodes, Tail1(n) # <<>>, NEW wrapped
  PROVE  ClosePortList(n, wrapped) \in Closing(n)
<1> DEFINE close  == CloseToken(n)
           break  == When(wrapped, Do("breakBeforeClose", close))
           trivia == <<Do("portItem", 0), Do("emitEndTokenTrivia", close),
                       Do("portItemDone", 0)>>
           end    == <<Do("primary", 0), Do("boundaryLine", 0), Do("emitToken", close)>>
           plain  == <<Do("primary", 0), Do("emitToken", close)>>
           dedent == <<Do("dedent", 0)>>
<1>1. n \in Nat \ {0} /\ n - 1 \in Nat /\ close \in DOMAIN doc.toks
  BY DocumentTypes, CloseTokenType
<1>2. ASSUME NEW m \in Nat
      PROVE  /\ break \in Balanced(m) /\ trivia \in Balanced(m)
             /\ end \in Balanced(m) /\ plain \in Balanced(m)
  <2>1. /\ Do("breakBeforeClose", close) \in Flat(m)
        /\ Do("emitEndTokenTrivia", close) \in Flat(m)
        /\ Do("emitToken", close) \in Flat(m)
    BY <1>1, TokenCall DEF TokenOps
  <2>2. /\ Do("portItem", 0) \in Flat(m) /\ Do("portItemDone", 0) \in Flat(m)
        /\ Do("primary", 0) \in Flat(m) /\ Do("boundaryLine", 0) \in Flat(m)
    BY PlainCall DEF PlainOps
  <2>3. break \in Balanced(m)
    BY <2>1, WhenCalls
  <2>4. trivia \in Seq(Flat(m)) /\ end \in Seq(Flat(m)) /\ plain \in Seq(Flat(m))
    BY <2>1, <2>2
  <2> HIDE DEF break, trivia, end, plain
  <2> QED
    BY <2>3, <2>4, FlatBalanced
<1>3. dedent \in Closing(n)
  BY <1>1, DepthCalls
<1>4. ClosePortList(n, wrapped) =
        IF Kind(n) = "FunctionPortList" THEN dedent \o break \o plain
        ELSE IF Kind(n) \in {"NonAnsiPortList", "HierarchicalInstance"}
        THEN dedent \o break \o trivia \o end
        ELSE trivia \o dedent \o break \o end
  BY DEF ClosePortList
<1> HIDE DEF break, trivia, end, plain, dedent
<1>5. /\ trivia \in Balanced(n - 1) /\ trivia \in Balanced(n)
      /\ break \in Balanced(n) /\ end \in Balanced(n) /\ plain \in Balanced(n)
  BY <1>1, <1>2
<1>6. dedent \o break \in Closing(n) /\ trivia \o dedent \in Closing(n)
  BY <1>1, <1>3, <1>5, ClosingThen, ThenClosing
<1>7. /\ dedent \o break \o plain \in Closing(n)
      /\ dedent \o break \o trivia \in Closing(n)
      /\ trivia \o dedent \o break \in Closing(n)
  BY <1>5, <1>6, ClosingThen
<1>8. /\ dedent \o break \o trivia \o end \in Closing(n)
      /\ trivia \o dedent \o break \o end \in Closing(n)
  BY <1>5, <1>7, ClosingThen
<1> QED
  BY <1>4, <1>7, <1>8

\* The second of two elements.
LEMMA TailOfTwo ==
  ASSUME NEW S, NEW s \in Seq(S), Len(s) = 2
  PROVE  Tail(s) \in Seq(S) /\ Tail(s)[1] \in S
<1>1. s # <<>>
  BY NonEmpty
<1>2. Tail(s) \in Seq(S)
  BY <1>1, HeadTailProperties
<1>3. Len(Tail(s)) = 1
  BY <1>1, HeadTailProperties
<1>4. 1 \in 1..1
  OBVIOUS
<1>5. 1 \in 1..Len(Tail(s))
  BY <1>3, <1>4, Zenon
<1> QED
  BY <1>2, <1>5, ElementOfSeq

\* The tokens up to the opening parenthesis of a list of ports.
LEMMA OpenPortListCalls ==
  ASSUME doc \in Documents, NEW n \in DOMAIN doc.nodes, Kind(n) \in PortListKinds
  PROVE  OpenPortList(n) \in Balanced(n)
<1> DEFINE head == Head1(n)
           named == Len(head) = 2 /\ Kind(n) = "HierarchicalInstance"
           rest == IF named THEN Tail(head) ELSE head
           name == IF rest = head THEN <<>>
                   ELSE <<Do("instanceSpace", head[1]), Do("emitToken", head[1])>>
           space(want, tok) == <<SpaceBefore(want, tok)>>
<1>1. /\ head \in Seq(DOMAIN doc.toks) /\ head # <<>> /\ n \in Nat
      /\ Kind(n) \in {"ParameterPortList", "ParameterValueAssignment", "ModportItem"}
           => Len(head) = 2
  BY NodeTypes DEF IsWellShaped, Kind, Head1
<1>2. head[1] \in DOMAIN doc.toks /\ EmitAll(head) \in Balanced(n)
  BY <1>1, EmptySeq, EmitAllCalls
<1>3. /\ Do("emitToken", head[1]) \in Flat(n) /\ Do("instanceSpace", head[1]) \in Flat(n)
  BY <1>1, <1>2, TokenCall DEF TokenOps
<1>4. \A want : space(want, head[1]) \in Balanced(n)
  <2>1. \A want : SpaceBefore(want, head[1]) \in Flat(n)
    BY <1>1, <1>2, SpaceBeforeCall
  <2> QED
    BY <1>1, <2>1, OneFlat
<1>5. CASE Kind(n) = "ModportItem"
  <2> HIDE DEF head
  <2>1. Len(head) = 2 /\ 2 \in 1..2
    BY <1>1, <1>5
  <2>2. head[2] \in DOMAIN doc.toks
    BY <1>1, <2>1, ElementOfSeq
  <2> USE DEF head
  <2>3. Do("emitToken", head[2]) \in Flat(n) /\ Do("stripSpaces", 0) \in Flat(n)
    BY <1>1, <2>2, TokenCall, PlainCall DEF TokenOps, PlainOps
  <2>4. OpenPortList(n) \in Seq(Flat(n))
    BY <1>3, <1>5, <2>3 DEF OpenPortList
  <2> QED
    BY <1>1, <2>4, FlatBalanced
<1>6. CASE Kind(n) \in {"ParameterPortList", "ParameterValueAssignment"}
  <2>1. OpenPortList(n) = space(pr.style.SpaceBeforeParameterList, head[1]) \o EmitAll(head)
    BY <1>6 DEF OpenPortList
  <2> QED
    BY <1>2, <1>4, <2>1, BalancedConcat
<1>7. CASE Kind(n) = "FunctionPortList"
  BY <1>2, <1>7 DEF OpenPortList
<1>8. CASE Kind(n) \notin {"ModportItem", "ParameterPortList", "ParameterValueAssignment",
                           "FunctionPortList"}
  <2>1. rest \in Seq(DOMAIN doc.toks) /\ rest[1] \in DOMAIN doc.toks
    <3>1. CASE named
      <4>1. Tail(head) \in Seq(DOMAIN doc.toks) /\ Tail(head)[1] \in DOMAIN doc.toks
        BY <1>1, <3>1, TailOfTwo
      <4>2. rest = Tail(head)
        BY <3>1
      <4> HIDE DEF rest, named
      <4> QED
        BY <4>1, <4>2
    <3>2. CASE ~named
      BY <1>1, <1>2, <3>2
    <3> QED
      BY <3>1, <3>2
  <2>2. OpenPortList(n) =
          name \o space(pr.style.SpaceBeforePortList, rest[1]) \o EmitAll(rest)
    BY <1>8 DEF OpenPortList
  <2>3. name \in Balanced(n)
    BY <1>1, <1>3, TwoFlat, NoneBalanced
  <2> HIDE DEF rest, name
  <2>4. SpaceBefore(pr.style.SpaceBeforePortList, rest[1]) \in Flat(n)
    BY <1>1, <2>1, SpaceBeforeCall
  <2>5. space(pr.style.SpaceBeforePortList, rest[1]) \in Balanced(n)
    BY <1>1, <2>4, OneFlat
  <2>6. EmitAll(rest) \in Balanced(n)
    BY <1>1, <2>1, EmitAllCalls
  <2> QED
    BY <2>2, <2>3, <2>5, <2>6, BalancedConcat
<1> QED
  BY <1>5, <1>6, <1>7, <1>8

\* A list of ports: its opening, then the loop op over its items.
LEMMA OpensList ==
  ASSUME IInv, work # <<>>, Arg \in DOMAIN doc.nodes, Kind(Arg) \in PortListKinds,
         Head(work).op \in {"visit", "visitExpanded"},
         NEW op, NEW i \in Nat, NEW open \in Balanced(Arg),
         \/ /\ op \in LeavingOps
            /\ \/ Continue(pr, open \o <<Do("indent", 0), Do(op, Arg)>>)
               \/ Continue(pr, open \o <<Do("indent", 0), DoNth(op, Arg, i)>>)
         \/ op \in StayingOps /\ Continue(pr, open \o <<DoNth(op, Arg, i)>>)
  PROVE  IInv'
<1>1. /\ doc \in Documents /\ Steady(pr) /\ Arg \in Nat
      /\ Head(work).op \in DescendOps /\ ~Leaves(doc, Head(work))
  BY SteadyNow, NodeTypes
     DEF IInv, DescendOps, NodeOps, KindOps, ListOps, Leaves, LeavingOps
<1>2. Tail1(Arg) # <<>>
  BY <1>1, NodeTypes DEF IsWellShaped, Kind, Tail1
<1>3. CASE op \in LeavingOps
  <2>1. /\ <<Do("indent", 0), Do(op, Arg)>> \in Balanced(Arg)
        /\ <<Do("indent", 0), DoNth(op, Arg, i)>> \in Balanced(Arg)
    BY <1>1, <1>2, <1>3, OpenScope
  <2>2. /\ open \o <<Do("indent", 0), Do(op, Arg)>> \in Balanced(Arg)
        /\ open \o <<Do("indent", 0), DoNth(op, Arg, i)>> \in Balanced(Arg)
    BY <2>1, BalancedConcat
  <2>3. op \notin StayingOps
    BY <1>3 DEF LeavingOps, StayingOps
  <2> QED
    BY <1>1, <2>2, <2>3, NodeContinue
<1>4. CASE op \in StayingOps
  <2>1. <<DoNth(op, Arg, i)>> \in Balanced(Arg)
    BY <1>1, <1>2, <1>4, StayingCall, OneFlat
  <2>2. open \o <<DoNth(op, Arg, i)>> \in Balanced(Arg)
    BY <2>1, BalancedConcat
  <2>3. op \notin LeavingOps
    BY <1>4 DEF LeavingOps, StayingOps
  <2> QED
    BY <1>1, <2>2, <2>3, NodeContinue
<1> QED
  BY <1>3, <1>4

-----------------------------------------------------------------------------
(* The steps. *)

\* Lists of ports, of parameters and of connections.
LEMMA VisitPortListStep ==
  ASSUME IInv, VisitPortList \/ VisitFunctionPorts
  PROVE  IInv'
<1>1. CASE Calling("visit") /\ VisitPortList
  <2>1. Kind(Arg) \in PortListKinds
        /\ Continue(pr, OpenPortList(Arg) \o <<Do("indent", 0), Do("portList", Arg)>>)
    BY <1>1 DEF VisitPortList, Visiting, Calling
  <2>2. work # <<>> /\ doc \in Documents /\ Arg \in DOMAIN doc.nodes /\ Arg \in Nat
    BY <1>1, VisitTypes
  <2>3. OpenPortList(Arg) \in Balanced(Arg) /\ "portList" \in LeavingOps /\ 0 \in Nat
    BY <2>1, <2>2, OpenPortListCalls DEF LeavingOps
  <2> QED
    BY <1>1, <2>1, <2>2, <2>3, OpensList DEF Calling
<1>2. CASE Calling("visitExpanded") /\ VisitPortList
  <2>1. work # <<>> /\ Head(work).op = "visitExpanded"
        /\ Continue(pr, OpenPortList(Arg) \o <<Do("indent", 0), DoNth("wrappedPort", Arg, 1)>>)
    BY <1>2 DEF VisitPortList, Visiting, Calling
  <2>2. /\ doc \in Documents /\ Arg \in DOMAIN doc.nodes
        /\ Kind(Arg) = "ParameterValueAssignment"
    BY <2>1, CallTypes DEF NodeOps, KindOps, KindsFor
  <2>3. Kind(Arg) \in PortListKinds
    BY <2>2 DEF PortListKinds
  <2>4. OpenPortList(Arg) \in Balanced(Arg) /\ "wrappedPort" \in LeavingOps /\ 1 \in Nat
    BY <2>2, <2>3, OpenPortListCalls DEF LeavingOps
  <2>5. Arg \in Nat
    BY <2>2, NodeTypes
  <2> QED
    BY <2>1, <2>2, <2>3, <2>4, <2>5, OpensList
<1>3. CASE VisitFunctionPorts
  <2>1. Calling("visit") /\ Kind(Arg) = "FunctionPortList"
    BY <1>3 DEF VisitFunctionPorts, Visiting
  <2>2. work # <<>> /\ Arg \in DOMAIN doc.nodes /\ EmitAll(Head1(Arg)) \in Balanced(Arg)
    BY <2>1, VisitTypes
  <2>3. /\ Kind(Arg) \in PortListKinds /\ 1 \in Nat
        /\ "wrappedPort" \in LeavingOps /\ "plainPort" \in StayingOps
    BY <2>1 DEF PortListKinds, LeavingOps, StayingOps
  <2>4. \/ Continue(pr, EmitAll(Head1(Arg))
                          \o <<Do("indent", 0), DoNth("wrappedPort", Arg, 1)>>)
        \/ Continue(pr, EmitAll(Head1(Arg)) \o <<DoNth("plainPort", Arg, 1)>>)
    BY <1>3 DEF VisitFunctionPorts
  <2> QED
    BY <2>1, <2>2, <2>3, <2>4, OpensList DEF Calling
<1> QED
  BY <1>1, <1>2, <1>3 DEF VisitPortList, Visiting

\* Headers, single connections and instantiations.
LEMMA VisitHeaderStep ==
  ASSUME IInv, VisitHeader \/ VisitConnection \/ VisitWildcard \/ VisitInstantiation
  PROVE  IInv'
<1>1. Calling("visit")
  BY DEF VisitHeader, VisitConnection, VisitWildcard, VisitInstantiation, Visiting
<1>2. /\ work # <<>> /\ doc \in Documents /\ Arg \in Nat
      /\ Arg \in DOMAIN doc.nodes /\ First(Arg) \in DOMAIN doc.toks
      /\ Kids(Arg) \in Seq(DOMAIN doc.nodes) /\ Tail1(Arg) \in Seq(DOMAIN doc.toks)
      /\ EmitAll(Head1(Arg)) \in Balanced(Arg)
      /\ IsWellShaped(doc.nodes[Arg], doc.nodes)
  BY <1>1, VisitTypes
<1>3. CASE VisitHeader
  <2> DEFINE kids == [k \in DOMAIN Kids(Arg) |-> Do("visit", Kids(Arg)[k])]
  <2>1. Continue(pr, EmitAll(Head1(Arg)) \o kids \o EmitAll(Tail1(Arg)))
    BY <1>3 DEF VisitHeader
  <2>2. kids \in Balanced(Arg)
    BY <1>2, VisitKids
  <2>3. EmitAll(Tail1(Arg)) \in Balanced(Arg)
    BY <1>2, EmitAllCalls
  <2> HIDE DEF kids
  <2>4. EmitAll(Head1(Arg)) \o kids \o EmitAll(Tail1(Arg)) \in Balanced(Arg)
    BY <1>2, <2>2, <2>3, BalancedConcat
  <2> QED
    BY <1>1, <2>1, <2>4, VisitIInv
<1>4. CASE VisitConnection
  <2>1. Continue(pr, <<Do("connectionLine", 0)>> \o EmitAll(Head1(Arg)))
    BY <1>4 DEF VisitConnection
  <2>2. Do("connectionLine", 0) \in Flat(Arg)
    BY <1>2, PlainCall DEF PlainOps
  <2>3. <<Do("connectionLine", 0)>> \in Balanced(Arg)
    BY <1>2, <2>2, OneFlat
  <2>4. <<Do("connectionLine", 0)>> \o EmitAll(Head1(Arg)) \in Balanced(Arg)
    BY <1>2, <2>3, BalancedConcat
  <2> QED
    BY <1>1, <2>1, <2>4, VisitIInv
<1>5. CASE VisitWildcard
  <2> DEFINE space == SpaceBefore(pr.style.SpaceBeforePortList, First(Arg))
  <2>1. Continue(pr, <<space>> \o EmitAll(Head1(Arg)))
    BY <1>5 DEF VisitWildcard
  <2>2. space \in Flat(Arg)
    BY <1>2, SpaceBeforeCall
  <2> HIDE DEF space
  <2>3. <<space>> \in Balanced(Arg)
    BY <1>2, <2>2, OneFlat
  <2>4. <<space>> \o EmitAll(Head1(Arg)) \in Balanced(Arg)
    BY <1>2, <2>3, BalancedConcat
  <2> QED
    BY <1>1, <2>1, <2>4, VisitIInv
<1>6. CASE VisitInstantiation
  <2>1. Continue(pr, EmitAll(Head1(Arg)) \o <<Do("instances", Arg)>>)
    BY <1>6 DEF VisitInstantiation
  <2>2. Tail1(Arg) # <<>>
    BY <1>2, <1>6 DEF VisitInstantiation, Visiting, Kind, Tail1, IsWellShaped
  <2>3. Do("instances", Arg) \in Flat(Arg)
    <3>1. "instances" \in StayingOps /\ 0 \in Nat
      BY DEF StayingOps
    <3> QED
      BY <1>2, <2>2, <3>1, StayingCall
  <2>4. <<Do("instances", Arg)>> \in Balanced(Arg)
    BY <1>2, <2>3, OneFlat
  <2>5. EmitAll(Head1(Arg)) \o <<Do("instances", Arg)>> \in Balanced(Arg)
    BY <1>2, <2>4, BalancedConcat
  <2> QED
    BY <1>1, <2>1, <2>5, VisitIInv
<1> QED
  BY <1>3, <1>4, <1>5, <1>6

\* The loops over the items of a list of ports.
LEMMA PortLoopStep ==
  ASSUME IInv, StartPorts \/ NextPort \/ NextPlainPort
  PROVE  IInv'
<1> DEFINE i == Head(work).i
           item == <<Do("portItem", 0), Do("visit", Kids(Arg)[i]), Do("portItemDone", 0)>>
<1>1. /\ work # <<>>
      /\ Head(work).op \in {"portList", "port", "wrappedPort", "plainPort"}
  BY DEF StartPorts, NextPort, NextPlainPort, Calling
<1>2. /\ doc \in Documents /\ Steady(pr) /\ Steady(ForceNewline(pr))
      /\ Arg \in DOMAIN doc.nodes /\ Tail1(Arg) # <<>> /\ i \in Nat /\ i + 1 \in Nat
  BY <1>1, CallTypes, SteadyNow, SteadyLayout DEF NodeOps, ClosingOps, ListOps
<1>3. Arg \in Nat /\ Arg - 1 \in Nat
  BY <1>2, DocumentTypes
<1>4. ASSUME NEW op \in {"port", "wrappedPort"}, NEW j \in Nat
      PROVE  <<DoNth(op, Arg, j)>> \in Closing(Arg)
  <2>1. op \in LeavingOps
    BY DEF LeavingOps
  <2> QED
    BY <1>2, <2>1, LeavingCall
<1>5. Comma(Arg, i) \in Balanced(Arg) /\ Comma(Arg, i) \in Balanced(Arg - 1)
  BY <1>2, <1>3, CommaCalls
<1>6. CASE StartPorts
  <2>1. \/ Continue(pr, <<DoNth("wrappedPort", Arg, 1)>>)
        \/ Continue(pr, <<DoNth("port", Arg, 1)>>)
    BY <1>6 DEF StartPorts
  <2>2. /\ <<DoNth("wrappedPort", Arg, 1)>> \in Closing(Arg)
        /\ <<DoNth("port", Arg, 1)>> \in Closing(Arg)
    BY <1>4
  <2>3. Leaves(doc, Head(work))
    BY <1>6 DEF StartPorts, Calling, Leaves, LeavingOps
  <2> QED
    BY <1>1, <1>2, <2>1, <2>2, <2>3, LeaveContinue
<1>7. CASE NextPort
  <2>1. PICK op \in {"port", "wrappedPort"} :
          /\ i \in DOMAIN Kids(Arg) =>
               \/ Continue(pr, item \o Comma(Arg, i) \o <<DoNth(op, Arg, i + 1)>>)
               \/ Continue(ForceNewline(pr),
                           item \o Comma(Arg, i) \o <<DoNth(op, Arg, i + 1)>>)
          /\ i \notin DOMAIN Kids(Arg) =>
               Continue(pr, ClosePortList(Arg, op = "wrappedPort"))
    BY <1>7 DEF NextPort
  <2>2. Leaves(doc, Head(work))
    BY <1>7 DEF NextPort, Calling, Leaves, LeavingOps
  <2>3. CASE i \in DOMAIN Kids(Arg)
    <3>1. /\ Do("portItem", 0) \in Flat(Arg - 1) /\ Do("portItemDone", 0) \in Flat(Arg - 1)
          /\ Do("visit", Kids(Arg)[i]) \in Flat(Arg - 1)
      BY <1>2, <1>3, <2>3, PlainCall, KidCalls DEF PlainOps
    <3>2. item \in Seq(Flat(Arg - 1))
      BY <3>1
    <3>3. <<DoNth(op, Arg, i + 1)>> \in Closing(Arg)
      BY <1>2, <1>4
    <3>4. \/ Continue(pr, item \o Comma(Arg, i) \o <<DoNth(op, Arg, i + 1)>>)
          \/ Continue(ForceNewline(pr),
                      item \o Comma(Arg, i) \o <<DoNth(op, Arg, i + 1)>>)
      BY <2>1, <2>3
    <3> HIDE DEF item
    <3>5. item \o Comma(Arg, i) \in Balanced(Arg - 1)
      BY <1>3, <1>5, <3>2, FlatBalanced, BalancedConcat
    <3>6. item \o Comma(Arg, i) \o <<DoNth(op, Arg, i + 1)>> \in Closing(Arg)
      BY <1>3, <3>3, <3>5, ThenClosing
    <3> QED
      BY <1>1, <1>2, <2>2, <3>4, <3>6, LeaveContinue
  <2>4. CASE i \notin DOMAIN Kids(Arg)
    <3>1. ClosePortList(Arg, op = "wrappedPort") \in Closing(Arg)
      BY <1>2, ClosePortListCalls
    <3>2. Continue(pr, ClosePortList(Arg, op = "wrappedPort"))
      BY <2>1, <2>4
    <3> QED
      BY <1>1, <1>2, <2>2, <3>1, <3>2, LeaveContinue
  <2> QED
    BY <2>3, <2>4
<1>8. CASE NextPlainPort
  <2>1. Head(work).op \in DescendOps /\ ~Leaves(doc, Head(work))
    BY <1>8 DEF NextPlainPort, Calling, DescendOps, NodeOps, ListOps, Leaves, LeavingOps
  <2>2. CASE i \in DOMAIN Kids(Arg)
    <3> DEFINE calls == <<Do("visit", Kids(Arg)[i])>> \o Comma(Arg, i)
                          \o <<DoNth("plainPort", Arg, i + 1)>>
    <3>1. Continue(pr, calls)
      BY <1>8, <2>2 DEF NextPlainPort
    <3>2. <<Do("visit", Kids(Arg)[i])>> \in Balanced(Arg)
      BY <1>2, <2>2, KidCalls
    <3>3. <<DoNth("plainPort", Arg, i + 1)>> \in Balanced(Arg)
      BY <1>2, <1>3, StayingCall, OneFlat DEF StayingOps
    <3>4. calls \in Balanced(Arg)
      BY <1>5, <3>2, <3>3, BalancedConcat
    <3> HIDE DEF calls
    <3> QED
      BY <1>1, <1>2, <2>1, <3>1, <3>4, NodeContinue
  <2>3. CASE i \notin DOMAIN Kids(Arg)
    <3>1. Continue(pr, <<Do("emitToken", CloseToken(Arg))>>)
      BY <1>8, <2>3 DEF NextPlainPort
    <3>2. Do("emitToken", CloseToken(Arg)) \in Flat(Arg)
      BY <1>2, <1>3, CloseTokenType, TokenCall DEF TokenOps
    <3>3. <<Do("emitToken", CloseToken(Arg))>> \in Balanced(Arg)
      BY <1>3, <3>2, OneFlat
    <3> QED
      BY <1>1, <1>2, <2>1, <3>1, <3>3, NodeContinue
  <2> QED
    BY <2>2, <2>3
<1> QED
  BY <1>6, <1>7, <1>8

\* The loop over the instances of an instantiation.
LEMMA InstanceLoopStep ==
  ASSUME IInv, StartInstances \/ NextInstance
  PROVE  IInv'
<1> DEFINE i == Head(work).i
<1>1. /\ work # <<>> /\ Head(work).op \in {"instances", "instance"}
      /\ Head(work).op \in DescendOps /\ ~Leaves(doc, Head(work))
  BY DEF StartInstances, NextInstance, Calling, DescendOps, NodeOps, ListOps, Leaves,
         LeavingOps
<1>2. /\ doc \in Documents /\ Steady(pr)
      /\ Arg \in DOMAIN doc.nodes /\ Tail1(Arg) # <<>> /\ i \in Nat /\ i + 1 \in Nat
      /\ Kids(Arg) \in Seq(DOMAIN doc.nodes) /\ Arg \in Nat
  BY <1>1, CallTypes, NodeTypes, SteadyNow DEF NodeOps, ClosingOps, ListOps
<1>3. ASSUME NEW j \in Nat
      PROVE  <<DoNth("instance", Arg, j)>> \in Balanced(Arg)
  BY <1>2, <1>3, StayingCall, OneFlat DEF StayingOps
<1>4. CASE StartInstances
  <2> DEFINE params == Kids(Arg) # <<>> /\ Kind(Kids(Arg)[1]) = "ParameterValueAssignment"
             first == IF params
                      THEN <<Do(IF ExpandsParameters(Arg) THEN "visitExpanded" ELSE "visit",
                                Kids(Arg)[1])>>
                      ELSE <<>>
             start == IF params THEN 2 ELSE 1
  <2>1. Continue(pr, first \o <<DoNth("instance", Arg, start)>>)
    BY <1>4 DEF StartInstances
  <2>2. first \in Balanced(Arg)
    <3>1. CASE params
      <4>1. /\ Kids(Arg)[1] \in DOMAIN doc.nodes /\ Kids(Arg)[1] < Arg
            /\ Do("visit", Kids(Arg)[1]) \in Flat(Arg)
        BY <1>2, <3>1, FirstKid
      <4>2. Kids(Arg)[1] <= Arg
        BY <1>2, <4>1, NodeTypes
      <4>3. Do("visitExpanded", Kids(Arg)[1]) \in Flat(Arg)
        BY <1>2, <3>1, <4>1, <4>2, KindCall DEF KindOps, KindsFor
      <4> QED
        BY <1>2, <3>1, <4>1, <4>3, OneFlat
    <3>2. CASE ~params
      BY <1>2, <3>2, NoneBalanced
    <3> QED
      BY <3>1, <3>2
  <2>3. start \in Nat
    OBVIOUS
  <2> HIDE DEF first, start
  <2>4. first \o <<DoNth("instance", Arg, start)>> \in Balanced(Arg)
    BY <1>3, <2>2, <2>3, BalancedConcat
  <2> QED
    BY <1>1, <1>2, <2>1, <2>4, NodeContinue
<1>5. CASE NextInstance
  <2>1. CASE i \in DOMAIN Kids(Arg)
    <3>1. PICK k : Continue(pr, <<Do("visit", Kids(Arg)[i])>> \o Comma(Arg, k)
                                  \o <<DoNth("instance", Arg, i + 1)>>)
      BY <1>5, <2>1 DEF NextInstance
    <3>2. <<Do("visit", Kids(Arg)[i])>> \in Balanced(Arg)
      BY <1>2, <2>1, KidCalls
    <3>3. Comma(Arg, k) \in Balanced(Arg) /\ <<DoNth("instance", Arg, i + 1)>> \in Balanced(Arg)
      BY <1>2, <1>3, CommaCalls
    <3>4. <<Do("visit", Kids(Arg)[i])>> \o Comma(Arg, k)
            \o <<DoNth("instance", Arg, i + 1)>> \in Balanced(Arg)
      BY <3>2, <3>3, BalancedConcat
    <3> QED
      BY <1>1, <1>2, <3>1, <3>4, NodeContinue
  <2>2. CASE i \notin DOMAIN Kids(Arg)
    <3>1. Continue(pr, <<Do("emitToken", CloseToken(Arg))>>)
      BY <1>5, <2>2 DEF NextInstance
    <3>2. Do("emitToken", CloseToken(Arg)) \in Flat(Arg)
      BY <1>2, CloseTokenType, TokenCall DEF TokenOps
    <3>3. <<Do("emitToken", CloseToken(Arg))>> \in Balanced(Arg)
      BY <1>2, <3>2, OneFlat
    <3> QED
      BY <1>1, <1>2, <3>1, <3>3, NodeContinue
  <2> QED
    BY <2>1, <2>2
<1> QED
  BY <1>4, <1>5

-----------------------------------------------------------------------------
(***************************************************************************)
(* Handlers of declarations, lists in braces and coverpoints.              *)
(***************************************************************************)

(* Declarations. *)

\* The tokens and children of a node in order.
LEMMA WalkCalls ==
  ASSUME doc \in Documents, NEW n \in DOMAIN doc.nodes
  PROVE  Walk(n) \in Balanced(n)
<1>1. n \in Nat /\ Head1(n) \in Seq(DOMAIN doc.toks) /\ Tail1(n) \in Seq(DOMAIN doc.toks)
  BY NodeTypes
<1>2. EmitAll(Head1(n)) \in Balanced(n) /\ EmitAll(Tail1(n)) \in Balanced(n)
  BY <1>1, EmitAllCalls
<1> DEFINE kids == [k \in DOMAIN Kids(n) |-> Do("visit", Kids(n)[k])]
<1>3. kids \in Balanced(n)
  BY VisitKids
<1>4. Walk(n) = EmitAll(Head1(n)) \o kids \o EmitAll(Tail1(n))
  BY DEF Walk
<1> HIDE DEF kids
<1> QED
  BY <1>2, <1>3, <1>4, BalancedConcat

\* The parts of a declaration behind the announcement of its line.
LEMMA AnnouncedCalls ==
  ASSUME doc \in Documents, NEW n \in DOMAIN doc.nodes
  PROVE  Announced(n) \in Balanced(n)
<1>1. n \in Nat
  BY NodeTypes
<1>2. <<Do("declarationLine", 0)>> \in Balanced(n)
  BY <1>1, PlainCall, OneFlat DEF PlainOps
<1> QED
  BY <1>2, WalkCalls, BalancedConcat DEF Announced

\* The handlers that visit the parts of a node in order.
LEMMA VisitPlainDeclarationStep ==
  ASSUME IInv,
         \/ VisitBind \/ VisitDpiExport \/ VisitDefaults \/ VisitNames \/ VisitParameters
         \/ VisitContinuousAssign \/ VisitTypedef \/ VisitExpression
  PROVE  IInv'
<1> DEFINE assign == <<Do("assignmentLine", 0)>> \o Walk(Arg)
<1>1. Calling("visit")
  BY DEF VisitBind, VisitDpiExport, VisitDefaults, VisitNames, VisitParameters,
         VisitContinuousAssign, VisitTypedef, VisitExpression, Visiting
<1>2. doc \in Documents /\ Arg \in DOMAIN doc.nodes /\ Arg \in Nat
  BY <1>1, VisitTypes
<1>3. Walk(Arg) \in Balanced(Arg) /\ Announced(Arg) \in Balanced(Arg)
  BY <1>2, WalkCalls, AnnouncedCalls
<1>4. <<Do("assignmentLine", 0)>> \in Balanced(Arg)
  BY <1>2, PlainCall, OneFlat DEF PlainOps
<1>5. assign \in Balanced(Arg)
  BY <1>3, <1>4, BalancedConcat
<1>6. \/ Continue(pr, Announced(Arg)) \/ Continue(pr, assign)
      \/ Continue(Primary(pr), Walk(Arg)) \/ Continue(pr, Walk(Arg))
  BY DEF VisitBind, VisitDpiExport, VisitDefaults, VisitNames, VisitParameters,
         VisitContinuousAssign, VisitTypedef, VisitExpression
<1> HIDE DEF assign
<1> QED
  BY <1>1, <1>3, <1>5, <1>6, VisitIInv

\* The handlers of declarations of a list of items.
LEMMA VisitItemsStep ==
  ASSUME IInv, VisitItems
  PROVE  IInv'
<1> DEFINE line == <<Do("declarationLine", 0)>>
           rest == <<DoNth("listedItem", Arg, 1)>>
<1>1. /\ Calling("visit") /\ Kind(Arg) \in ItemListKinds
      /\ Continue(pr, line \o EmitAll(Head1(Arg)) \o rest)
  BY DEF VisitItems, Visiting
<1>2. /\ doc \in Documents /\ Arg \in DOMAIN doc.nodes /\ Arg \in Nat
      /\ EmitAll(Head1(Arg)) \in Balanced(Arg)
  BY <1>1, VisitTypes
<1>3. Tail1(Arg) # <<>>
  BY <1>1, <1>2, HasClose
<1>4. "listedItem" \in StayingOps /\ 1 \in Nat
  BY DEF StayingOps
<1>5. DoNth("listedItem", Arg, 1) \in Flat(Arg)
  BY <1>2, <1>3, <1>4, StayingCall
<1>6. line \in Balanced(Arg)
  BY <1>2, PlainCall, OneFlat DEF PlainOps
<1>7. rest \in Balanced(Arg)
  BY <1>2, <1>5, OneFlat
<1> HIDE DEF line, rest
<1>8. line \o EmitAll(Head1(Arg)) \o rest \in Balanced(Arg)
  BY <1>2, <1>6, <1>7, BalancedConcat
<1> QED
  BY <1>1, <1>8, VisitIInv

\* The loop over such items.
LEMMA ListedItemStep ==
  ASSUME IInv, NextListedItem
  PROVE  IInv'
<1> DEFINE i == Head(work).i
           item == <<Do("portItem", 0), Do("visit", Kids(Arg)[i]), Do("portItemDone", 0)>>
           next == <<DoNth("listedItem", Arg, i + 1)>>
<1>1. /\ work # <<>> /\ Head(work).op = "listedItem" /\ "listedItem" \in StayingOps
      /\ Head(work).op \in DescendOps /\ ~Leaves(doc, Head(work))
  BY DEF NextListedItem, Calling, StayingOps, DescendOps, NodeOps, ListOps, Leaves,
         LeavingOps
<1>2. doc \in Documents /\ Arg \in DOMAIN doc.nodes /\ Tail1(Arg) # <<>> /\ i \in Nat
  BY <1>1, CallTypes DEF NodeOps, ClosingOps, ListOps
<1>3. Arg \in Nat /\ i + 1 \in Nat /\ Steady(pr)
  BY <1>2, NodeTypes, SteadyNow
<1>4. CASE i \in DOMAIN Kids(Arg)
  <2>1. Continue(pr, item \o Comma(Arg, i) \o next)
    BY <1>4 DEF NextListedItem
  <2>2. Do("portItem", 0) \in Flat(Arg) /\ Do("portItemDone", 0) \in Flat(Arg)
    BY <1>3, PlainCall DEF PlainOps
  <2>3. Do("visit", Kids(Arg)[i]) \in Flat(Arg) /\ Comma(Arg, i) \in Balanced(Arg)
    BY <1>2, <1>3, <1>4, KidCalls, CommaCalls
  <2>4. DoNth("listedItem", Arg, i + 1) \in Flat(Arg)
    BY <1>1, <1>2, <1>3, StayingCall
  <2>5. item \in Seq(Flat(Arg))
    BY <2>2, <2>3
  <2>6. item \in Balanced(Arg) /\ next \in Balanced(Arg)
    BY <1>3, <2>4, <2>5, FlatBalanced, OneFlat
  <2> HIDE DEF item, next
  <2>7. item \o Comma(Arg, i) \o next \in Balanced(Arg)
    BY <2>3, <2>6, BalancedConcat
  <2> QED
    BY <1>1, <1>3, <2>1, <2>7, NodeContinue
<1>5. CASE i \notin DOMAIN Kids(Arg)
  <2>1. Continue(pr, <<Do("emitToken", CloseToken(Arg))>>)
    BY <1>5 DEF NextListedItem
  <2>2. Do("emitToken", CloseToken(Arg)) \in Flat(Arg)
    BY <1>2, <1>3, CloseTokenType, TokenCall DEF TokenOps
  <2>3. <<Do("emitToken", CloseToken(Arg))>> \in Balanced(Arg)
    BY <1>3, <2>2, OneFlat
  <2> QED
    BY <1>1, <1>3, <2>1, <2>3, NodeContinue
<1> QED
  BY <1>4, <1>5

\* The handlers of declarations with declarators.
LEMMA VisitDeclaratorsStep ==
  ASSUME IInv, VisitDataDeclaration \/ VisitNetDeclaration \/ VisitPortDeclaration
  PROVE  IInv'
<1> DEFINE line == <<Do("declarationLine", 0)>>
           rest == <<Do("visit", Kids(Arg)[1]), DoNth("declarator", Arg, 2)>>
<1>1. /\ Calling("visit") /\ Kind(Arg) \in DeclaratorKinds
      /\ Continue(pr, AnnouncedType(Arg))
  BY DEF VisitDataDeclaration, VisitNetDeclaration, VisitPortDeclaration, Visiting,
         DeclaratorKinds
<1>2. /\ doc \in Documents /\ Arg \in DOMAIN doc.nodes /\ Arg \in Nat
      /\ Kids(Arg) \in Seq(DOMAIN doc.nodes)
      /\ EmitAll(Head1(Arg)) \in Balanced(Arg)
      /\ IsWellShaped(doc.nodes[Arg], doc.nodes)
  BY <1>1, VisitTypes
<1>3. Len(Kids(Arg)) >= 2 /\ Tail1(Arg) # <<>>
  BY <1>1, <1>2 DEF IsWellShaped, Kind, Kids, Tail1
<1>4. 1 \in DOMAIN Kids(Arg)
  BY <1>2, <1>3
<1>5. Do("visit", Kids(Arg)[1]) \in Flat(Arg)
  BY <1>2, <1>4, KidCalls
<1>6. "declarator" \in StayingOps /\ 2 \in Nat
  BY DEF StayingOps
<1>7. DoNth("declarator", Arg, 2) \in Flat(Arg)
  BY <1>2, <1>3, <1>6, StayingCall
<1>8. line \in Balanced(Arg)
  BY <1>2, PlainCall, OneFlat DEF PlainOps
<1>9. rest \in Balanced(Arg)
  BY <1>2, <1>5, <1>7, TwoFlat
<1>10. AnnouncedType(Arg) = line \o EmitAll(Head1(Arg)) \o rest
  BY DEF AnnouncedType
<1> HIDE DEF line, rest
<1>11. AnnouncedType(Arg) \in Balanced(Arg)
  BY <1>2, <1>8, <1>9, <1>10, BalancedConcat
<1> QED
  BY <1>1, <1>11, VisitIInv

\* An item of a list and its comma, the next item behind them.
LEMMA ItemCalls ==
  ASSUME doc \in Documents, NEW n \in DOMAIN doc.nodes, Tail1(n) # <<>>,
         NEW i \in Nat, i \in DOMAIN Kids(n), NEW comma, NEW op
  PROVE  /\ op \in StayingOps =>
              <<Do("visit", Kids(n)[i])>> \o Comma(n, comma) \o <<DoNth(op, n, i + 1)>>
                \in Balanced(n)
         /\ op \in LeavingOps =>
              <<Do("visit", Kids(n)[i])>> \o Comma(n, comma) \o <<DoNth(op, n, i + 1)>>
                \in Closing(n)
<1> DEFINE visit == <<Do("visit", Kids(n)[i])>>
           next  == <<DoNth(op, n, i + 1)>>
<1>1. i + 1 \in Nat /\ n \in Nat /\ n - 1 \in Nat
  BY DocumentTypes
<1>2. /\ visit \in Balanced(n) /\ Comma(n, comma) \in Balanced(n)
      /\ visit \in Balanced(n - 1) /\ Comma(n, comma) \in Balanced(n - 1)
  BY <1>1, KidCalls, CommaCalls
<1>3. ASSUME op \in StayingOps
      PROVE  visit \o Comma(n, comma) \o next \in Balanced(n)
  <2>1. DoNth(op, n, i + 1) \in Flat(n)
    BY <1>1, <1>3, StayingCall
  <2>2. next \in Balanced(n)
    BY <1>1, <2>1, OneFlat
  <2> HIDE DEF visit, next
  <2> QED
    BY <1>2, <2>2, BalancedConcat
<1>4. ASSUME op \in LeavingOps
      PROVE  visit \o Comma(n, comma) \o next \in Closing(n)
  <2>1. next \in Closing(n)
    BY <1>1, <1>4, LeavingCall
  <2> HIDE DEF visit, next
  <2>2. visit \o Comma(n, comma) \in Balanced(n - 1)
    BY <1>2, BalancedConcat
  <2> QED
    BY <1>1, <2>1, <2>2, ThenClosing
<1> QED
  BY <1>3, <1>4

\* The loop over declarators.
LEMMA DeclaratorLoopStep ==
  ASSUME IInv, NextDeclarator
  PROVE  IInv'
<1> DEFINE i == Head(work).i
           continued == [pr EXCEPT !.currentKind = "Continuation"]
           item == <<Do("visit", Kids(Arg)[i])>> \o Comma(Arg, i - 1)
                     \o <<DoNth("declarator", Arg, i + 1)>>
<1>1. /\ work # <<>> /\ Head(work).op = "declarator" /\ "declarator" \in StayingOps
      /\ Head(work).op \in DescendOps /\ ~Leaves(doc, Head(work))
  BY DEF NextDeclarator, Calling, StayingOps, DescendOps, NodeOps, ListOps, Leaves,
         LeavingOps
<1>2. doc \in Documents /\ Arg \in DOMAIN doc.nodes /\ Tail1(Arg) # <<>> /\ i \in Nat
  BY <1>1, CallTypes DEF NodeOps, ClosingOps, ListOps
<1>3. Arg \in Nat /\ Steady(pr)
  BY <1>2, NodeTypes, SteadyNow
<1>4. Steady(continued)
  BY <1>3, SteadyFlags DEF LineKinds
<1>5. CASE i \in DOMAIN Kids(Arg)
  <2>1. item \in Balanced(Arg)
    BY <1>1, <1>2, <1>5, ItemCalls
  <2>2. Continue(pr, item) \/ Continue(continued, item)
    BY <1>5 DEF NextDeclarator
  <2> HIDE DEF item, continued
  <2> QED
    BY <1>1, <1>3, <1>4, <2>1, <2>2, NodeContinue
<1>6. CASE i \notin DOMAIN Kids(Arg)
  <2>1. Continue(pr, <<Do("emitToken", CloseToken(Arg))>>)
    BY <1>6 DEF NextDeclarator
  <2>2. Do("emitToken", CloseToken(Arg)) \in Flat(Arg)
    BY <1>2, <1>3, CloseTokenType, TokenCall DEF TokenOps
  <2>3. <<Do("emitToken", CloseToken(Arg))>> \in Balanced(Arg)
    BY <1>3, <2>2, OneFlat
  <2> QED
    BY <1>1, <1>3, <2>1, <2>3, NodeContinue
<1> QED
  BY <1>5, <1>6

-----------------------------------------------------------------------------
(* Lists of items in braces. *)

\* The opening of a list.
LEMMA OpenListCalls ==
  ASSUME doc \in Documents, NEW n \in DOMAIN doc.nodes, Tail1(n) # <<>>
  PROVE  OpenList(n) \in Balanced(n)
<1>1. n \in Nat /\ Head1(n) \in Seq(DOMAIN doc.toks)
  BY NodeTypes
<1>2. EmitAll(Head1(n)) \in Balanced(n)
  BY <1>1, EmitAllCalls
<1>3. "listItem" \in LeavingOps /\ 1 \in Nat
  BY DEF LeavingOps
<1>4. <<Do("indent", 0), DoNth("listItem", n, 1)>> \in Balanced(n)
  BY <1>3, OpenScope
<1> QED
  BY <1>2, <1>4, BalancedConcat DEF OpenList

\* Structures, enumerations and distributions.
LEMMA VisitListStep ==
  ASSUME IInv, VisitStruct \/ VisitEnum \/ VisitDist
  PROVE  IInv'
<1>1. /\ Calling("visit")
      /\ Kind(Arg) \in {"StructUnionType", "EnumType", "DistConstraintList"}
      /\ Continue(pr, Scope(Arg)) \/ Continue(pr, OpenList(Arg))
  BY DEF VisitStruct, VisitEnum, VisitDist, Visiting
<1>2. doc \in Documents /\ Arg \in DOMAIN doc.nodes /\ Arg \in Nat
  BY <1>1, VisitTypes
<1>3. Tail1(Arg) # <<>>
  BY <1>1, <1>2, HasClose DEF ScopeKinds, BraceListKinds
<1>4. Scope(Arg) \in Balanced(Arg) /\ OpenList(Arg) \in Balanced(Arg)
  BY <1>1, <1>2, <1>3, ScopeCalls, OpenListCalls
<1> QED
  BY <1>1, <1>4, VisitIInv

\* The weight of an item of a distribution.
LEMMA VisitDistWeightStep ==
  ASSUME IInv, VisitDistWeight
  PROVE  IInv'
<1> DEFINE before == <<Do("weightSpaces", Head1(Arg)[1])>>
           behind == <<Do("oneSpace", 0)>>
<1>1. /\ Calling("visit") /\ Kind(Arg) = "DistWeight"
      /\ Continue(pr, before \o EmitAll(Head1(Arg)) \o behind \o EmitAll(Tail1(Arg)))
  BY DEF VisitDistWeight, Visiting
<1>2. /\ doc \in Documents /\ Arg \in DOMAIN doc.nodes /\ Arg \in Nat
      /\ Head1(Arg) \in Seq(DOMAIN doc.toks) /\ Head1(Arg) # <<>>
      /\ Tail1(Arg) \in Seq(DOMAIN doc.toks)
  BY <1>1, VisitTypes DEF IsWellShaped, Kind, Head1
<1>3. EmitAll(Head1(Arg)) \in Balanced(Arg) /\ EmitAll(Tail1(Arg)) \in Balanced(Arg)
  BY <1>2, EmitAllCalls
<1>4. Head1(Arg)[1] \in DOMAIN doc.toks
  BY <1>2, EmptySeq
<1>5. Do("weightSpaces", Head1(Arg)[1]) \in Flat(Arg)
  BY <1>2, <1>4, TokenCall DEF TokenOps
<1>6. before \in Balanced(Arg)
  BY <1>2, <1>5, OneFlat
<1>7. behind \in Balanced(Arg)
  BY <1>2, PlainCall, OneFlat DEF PlainOps
<1> HIDE DEF before, behind
<1>8. before \o EmitAll(Head1(Arg)) \o behind \o EmitAll(Tail1(Arg)) \in Balanced(Arg)
  BY <1>3, <1>6, <1>7, BalancedConcat
<1> QED
  BY <1>1, <1>8, VisitIInv

\* The import of a foreign function.
LEMMA VisitDpiImportStep ==
  ASSUME IInv, VisitDpiImport
  PROVE  IInv'
<1> DEFINE line  == <<Do("declarationLine", 0)>>
           ports == [k \in DOMAIN Kids(Arg) |-> Do("importPorts", Kids(Arg)[k])]
<1>1. /\ Calling("visit") /\ Kind(Arg) = "DPIImport"
      /\ Continue(pr, line \o EmitAll(Head1(Arg)) \o ports \o EmitAll(Tail1(Arg)))
  BY DEF VisitDpiImport, Visiting
<1>2. /\ doc \in Documents /\ Arg \in DOMAIN doc.nodes /\ Arg \in Nat
      /\ Kids(Arg) \in Seq(DOMAIN doc.nodes)
      /\ Tail1(Arg) \in Seq(DOMAIN doc.toks)
      /\ EmitAll(Head1(Arg)) \in Balanced(Arg)
      /\ IsWellShaped(doc.nodes[Arg], doc.nodes)
  BY <1>1, VisitTypes
<1>3. EmitAll(Tail1(Arg)) \in Balanced(Arg)
  BY <1>2, EmitAllCalls
<1>4. ASSUME NEW k \in DOMAIN Kids(Arg)
      PROVE  Do("importPorts", Kids(Arg)[k]) \in Flat(Arg)
  <2>1. Kids(Arg)[k] \in DOMAIN doc.nodes /\ Kids(Arg)[k] <= Arg
    BY <1>2, KidTypes
  <2>2. Kind(Kids(Arg)[k]) = "FunctionPortList"
    BY <1>1, <1>2 DEF IsWellShaped, Kind, Kids
  <2>3. "importPorts" \in KindOps /\ Kind(Kids(Arg)[k]) \in KindsFor("importPorts")
    BY <2>2 DEF KindOps, KindsFor
  <2> QED
    BY <1>2, <2>1, <2>3, KindCall
<1>5. ports \in Seq(Flat(Arg))
  BY <1>2, <1>4
<1>6. line \in Balanced(Arg) /\ ports \in Balanced(Arg)
  BY <1>2, <1>5, FlatBalanced, PlainCall, OneFlat DEF PlainOps
<1> HIDE DEF line, ports
<1>7. line \o EmitAll(Head1(Arg)) \o ports \o EmitAll(Tail1(Arg)) \in Balanced(Arg)
  BY <1>2, <1>3, <1>6, BalancedConcat
<1> QED
  BY <1>1, <1>7, VisitIInv

\* The ports of an import.
LEMMA ImportPortsStep ==
  ASSUME IInv, StartImportPorts
  PROVE  IInv'
<1>1. /\ work # <<>> /\ Head(work).op = "importPorts"
      /\ Continue(pr, OpenList(Arg)) \/ Continue(pr, <<Do("visit", Arg)>>)
  BY DEF StartImportPorts, Calling
<1>2. Head(work).op \in DescendOps /\ ~Leaves(doc, Head(work))
  BY <1>1 DEF DescendOps, NodeOps, KindOps, Leaves, LeavingOps
<1>3. doc \in Documents /\ Arg \in DOMAIN doc.nodes /\ Kind(Arg) = "FunctionPortList"
  BY <1>1, CallTypes DEF NodeOps, KindOps, KindsFor
<1>4. Arg \in Nat /\ Steady(pr)
  BY <1>3, NodeTypes, SteadyNow
<1>5. Tail1(Arg) # <<>>
  BY <1>3, HasClose DEF PortListKinds
<1>6. Do("visit", Arg) \in Flat(Arg)
  BY <1>3, <1>4, VisitCall
<1>7. OpenList(Arg) \in Balanced(Arg) /\ <<Do("visit", Arg)>> \in Balanced(Arg)
  BY <1>3, <1>4, <1>5, <1>6, OpenListCalls, OneFlat
<1> QED
  BY <1>1, <1>2, <1>4, <1>7, NodeContinue

\* The closing of a list, behind its level.
LEMMA CloseListCalls ==
  ASSUME doc \in Documents, NEW n \in DOMAIN doc.nodes, Tail1(n) # <<>>, NEW cond
  PROVE  <<Do("dedent", 0), Do("breakBeforeClose", CloseToken(n))>>
           \o When(cond, Do("emitEndTokenTrivia", CloseToken(n)))
           \o <<Do("primary", 0), Do("emitToken", CloseToken(n))>> \in Closing(n)
<1> DEFINE close  == CloseToken(n)
           dedent == <<Do("dedent", 0)>>
           break  == <<Do("breakBeforeClose", close)>>
           both   == <<Do("dedent", 0), Do("breakBeforeClose", close)>>
           trivia == When(cond, Do("emitEndTokenTrivia", close))
           end    == <<Do("primary", 0), Do("emitToken", close)>>
<1>1. n \in Nat \ {0} /\ close \in DOMAIN doc.toks
  BY DocumentTypes, CloseTokenType
<1>2. /\ Do("breakBeforeClose", close) \in Flat(n)
      /\ Do("emitEndTokenTrivia", close) \in Flat(n)
      /\ Do("emitToken", close) \in Flat(n) /\ Do("primary", 0) \in Flat(n)
  BY <1>1, TokenCall, PlainCall DEF TokenOps, PlainOps
<1>3. /\ dedent \in Closing(n) /\ break \in Balanced(n)
      /\ trivia \in Balanced(n) /\ end \in Balanced(n)
  BY <1>1, <1>2, DepthCalls, OneFlat, WhenCalls, TwoFlat
<1>4. both = dedent \o break
  BY PairConcat
<1> HIDE DEF dedent, break, both, trivia, end
<1>5. both \in Closing(n)
  BY <1>3, <1>4, ClosingThen
<1>6. both \o trivia \o end \in Closing(n)
  BY <1>3, <1>5, ClosingThen
<1> QED
  BY <1>6 DEF both, trivia, end

\* The loop over the items of a list.
LEMMA ListLoopStep ==
  ASSUME IInv, NextListItem
  PROVE  IInv'
<1> DEFINE i == Head(work).i
           p == StartListItem(Arg, i)
           close == CloseToken(Arg)
           item == <<Do("visit", Kids(Arg)[i])>> \o Comma(Arg, i)
                     \o <<DoNth("listItem", Arg, i + 1)>>
           end == <<Do("dedent", 0), Do("breakBeforeClose", close)>>
                    \o When(Kind(Arg) # "FunctionPortList", Do("emitEndTokenTrivia", close))
                    \o <<Do("primary", 0), Do("emitToken", close)>>
<1>1. /\ work # <<>> /\ Head(work).op = "listItem" /\ "listItem" \in LeavingOps
      /\ Leaves(doc, Head(work))
  BY DEF NextListItem, Calling, Leaves, LeavingOps
<1>2. doc \in Documents /\ Arg \in DOMAIN doc.nodes /\ Tail1(Arg) # <<>> /\ i \in Nat
  BY <1>1, CallTypes DEF NodeOps, ClosingOps, ListOps
<1>3. Steady(pr)
  BY SteadyNow
<1>4. CASE i \in DOMAIN Kids(Arg)
  <2>1. Continue(p, item)
    BY <1>4 DEF NextListItem
  <2>2. Steady(p)
    <3> DEFINE q == Primary(IF BreaksListItem(Arg, i) THEN ForceNewline(pr) ELSE pr)
    <3>1. Steady(ForceNewline(pr))
      BY <1>3, SteadyLayout
    <3>2. Steady(q)
      BY <1>3, <3>1, SteadyFlags
    <3>3. p = q \/ p = [q EXCEPT !.nextLineKind = "DistItem"]
      BY DEF StartListItem
    <3> HIDE DEF q
    <3>4. Steady([q EXCEPT !.nextLineKind = "DistItem"])
      BY <3>2, SteadyFlags DEF LineKinds
    <3> QED
      BY <3>2, <3>3, <3>4
  <2>3. item \in Closing(Arg)
    BY <1>1, <1>2, <1>4, ItemCalls
  <2> HIDE DEF p, item
  <2> QED
    BY <1>1, <2>1, <2>2, <2>3, LeaveContinue
<1>5. CASE i \notin DOMAIN Kids(Arg)
  <2>1. Continue(pr, end)
    BY <1>5 DEF NextListItem
  <2>2. end \in Closing(Arg)
    BY <1>2, CloseListCalls
  <2> HIDE DEF end
  <2> QED
    BY <1>1, <1>3, <2>1, <2>2, LeaveContinue
<1> QED
  BY <1>4, <1>5

-----------------------------------------------------------------------------
(* Coverpoints and crosses. *)

\* The tokens before the members.
LEMMA CoverCallsCalls ==
  ASSUME doc \in Documents, NEW n \in DOMAIN doc.nodes, Kind(n) \in CoverKinds
  PROVE  CoverCalls(n) \in Balanced(n)
<1>1. /\ n \in Nat /\ n <= n /\ Tail1(n) \in Seq(DOMAIN doc.toks)
      /\ Head1(n) \in Seq(DOMAIN doc.toks) /\ Head1(n) # <<>>
  BY NodeTypes DEF IsWellShaped, Kind, Head1, BraceListKinds
<1>2. Pop(Head1(n)) \in Seq(DOMAIN doc.toks)
  BY <1>1, PopProperties
<1>3. /\ EmitAll(Head1(n)) \in Balanced(n) /\ EmitAll(Tail1(n)) \in Balanced(n)
      /\ EmitAll(Pop(Head1(n))) \in Balanced(n)
  BY <1>1, <1>2, EmitAllCalls
<1>4. "coverItems" \in KindOps /\ Kind(n) \in KindsFor("coverItems")
  BY DEF KindOps, KindsFor
<1>5. Do("coverItems", n) \in Flat(n)
  BY <1>1, <1>4, KindCall
<1>6. <<Do("coverItems", n)>> \in Balanced(n)
  BY <1>1, <1>5, OneFlat
<1> QED
  BY <1>3, <1>6, BalancedConcat DEF CoverCalls

\* Coverpoints and crosses.
LEMMA VisitCoverStep ==
  ASSUME IInv, VisitCoverpoint \/ VisitCoverCross
  PROVE  IInv'
<1>1. /\ Calling("visit") /\ Kind(Arg) \in CoverKinds
      /\ Continue(pr, CoverCalls(Arg)) \/ Continue(pr, LabelCalls(Arg) \o CoverCalls(Arg))
  BY DEF VisitCoverpoint, VisitCoverCross, Visiting, CoverKinds
<1>2. /\ doc \in Documents /\ Arg \in DOMAIN doc.nodes
      /\ LabelCalls(Arg) \in Balanced(Arg)
  BY <1>1, VisitTypes
<1>3. CoverCalls(Arg) \in Balanced(Arg)
  BY <1>1, <1>2, CoverCallsCalls
<1>4. LabelCalls(Arg) \o CoverCalls(Arg) \in Balanced(Arg)
  BY <1>2, <1>3, BalancedConcat
<1> QED
  BY <1>1, <1>3, <1>4, VisitIInv

\* The members of a coverpoint: on one line or each on a line of its own.
LEMMA CoverItemsStep ==
  ASSUME IInv, StartCoverItems
  PROVE  IInv'
<1> DEFINE head   == Head1(Arg)
           brace  == <<Do("emitToken", head[Len(head)])>>
           inline == <<DoNth("inlineItem", Arg, 1)>>
           lines  == <<Do("indent", 0), DoNth("constraintItem", Arg, 1)>>
<1>1. work # <<>> /\ Head(work).op = "coverItems"
  BY DEF StartCoverItems, Calling
<1>2. Head(work).op \in DescendOps /\ ~Leaves(doc, Head(work))
  BY <1>1 DEF DescendOps, NodeOps, KindOps, Leaves, LeavingOps
<1>3. doc \in Documents /\ Arg \in DOMAIN doc.nodes /\ Kind(Arg) \in CoverKinds
  BY <1>1, CallTypes DEF NodeOps, KindOps, KindsFor
<1>4. Arg \in Nat /\ head \in Seq(DOMAIN doc.toks) /\ head # <<>> /\ Steady(pr)
  BY <1>3, NodeTypes, SteadyNow DEF IsWellShaped, Kind, Head1, BraceListKinds
<1>5. Tail1(Arg) # <<>>
  BY <1>3, HasClose DEF BraceListKinds
<1>6. head[Len(head)] \in DOMAIN doc.toks
  BY <1>4, EmptySeq
<1>7. Do("emitToken", head[Len(head)]) \in Flat(Arg)
  BY <1>3, <1>4, <1>6, TokenCall DEF TokenOps
<1>8. brace \in Balanced(Arg)
  BY <1>4, <1>7, OneFlat
<1>9. "inlineItem" \in StayingOps /\ "constraintItem" \in LeavingOps /\ 1 \in Nat
  BY DEF StayingOps, LeavingOps
<1>10. DoNth("inlineItem", Arg, 1) \in Flat(Arg)
  BY <1>3, <1>5, <1>9, StayingCall
<1>11. inline \in Balanced(Arg) /\ lines \in Balanced(Arg)
  BY <1>3, <1>4, <1>5, <1>9, <1>10, OneFlat, OpenScope
<1>12. Continue(pr, brace \o inline) \/ Continue(pr, brace \o lines)
  BY DEF StartCoverItems
<1> HIDE DEF brace, inline, lines
<1>13. brace \o inline \in Balanced(Arg) /\ brace \o lines \in Balanced(Arg)
  BY <1>8, <1>11, BalancedConcat
<1> QED
  BY <1>1, <1>2, <1>4, <1>12, <1>13, NodeContinue

\* The loop over the members on one line.
LEMMA InlineLoopStep ==
  ASSUME IInv, NextInlineItem
  PROVE  IInv'
<1> DEFINE i == Head(work).i
           close == CloseToken(Arg)
           item == <<Do("skipTrivia", First(Kids(Arg)[i])), Do("primary", 0),
                     Do("visit", Kids(Arg)[i]), DoNth("inlineItem", Arg, i + 1)>>
           end == <<Do("skipTrivia", close), Do("emitToken", close)>>
<1>1. /\ work # <<>> /\ Head(work).op = "inlineItem" /\ "inlineItem" \in StayingOps
      /\ Head(work).op \in DescendOps /\ ~Leaves(doc, Head(work))
  BY DEF NextInlineItem, Calling, StayingOps, DescendOps, NodeOps, ListOps, Leaves,
         LeavingOps
<1>2. doc \in Documents /\ Arg \in DOMAIN doc.nodes /\ Tail1(Arg) # <<>> /\ i \in Nat
  BY <1>1, CallTypes DEF NodeOps, ClosingOps, ListOps
<1>3. Arg \in Nat /\ i + 1 \in Nat /\ Steady(pr)
  BY <1>2, NodeTypes, SteadyNow
<1>4. CASE i \in DOMAIN Kids(Arg)
  <2>1. Continue(pr, item)
    BY <1>4 DEF NextInlineItem
  <2>2. First(Kids(Arg)[i]) \in DOMAIN doc.toks
    BY <1>2, <1>4, KidTypes
  <2>3. /\ Do("skipTrivia", First(Kids(Arg)[i])) \in Flat(Arg)
        /\ Do("primary", 0) \in Flat(Arg)
    BY <1>2, <1>3, <2>2, TokenCall, PlainCall DEF TokenOps, PlainOps
  <2>4. /\ Do("visit", Kids(Arg)[i]) \in Flat(Arg)
        /\ DoNth("inlineItem", Arg, i + 1) \in Flat(Arg)
    BY <1>1, <1>2, <1>3, <1>4, KidCalls, StayingCall
  <2>5. item \in Seq(Flat(Arg))
    BY <2>3, <2>4
  <2> HIDE DEF item
  <2>6. item \in Balanced(Arg)
    BY <1>3, <2>5, FlatBalanced
  <2> QED
    BY <1>1, <1>3, <2>1, <2>6, NodeContinue
<1>5. CASE i \notin DOMAIN Kids(Arg)
  <2>1. Continue(pr, end)
    BY <1>5 DEF NextInlineItem
  <2>2. close \in DOMAIN doc.toks
    BY <1>2, CloseTokenType
  <2>3. Do("skipTrivia", close) \in Flat(Arg) /\ Do("emitToken", close) \in Flat(Arg)
    BY <1>2, <1>3, <2>2, TokenCall DEF TokenOps
  <2>4. end \in Balanced(Arg)
    BY <1>3, <2>3, TwoFlat
  <2> HIDE DEF end
  <2> QED
    BY <1>1, <1>3, <2>1, <2>4, NodeContinue
<1> QED
  BY <1>4, <1>5


-----------------------------------------------------------------------------
(***************************************************************************)
(* The steps together, and the theorems.                                   *)
(***************************************************************************)

\* The handler of the node that is visited.
LEMMA VisitStep ==
  ASSUME IInv, Visit
  PROVE  IInv'
<1>1. CASE \/ VisitLeaf \/ VisitBlock \/ VisitLoop \/ VisitForLoop \/ VisitForever
           \/ VisitDoWhile \/ VisitConditional \/ VisitTimingControl
  BY <1>1, VisitBlockStep, VisitLoopStep, VisitConditionalStep
<1>2. CASE \/ VisitCase \/ VisitRandCase \/ VisitRandSequence
           \/ VisitCaseItem \/ VisitDefaultCaseItem \/ VisitRandCaseItem
           \/ VisitAssertion \/ VisitProduction \/ VisitRsCase
  BY <1>2, VisitCaseStep, VisitCaseItemStep, VisitAssertionStep, VisitProductionStep
<1>3. CASE \/ VisitClass \/ VisitChecker \/ VisitClocking \/ VisitConfig
           \/ VisitCovergroup \/ VisitProperty \/ VisitSequence
           \/ VisitGenerateBlock \/ VisitGenerateRegion \/ VisitFunction \/ VisitSpecify
  BY <1>3, VisitScopeStep
<1>4. CASE \/ VisitModule \/ VisitCompilationUnit
           \/ VisitCaseGenerate \/ VisitIfGenerate \/ VisitLoopGenerate
           \/ VisitProceduralBlock \/ VisitInitialBlock \/ VisitTimeUnits
           \/ VisitConstraint \/ VisitConstraintBlock
  BY <1>4, VisitModuleStep, VisitGenerateStep, VisitProceduralStep, VisitTimeUnitsStep,
     VisitConstraintStep
<1>5. CASE \/ VisitHeader \/ VisitConnection \/ VisitWildcard \/ VisitPortList
           \/ VisitInstantiation \/ VisitFunctionPorts
  BY <1>5, VisitPortListStep, VisitHeaderStep
<1>6. CASE \/ VisitBind \/ VisitDpiExport \/ VisitDefaults \/ VisitNames \/ VisitParameters
           \/ VisitItems
           \/ VisitContinuousAssign \/ VisitTypedef \/ VisitExpression
           \/ VisitDataDeclaration \/ VisitNetDeclaration \/ VisitPortDeclaration
  BY <1>6, VisitPlainDeclarationStep, VisitItemsStep, VisitDeclaratorsStep
<1>7. CASE \/ VisitStruct \/ VisitEnum \/ VisitDist \/ VisitDistWeight \/ VisitDpiImport
           \/ VisitCoverpoint \/ VisitCoverCross
  BY <1>7, VisitListStep, VisitDistWeightStep, VisitDpiImportStep, VisitCoverStep
<1> QED
  BY <1>1, <1>2, <1>3, <1>4, <1>5, <1>6, <1>7 DEF Visit

\* The loops.
LEMMA LoopStep ==
  ASSUME IInv, Loop
  PROVE  IInv'
BY ItemLoopStep, MemberLoopStep, PortLoopStep, InstanceLoopStep, ListedItemStep,
   DeclaratorLoopStep,
   ImportPortsStep, ListLoopStep, CoverItemsStep, InlineLoopStep DEF Loop

\* A step that changes nothing.
LEMMA StutterStep ==
  ASSUME IInv, UNCHANGED vars
  PROVE  IInv'
<1>1. doc' = doc /\ pr' = pr /\ work' = work
  BY DEF vars
<1> QED
  BY <1>1, IInvNext DEF IInv, LineComments

-----------------------------------------------------------------------------
(* The theorems. *)

\* The inductive invariant holds in every reachable state.
THEOREM Invariance == Spec => []IInv
<1>1. Init => IInv
  BY InitIInv
<1>2. IInv /\ [Next]_vars => IInv'
  <2> SUFFICES ASSUME IInv, [Next]_vars
               PROVE  IInv'
    OBVIOUS
  <2>1. CASE Visit
    BY <2>1, VisitStep
  <2>2. CASE Emit
    BY <2>2, EmitStep
  <2>3. CASE Lay
    BY <2>3, LayStep
  <2>4. CASE Loop
    BY <2>4, LoopStep
  <2>5. CASE Done \/ UNCHANGED vars
    BY <2>5, StutterStep DEF Done
  <2> QED
    BY <2>1, <2>2, <2>3, <2>4, <2>5 DEF Next
<1> QED
  BY <1>1, <1>2, PTL DEF Spec

\* The printer and the pending calls stay within their types: no handler calls
\* for a token or node the document lacks, and no helper leaves a field of the
\* printer out of its range.
THEOREM TypeCorrect == Spec => []TypeOK
<1>1. IInv => TypeOK
  <2>1. Calls \subseteq Call
    BY DEF Calls
  <2>2. IInv => work \in Seq(Call)
    BY <2>1 DEF IInv
  <2> QED
    BY <2>2 DEF IInv, Safe, InOrder, TypeOK
<1> QED
  BY <1>1, Invariance, PTL

\* lineStart, from which stripTrailingSpaces and the alignment read, always
\* points behind the last end of line (forceNewline, insertBlankLineBefore and
\* emitTrivia each move it).
THEOREM LineStartCorrect == Spec => []LineStartBeginsLine
<1>1. IInv => LineStartBeginsLine
  BY DEF IInv, Safe, InOrder, LineStartBeginsLine
<1> QED
  BY <1>1, Invariance, PTL

\* As long as emitToken would indent and emitTrivia take the line for a blank
\* one, the line holds no text.
THEOREM AtLineStartCorrect == Spec => []AtLineStartMeansNoText
<1>1. IInv => AtLineStartMeansNoText
  BY DEF IInv, Safe, NoTextAtLineStart, AtLineStartMeansNoText
<1> QED
  BY <1>1, Invariance, PTL

\* Nothing ever lands behind a line comment on its line, whatever the document and
\* the style: the lexer ends the line behind each, no handler that takes trivia from
\* in front of a token (emitEndTokenTrivia, emitLeadingTrailingComment) parts the
\* comment from that end, and no helper writes or removes anything in between.
THEOREM LineCommentsCorrect == Spec => []LineCommentEndsLine
<1>1. ASSUME IInv
      PROVE  LineCommentEndsLine
  <2> DEFINE out == pr.output
  <2>1. PICK S : out \in Seq(S)
    BY <1>1, Zenon DEF IInv, Safe, InOrder, Printer
  <2>2. Ended(out) \/ Ended(Append(out, Newline))
    BY <1>1 DEF IInv, LineComments, Tidy, Ending
  <2> HIDE DEF out
  <2>3. SUFFICES ASSUME NEW i \in 1..(Len(out) - 1), IsLineComment(out[i])
                 PROVE  out[i + 1].kind = "newline"
    BY DEF LineCommentEndsLine, out
  <2>4. CASE Ended(out)
    <3>1. i \in 1..Len(out)
      BY <2>1
    <3> QED
      BY <2>3, <2>4, <3>1 DEF Ended
  <2>5. CASE Ended(Append(out, Newline))
    <3> DEFINE t == Append(out, Newline)
               T == S \cup {Newline}
    <3>1. out \in Seq(T) /\ Newline \in T
      BY <2>1
    <3> HIDE DEF T
    <3>2. Len(t) = Len(out) + 1 /\ \A k \in 1..Len(out) : t[k] = out[k]
      BY <3>1
    <3>3. i \in 1..Len(t) /\ t[i] = out[i] /\ t[i + 1] = out[i + 1]
      BY <2>1, <3>2
    <3> HIDE DEF t
    <3>4. t[i + 1].kind = "newline"
      BY <2>3, <2>5, <3>3 DEF Ended, t
    <3> QED
      BY <3>3, <3>4
  <2> QED
    BY <2>2, <2>4, <2>5
<1> QED
  BY <1>1, Invariance, PTL

\* finalizeLine is called exactly once for every end of line written, so that
\* the k-th record is that of the k-th end of line.
THEOREM MetadataCorrect == Spec => []MetadataPerLine
<1>1. IInv => MetadataPerLine
  BY DEF IInv, Safe, InOrder, MetadataPerLine
<1> QED
  BY <1>1, Invariance, PTL

\* Whatever the path through the handlers, each scope is left as often as it is
\* entered: the depth never runs below zero, never above the number of nodes,
\* and is back at zero when the last handler returns.  Documents whose disabled
\* branches hold begin or end are left out: emitTrivia counts these too, and
\* nothing makes them match.
THEOREM DepthCorrect ==
  ASSUME NoDisabledScopes, RoomForDepth
  PROVE  Spec => []DepthBalanced
<1>1. IInv => DepthBalanced
  <2> SUFFICES ASSUME IInv
               PROVE  DepthBalanced
    OBVIOUS
  <2>1. /\ doc \in Documents /\ work \in Seq(Calls)
        /\ Leads(doc, work, pr.depth, 0, Len(doc.nodes))
    BY DEF IInv, DepthCounts
  <2>2. Len(doc.nodes) \in Nat
    BY <2>1, DocumentTypes
  <2>3. CASE work = <<>>
    <3>1. PICK levels \in [1..(Len(work) + 1) -> Nat] :
            LeadsBy(doc, work, levels, pr.depth, 0, Len(doc.nodes))
      BY <2>1, Zenon DEF Leads
    <3>2. Len(work) + 1 = 1
      BY <2>3
    <3>3. pr.depth = 0
      BY <3>1, <3>2 DEF LeadsBy
    <3> QED
      BY <2>2, <3>3 DEF DepthBalanced
  <2>4. CASE work # <<>>
    <3>1. pr.depth \in Nat /\ pr.depth + Height(doc, Head(work)) <= Len(doc.nodes)
      BY <2>1, <2>4, LeadsFirst
    <3>2. Height(doc, Head(work)) \in Nat
      <4>1. Head(work) \in Calls
        BY <2>1, <2>4
      <4> QED
        BY <2>1, <4>1, CallHeight
    <3>3. pr.depth <= Len(doc.nodes)
      BY <2>2, <3>1, <3>2
    <3> QED
      BY <2>4, <3>3 DEF DepthBalanced, Finished
  <2> QED
    BY <2>3, <2>4
<1> QED
  BY <1>1, Invariance, PTL

\* No comment of a document spans several lines.
CommentsOnOneLine ==
  \A d \in Documents : \A i \in DOMAIN d.toks : \A j \in DOMAIN d.toks[i].trivia :
    IsComment(d.toks[i].trivia[j]) => d.toks[i].trivia[j].lines = 0

\* The newlines counted in front of an item are those that any function counts
\* which adds them up.
LEMMA LineIndexCounted ==
  ASSUME pr.output \in Seq(Item), NEW i \in DOMAIN pr.output,
         NEW lines \in [0..Len(pr.output) -> Nat], lines[0] = 0,
         \A n \in 1..Len(pr.output) : lines[n] = lines[n - 1] + NewlinesIn(pr.output[n])
  PROVE  LineIndexAt(i) = lines[i - 1]
<1> DEFINE Rule(f) == [n \in 0..(i - 1) |->
                         IF n = 0 THEN 0 ELSE f[n - 1] + NewlinesIn(pr.output[n])]
           upTo == CHOOSE f : f = Rule(f)
           front == [n \in 0..(i - 1) |-> lines[n]]
           Agrees == {n \in Nat : n <= i - 1 => upTo[n] = lines[n]}
<1>1. LineIndexAt(i) = upTo[i - 1]
  BY DEF LineIndexAt
<1>2. /\ i \in 1..Len(pr.output) /\ i - 1 \in Nat
      /\ \A n \in 0..(i - 1) : n \in 0..Len(pr.output)
      /\ \A n \in 1..(i - 1) : n \in 1..Len(pr.output) /\ n - 1 \in 0..(i - 1)
  OBVIOUS
<1>3. front = Rule(front)
  BY <1>2
<1>4. upTo = Rule(upTo)
  BY <1>3
<1>5. \A n \in 0..(i - 1) :
        upTo[n] = IF n = 0 THEN 0 ELSE upTo[n - 1] + NewlinesIn(pr.output[n])
  <2> HIDE DEF upTo
  <2> QED
    BY <1>4
<1> HIDE DEF upTo, front
<1>6. 0 \in Agrees
  BY <1>2, <1>5
<1>7. ASSUME NEW n \in Nat, n \in Agrees
      PROVE  n + 1 \in Agrees
  <2> SUFFICES ASSUME n + 1 <= i - 1 PROVE upTo[n + 1] = lines[n + 1]
    OBVIOUS
  <2>1. n + 1 \in 1..(i - 1) /\ n + 1 \in 0..(i - 1) /\ n + 1 # 0 /\ (n + 1) - 1 = n
    BY <1>2
  <2>2. upTo[n] = lines[n]
    BY <1>2, <1>7, <2>1
  <2> QED
    BY <1>2, <1>5, <2>1, <2>2
<1>8. i - 1 \in Agrees
  <2> HIDE DEF Agrees
  <2> QED
    BY <1>2, <1>6, <1>7, Induction
<1> QED
  BY <1>1, <1>2, <1>8

\* The number by which the alignment finds the record of a line is that of the
\* line in the output, directives in several lines counted, as long as comments,
\* whose newlines emitTrivia does not count, stand on one line each.
THEOREM LineNumbersCorrect ==
  ASSUME CommentsOnOneLine
  PROVE  Spec => []LineNumberIsOutputLine
<1>1. IInv => LineNumberIsOutputLine
  <2> SUFFICES ASSUME IInv, NEW i \in DOMAIN pr.output, pr.output[i].kind = "newline"
               PROVE  RecordAt(pr, i).lineNumber = LineIndexAt(i)
    BY DEF LineNumberIsOutputLine, RecordAt
  <2>1. pr.output \in Seq(Item) /\ Numbered(pr)
    BY Zenon DEF IInv, Safe, InOrder, Printer
  <2>2. PICK lines \in [0..Len(pr.output) -> Nat] : NumberedBy(pr, lines)
    BY <2>1 DEF Numbered
  <2>3. CommentLines \subseteq {0}
    BY DEF CommentLines, CommentsOnOneLine
  <2>4. \A n \in 1..Len(pr.output) : Counted(pr.output[n]) = NewlinesIn(pr.output[n])
    <3> TAKE n \in 1..Len(pr.output)
    <3>1. pr.output[n].kind = "comment" => pr.output[n].size = 0
      BY <2>1, <2>3 DEF Numbered
    <3> QED
      BY <3>1 DEF Counted, NewlinesIn
  <2>5. /\ lines[0] = 0
        /\ \A n \in 1..Len(pr.output) : lines[n] = lines[n - 1] + NewlinesIn(pr.output[n])
        /\ RecordAt(pr, i).lineNumber = lines[i - 1]
    BY <2>1, <2>2, <2>4 DEF NumberedBy
  <2>6. LineIndexAt(i) = lines[i - 1]
    BY <2>1, <2>2, <2>5, LineIndexCounted
  <2> QED
    BY <2>5, <2>6
<1> QED
  BY <1>1, Invariance, PTL

=============================================================================
