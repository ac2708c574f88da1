---------------------------- MODULE ContentProofs ----------------------------
(***************************************************************************)
(* The printer copies its document: every token, comment and directive,    *)
(* each once and in the order of the source, for every document, of any    *)
(* size and depth, and every style.                                        *)
(*                                                                         *)
(* The document is laid out in places, one in front of each token and one  *)
(* behind those of its trivia that are emitted early (At, Mid), and every  *)
(* pending call takes the copy from one place to another (Spans).  A       *)
(* sequence of calls carries it from where the first one begins to where   *)
(* the last one ends (Carries), and a handler passes it on when the calls  *)
(* that it is replaced by carry it as far as it did itself (PassesOn).     *)
(* That this is so for every handler follows from the order of the tokens  *)
(* in its node.  The invariant (CopyInv) says that the output holds the    *)
(* content in front of some place, and that the pending calls carry the    *)
(* copy from there to the end.                                             *)
(*                                                                         *)
(* Two things the printer does leave out, and the theorem is about the     *)
(* documents that have neither: comments within a directive                *)
(* (DirectivesHoldNoComments), and what stands in front of the first or    *)
(* the last token of a node that is put on one line, when it is a          *)
(* directive, or the last token's (NothingLeftOut).                        *)
(***************************************************************************)
EXTENDS FormatPrinterProofs

\* Two functions over 0..N that start alike and go on alike end alike.
LEMMA SameSteps ==
  \A N \in Nat : \A f, g :
    f[0] = g[0] /\ (\A k \in 1..N : f[k - 1] = g[k - 1] => f[k] = g[k])
      => \A k \in 0..N : f[k] = g[k]
<1> SUFFICES ASSUME NEW N \in Nat, NEW f, NEW g, f[0] = g[0],
                    \A k \in 1..N : f[k - 1] = g[k - 1] => f[k] = g[k]
             PROVE  \A k \in 0..N : f[k] = g[k]
  OBVIOUS
<1> DEFINE T == {k \in Nat : k <= N => f[k] = g[k]}
<1>1. 0 \in T
  OBVIOUS
<1>2. ASSUME NEW k \in Nat, k \in T
      PROVE  k + 1 \in T
  <2> SUFFICES ASSUME k + 1 <= N PROVE f[k + 1] = g[k + 1]
    OBVIOUS
  <2>1. k + 1 \in 1..N /\ (k + 1) - 1 = k /\ f[k] = g[k]
    BY <1>2
  <2> QED
    BY <2>1
<1>3. Nat \subseteq T
  <2> HIDE DEF T
  <2> QED
    BY <1>1, <1>2, Induction
<1> QED
  BY <1>3

\* What the recursion for the places of texts makes of a sequence of items: the
\* same as any function that adds them up.
AddsPlaces(f, items) ==
  /\ f[0] = <<>>
  /\ \A k \in 1..Len(items) :
       f[k] = IF IsText(items[k]) THEN Append(f[k - 1], items[k].at) ELSE f[k - 1]

\* There is such a function.
LEMMA PlacesDefined ==
  ASSUME NEW items \in Seq(Item)
  PROVE  \E f \in [0..Len(items) -> Seq(Nat \X Nat)] : AddsPlaces(f, items)
<1> DEFINE N == Len(items)
           S == Seq(Nat \X Nat)
           step == [pair \in (1..N) \X S |->
                      IF IsText(items[pair[1]]) THEN Append(pair[2], items[pair[1]].at)
                      ELSE pair[2]]
<1>1. N \in Nat /\ <<>> \in S /\ \A k \in 1..N : items[k].at \in Nat \X Nat
  <2>1. \A k \in 1..N : items[k] \in Item
    OBVIOUS
  <2>2. \A item \in Item : item.at \in Nat \X Nat
    BY DEF Item
  <2> QED
    BY <2>1, <2>2
<1>2. PICK g \in [0..N -> S] : Iterates(g, <<>>, step, N)
  <2>1. step \in [(1..N) \X S -> S]
    BY <1>1
  <2> HIDE DEF step, N, S
  <2> QED
    BY <1>1, <2>1, Recursion
<1>3. \A k \in 1..N :
        g[k] = IF IsText(items[k]) THEN Append(g[k - 1], items[k].at) ELSE g[k - 1]
  <2>1. \A k \in 1..N : k - 1 \in 0..N /\ g[k - 1] \in S
    BY <1>1
  <2> QED
    BY <1>2, <2>1 DEF Iterates
<1> QED
  BY <1>2, <1>3 DEF Iterates, AddsPlaces

\* And Origins is its last value.
LEMMA PlacesAdded ==
  ASSUME NEW items \in Seq(Item), NEW f, AddsPlaces(f, items)
  PROVE  Origins(items) = f[Len(items)]
<1> DEFINE N == Len(items)
           Rule(h) == [k \in 0..N |->
                         IF k = 0 THEN <<>>
                         ELSE IF IsText(items[k]) THEN Append(h[k - 1], items[k].at)
                         ELSE h[k - 1]]
           upTo == CHOOSE h : h = Rule(h)
           g == [k \in 0..N |-> f[k]]
<1>1. N \in Nat
  OBVIOUS
<1>2. g = Rule(g)
  <2>1. ASSUME NEW k \in 0..N
        PROVE  g[k] = IF k = 0 THEN <<>>
                      ELSE IF IsText(items[k]) THEN Append(g[k - 1], items[k].at)
                      ELSE g[k - 1]
    <3>1. k # 0 => k \in 1..N /\ k - 1 \in 0..N
      BY <1>1
    <3> QED
      BY <3>1 DEF AddsPlaces
  <2> HIDE DEF N
  <2> QED
    BY <2>1
<1>3. upTo = Rule(upTo)
  <2> HIDE DEF Rule
  <2> QED
    BY <1>2
<1>4. Origins(items) = upTo[N]
  BY DEF Origins
<1>5. \A k \in 0..N : upTo[k] = IF k = 0 THEN <<>>
                         ELSE IF IsText(items[k]) THEN Append(upTo[k - 1], items[k].at)
                         ELSE upTo[k - 1]
  <2> HIDE DEF upTo
  <2> QED
    BY <1>3
<1> HIDE DEF upTo, Rule, g
<1>6. upTo[0] = f[0]
  BY <1>1, <1>5 DEF AddsPlaces
<1>7. \A k \in 1..N : upTo[k - 1] = f[k - 1] => upTo[k] = f[k]
  BY <1>1, <1>5 DEF AddsPlaces
<1>8. \A k \in 0..N : upTo[k] = f[k]
  <2> HIDE DEF N
  <2> QED
    BY <1>1, <1>6, <1>7, SameSteps
<1> QED
  BY <1>1, <1>4, <1>8

\* An item more adds its place if it is a text.
LEMMA OriginsAppend ==
  ASSUME NEW items \in Seq(Item), NEW item \in Item
  PROVE  /\ Origins(items) \in Seq(Nat \X Nat)
         /\ Origins(Append(items, item))
              = IF IsText(item) THEN Append(Origins(items), item.at) ELSE Origins(items)
<1> DEFINE N == Len(items)
           more == Append(items, item)
<1>1. /\ N \in Nat /\ more \in Seq(Item) /\ Len(more) = N + 1 /\ more[N + 1] = item
      /\ \A k \in 1..N : more[k] = items[k] /\ k \in 1..(N + 1)
  OBVIOUS
<1> HIDE DEF more
<1>2. PICK f \in [0..(N + 1) -> Seq(Nat \X Nat)] : AddsPlaces(f, more)
  BY <1>1, PlacesDefined
<1>3. Origins(more) = f[N + 1]
  BY <1>1, <1>2, PlacesAdded
<1>4. AddsPlaces(f, items)
  BY <1>1, <1>2 DEF AddsPlaces
<1>5. Origins(items) = f[N]
  BY <1>4, PlacesAdded
<1>6. f[N + 1] = IF IsText(item) THEN Append(f[N], item.at) ELSE f[N]
  <2>1. N + 1 \in 1..(N + 1) /\ (N + 1) - 1 = N
    BY <1>1
  <2> QED
    BY <1>1, <1>2, <2>1 DEF AddsPlaces
<1> QED
  BY <1>1, <1>2, <1>3, <1>5, <1>6 DEF more

\* What is no text and comes last may go, or change.
LEMMA OriginsPop ==
  ASSUME NEW items \in Seq(Item), items # <<>>, ~IsText(items[Len(items)])
  PROVE  Origins(Pop(items)) = Origins(items)
<1>1. /\ Pop(items) \in Seq(Item) /\ items[Len(items)] \in Item
      /\ items = Append(Pop(items), items[Len(items)])
  BY DEF Pop
<1> QED
  BY <1>1, OriginsAppend

\* Items may change in anything but whether they are texts, and whose.
LEMMA OriginsSame ==
  ASSUME NEW items \in Seq(Item), NEW other \in Seq(Item), Len(other) = Len(items),
         \A k \in 1..Len(items) :
           /\ IsText(other[k]) <=> IsText(items[k])
           /\ IsText(items[k]) => other[k].at = items[k].at
  PROVE  Origins(other) = Origins(items)
<1>1. PICK f \in [0..Len(items) -> Seq(Nat \X Nat)] : AddsPlaces(f, items)
  BY PlacesDefined
<1>2. AddsPlaces(f, other)
  BY <1>1 DEF AddsPlaces
<1> QED
  BY <1>1, <1>2, PlacesAdded

\* The texts in front of a token, one trivia after the other.
LEMMA TriviaTextType ==
  ASSUME NEW d, NEW i \in Nat, NEW j \in Nat
  PROVE  TriviaText(d, i, j) \in Seq(Nat \X Nat) /\ TokenText(d, i) \in Seq(Nat \X Nat)
<1>1. /\ <<>> \in Seq(Nat \X Nat)
      /\ \A at \in Nat \X Nat : <<at>> \in Seq(Nat \X Nat)
  OBVIOUS
<1>2. <<i, j>> \in Nat \X Nat /\ <<i, 0>> \in Nat \X Nat
  OBVIOUS
<1>3. <<<<i, j>>>> \in Seq(Nat \X Nat) /\ <<<<i, 0>>>> \in Seq(Nat \X Nat)
  BY <1>1, <1>2
<1> QED
  BY <1>1, <1>3, Zenon DEF TriviaText, TokenText

AddsTrivia(f, d, i, n) ==
  /\ f[0] = <<>>
  /\ \A j \in 1..n : f[j] = f[j - 1] \o TriviaText(d, i, j)

\* The texts among the first trivia of a token, likewise.
LEMMA TriviaDefined ==
  ASSUME NEW d, NEW i \in Nat, NEW n \in Nat
  PROVE  \E f \in [0..n -> Seq(Nat \X Nat)] : AddsTrivia(f, d, i, n)
<1> DEFINE S == Seq(Nat \X Nat)
           step == [pair \in (1..n) \X S |-> pair[2] \o TriviaText(d, i, pair[1])]
<1>1. <<>> \in S /\ \A j \in 1..n : TriviaText(d, i, j) \in S
  <2>1. \A j \in 1..n : j \in Nat
    OBVIOUS
  <2>2. \A j \in Nat : TriviaText(d, i, j) \in S
    BY TriviaTextType
  <2> QED
    BY <2>1, <2>2
<1>2. \A j \in 1..n : \A s \in S : s \o TriviaText(d, i, j) \in S
  BY <1>1, ConcatProperties
<1>3. PICK g \in [0..n -> S] : Iterates(g, <<>>, step, n)
  <2>1. step \in [(1..n) \X S -> S]
    BY <1>2
  <2> HIDE DEF step, S
  <2> QED
    BY <1>1, <2>1, Recursion
<1>4. \A j \in 1..n : g[j] = g[j - 1] \o TriviaText(d, i, j)
  <2>1. \A j \in 1..n : j - 1 \in 0..n /\ g[j - 1] \in S
    OBVIOUS
  <2> QED
    BY <1>3, <2>1 DEF Iterates
<1> QED
  BY <1>3, <1>4 DEF Iterates, AddsTrivia

LEMMA TriviaAdded ==
  ASSUME NEW d, NEW i \in Nat, NEW n \in Nat, NEW f, AddsTrivia(f, d, i, n)
  PROVE  TriviaTexts(d, i, n) = f[n]
<1> DEFINE Rule(h) == [j \in 0..n |->
                         IF j = 0 THEN <<>> ELSE h[j - 1] \o TriviaText(d, i, j)]
           upTo == CHOOSE h : h = Rule(h)
           g == [j \in 0..n |-> f[j]]
<1>1. g = Rule(g)
  <2>1. ASSUME NEW j \in 0..n
        PROVE  g[j] = IF j = 0 THEN <<>> ELSE g[j - 1] \o TriviaText(d, i, j)
    <3>1. j # 0 => j \in 1..n /\ j - 1 \in 0..n
      OBVIOUS
    <3> QED
      BY <3>1 DEF AddsTrivia
  <2> QED
    BY <2>1
<1>2. upTo = Rule(upTo)
  <2> HIDE DEF Rule
  <2> QED
    BY <1>1
<1>3. TriviaTexts(d, i, n) = upTo[n]
  BY DEF TriviaTexts
<1>4. \A j \in 0..n :
        upTo[j] = IF j = 0 THEN <<>> ELSE upTo[j - 1] \o TriviaText(d, i, j)
  <2> HIDE DEF upTo
  <2> QED
    BY <1>2
<1> HIDE DEF upTo, Rule, g
<1>5. upTo[0] = f[0]
  BY <1>4 DEF AddsTrivia
<1>6. \A j \in 1..n : upTo[j - 1] = f[j - 1] => upTo[j] = f[j]
  <2>1. \A j \in 1..n : j \in 0..n /\ j # 0
    OBVIOUS
  <2> QED
    BY <1>4, <2>1 DEF AddsTrivia
<1>7. \A j \in 0..n : upTo[j] = f[j]
  BY <1>5, <1>6, SameSteps
<1> QED
  BY <1>3, <1>7

\* TriviaTexts by recursion, without the function.
LEMMA TriviaTextsNext ==
  ASSUME NEW d, NEW i \in Nat, NEW n \in Nat
  PROVE  /\ TriviaTexts(d, i, 0) = <<>>
         /\ TriviaTexts(d, i, n) \in Seq(Nat \X Nat)
         /\ TriviaTexts(d, i, n + 1) = TriviaTexts(d, i, n) \o TriviaText(d, i, n + 1)
<1>1. PICK f \in [0..(n + 1) -> Seq(Nat \X Nat)] : AddsTrivia(f, d, i, n + 1)
  <2>1. n + 1 \in Nat
    OBVIOUS
  <2> QED
    BY <2>1, TriviaDefined
<1>2. AddsTrivia(f, d, i, n) /\ AddsTrivia(f, d, i, 0)
  <2>1. 1..n \subseteq 1..(n + 1) /\ 1..0 = {}
    OBVIOUS
  <2> QED
    BY <1>1, <2>1 DEF AddsTrivia
<1>3. /\ TriviaTexts(d, i, n + 1) = f[n + 1]
      /\ TriviaTexts(d, i, n) = f[n]
      /\ TriviaTexts(d, i, 0) = f[0]
  BY <1>1, <1>2, TriviaAdded
<1>4. f[n + 1] = f[n] \o TriviaText(d, i, n + 1) /\ f[0] = <<>>
  <2>1. n + 1 \in 1..(n + 1) /\ (n + 1) - 1 = n
    OBVIOUS
  <2> QED
    BY <1>1, <2>1 DEF AddsTrivia
<1>5. f[n] \in Seq(Nat \X Nat)
  BY <1>1
<1> QED
  BY <1>3, <1>4, <1>5

\* The texts of the tokens, one token after the other.
Whole(d, i) == TriviaTexts(d, i, Len(d.toks[i].trivia)) \o TokenText(d, i)

AddsTokens(f, d, n) ==
  /\ f[0] = <<>>
  /\ \A i \in 1..n : f[i] = f[i - 1] \o Whole(d, i)

\* The contents of the first tokens, likewise.
LEMMA TokensDefined ==
  ASSUME NEW d, NEW n \in Nat, \A i \in 1..n : Len(d.toks[i].trivia) \in Nat
  PROVE  \E f \in [0..n -> Seq(Nat \X Nat)] : AddsTokens(f, d, n)
<1> DEFINE S == Seq(Nat \X Nat)
           step == [pair \in (1..n) \X S |-> pair[2] \o Whole(d, pair[1])]
<1>1. <<>> \in S /\ \A i \in 1..n : Whole(d, i) \in S
  <2>1. \A i \in 1..n : /\ TriviaTexts(d, i, Len(d.toks[i].trivia)) \in S
                        /\ TokenText(d, i) \in S
    <3> SUFFICES ASSUME NEW i \in 1..n
                 PROVE  /\ TriviaTexts(d, i, Len(d.toks[i].trivia)) \in S
                        /\ TokenText(d, i) \in S
      OBVIOUS
    <3>1. i \in Nat /\ Len(d.toks[i].trivia) \in Nat /\ 0 \in Nat
      OBVIOUS
    <3> QED
      BY <3>1, TriviaTextsNext, TriviaTextType
  <2> QED
    BY <2>1, ConcatProperties DEF Whole
<1>2. \A i \in 1..n : \A s \in S : s \o Whole(d, i) \in S
  BY <1>1, ConcatProperties
<1>3. PICK g \in [0..n -> S] : Iterates(g, <<>>, step, n)
  <2>1. step \in [(1..n) \X S -> S]
    BY <1>2
  <2> HIDE DEF step, S
  <2> QED
    BY <1>1, <2>1, Recursion
<1>4. \A i \in 1..n : g[i] = g[i - 1] \o Whole(d, i)
  <2>1. \A i \in 1..n : i - 1 \in 0..n /\ g[i - 1] \in S
    OBVIOUS
  <2> QED
    BY <1>3, <2>1 DEF Iterates
<1> QED
  BY <1>3, <1>4 DEF Iterates, AddsTokens

LEMMA TokensAdded ==
  ASSUME NEW d, NEW n \in Nat, NEW f, AddsTokens(f, d, n)
  PROVE  FirstContents(d, n) = f[n]
<1> DEFINE Rule(h) == [i \in 0..n |-> IF i = 0 THEN <<>> ELSE h[i - 1] \o Whole(d, i)]
           upTo == CHOOSE h : h = Rule(h)
           g == [i \in 0..n |-> f[i]]
<1>1. g = Rule(g)
  <2>1. ASSUME NEW i \in 0..n
        PROVE  g[i] = IF i = 0 THEN <<>> ELSE g[i - 1] \o Whole(d, i)
    <3>1. i # 0 => i \in 1..n /\ i - 1 \in 0..n
      OBVIOUS
    <3> QED
      BY <3>1 DEF AddsTokens
  <2> QED
    BY <2>1
<1>2. upTo = Rule(upTo)
  <2> HIDE DEF Rule
  <2> QED
    BY <1>1
<1>3. FirstContents(d, n) = upTo[n]
  BY DEF FirstContents, Whole
<1>4. \A i \in 0..n : upTo[i] = IF i = 0 THEN <<>> ELSE upTo[i - 1] \o Whole(d, i)
  <2> HIDE DEF upTo
  <2> QED
    BY <1>2
<1> HIDE DEF upTo, Rule, g
<1>5. upTo[0] = f[0]
  BY <1>4 DEF AddsTokens
<1>6. \A i \in 1..n : upTo[i - 1] = f[i - 1] => upTo[i] = f[i]
  <2>1. \A i \in 1..n : i \in 0..n /\ i # 0
    OBVIOUS
  <2> QED
    BY <1>4, <2>1 DEF AddsTokens
<1>7. \A i \in 0..n : upTo[i] = f[i]
  BY <1>5, <1>6, SameSteps
<1> QED
  BY <1>3, <1>7

\* FirstContents by recursion, without the function.
LEMMA FirstContentsNext ==
  ASSUME NEW d, NEW n \in Nat, \A i \in 1..(n + 1) : Len(d.toks[i].trivia) \in Nat
  PROVE  /\ FirstContents(d, 0) = <<>>
         /\ FirstContents(d, n) \in Seq(Nat \X Nat)
         /\ FirstContents(d, n + 1) = FirstContents(d, n) \o Whole(d, n + 1)
<1>1. PICK f \in [0..(n + 1) -> Seq(Nat \X Nat)] : AddsTokens(f, d, n + 1)
  <2>1. n + 1 \in Nat
    OBVIOUS
  <2> QED
    BY <2>1, TokensDefined
<1>2. AddsTokens(f, d, n) /\ AddsTokens(f, d, 0)
  <2>1. 1..n \subseteq 1..(n + 1) /\ 1..0 = {}
    OBVIOUS
  <2> QED
    BY <1>1, <2>1 DEF AddsTokens
<1>3. /\ FirstContents(d, n + 1) = f[n + 1]
      /\ FirstContents(d, n) = f[n]
      /\ FirstContents(d, 0) = f[0]
  BY <1>1, <1>2, TokensAdded
<1>4. f[n + 1] = f[n] \o Whole(d, n + 1) /\ f[0] = <<>>
  <2>1. n + 1 \in 1..(n + 1) /\ (n + 1) - 1 = n
    OBVIOUS
  <2> QED
    BY <1>1, <2>1 DEF AddsTokens
<1>5. f[n] \in Seq(Nat \X Nat)
  BY <1>1
<1> QED
  BY <1>3, <1>4, <1>5

-----------------------------------------------------------------------------
(* Where calls take up the copy and where they leave it. *)

\* In front of token x, and in front of it with trivia of it written early.
At(x)  == <<x, 0>>
Mid(x) == <<x, 1>>

\* Nothing of a token's trivia is to be copied, nor to be left out of the copy.
HoldsNothing(d, i) ==
  \A j \in DOMAIN d.toks[i].trivia :
    /\ ~HasText(d.toks[i].trivia[j])
    /\ d.toks[i].trivia[j].kind # "MacroUsage"

VisitOps == {"visit", "visitExpanded", "importPorts"}
LoopOps ==
  {"member", "moduleMember", "blockItem", "constraintItem", "rsItem", "port",
   "wrappedPort", "plainPort", "instance", "declarator", "listedItem", "listItem",
   "inlineItem"}
FirstOps == {"portList", "instances"}

KidAt(d, n, k) == At(StartOf(d.nodes[n], k, d.nodes))
EndAt(d, n)    == At(d.nodes[n].last + 1)

\* The nodes that an operation is for.  What is laid out on one line has no trivia
\* to be copied in front of its items.
Suits(d, op, n) ==
  LET node == d.nodes[n]
  IN  CASE op = "declarator" -> node.kind \in DeclaratorKinds
        [] op \in {"instances", "instance"} -> node.kind = "HierarchyInstantiation"
        [] op \in {"portList", "port", "wrappedPort", "plainPort", "listedItem", "listItem"} ->
             node.kind \in SeparatedKinds \ (DeclaratorKinds \cup {"HierarchyInstantiation"})
        [] op \in {"constraintItem", "coverItems", "inlineItem"} ->
             /\ node.kind = "ConstraintBlock" \/ (node.kind \in CoverKinds /\ node.kids # <<>>)
             /\ op = "inlineItem" =>
                  /\ HoldsNothing(d, node.tail[1])
                  /\ \A k \in DOMAIN node.kids : HoldsNothing(d, d.nodes[node.kids[k]].first)
        [] OTHER -> node.kind \notin SeparatedKinds \cup ElseKinds

\* A loop goes on with item k of node n.
GoesOn(d, op, n, k) ==
  /\ Suits(d, op, n)
  /\ k \in Nat /\ k > Unseparated(d.nodes[n], d.nodes)

\* The place a that a call c is made at, and the place b reached when it and all
\* that it calls have been made.
Spans(d, c, a, b) ==
  CASE c.op \in {"emitToken", "emitOperator"} ->
         a \in {At(c.x), Mid(c.x)} /\ b = At(c.x + 1)
    [] c.op \in {"emitEndTokenTrivia", "insertBlankLineBefore"} ->
         a = At(c.x) /\ b = Mid(c.x)
    [] c.op = "skipTrivia" -> a = At(c.x) /\ b = At(c.x) /\ HoldsNothing(d, c.x)
    [] c.op \in VisitOps ->
         /\ \/ a = At(d.nodes[c.x].first)
            \/ a = Mid(d.nodes[c.x].first) /\ d.nodes[c.x].kind = "Header"
         /\ b = EndAt(d, c.x)
    [] c.op \in LoopOps ->
         a = KidAt(d, c.x, c.i) /\ b = EndAt(d, c.x) /\ GoesOn(d, c.op, c.x, c.i)
    [] c.op \in FirstOps ->
         a = KidAt(d, c.x, 1) /\ b = EndAt(d, c.x) /\ Suits(d, c.op, c.x)
    [] c.op = "coverItems" ->
         /\ a = At(d.nodes[c.x].head[Len(d.nodes[c.x].head)]) /\ b = EndAt(d, c.x)
         /\ Suits(d, c.op, c.x)
    [] c.op = "closeScope" ->
         /\ a \in {At(d.nodes[c.x].tail[1]), Mid(d.nodes[c.x].tail[1])}
         /\ b = EndAt(d, c.x) /\ Suits(d, c.op, c.x)
    [] OTHER -> c.op \notin {"emitTrivia", "finishToken"} /\ b = a

\* The calls take the copy from a to b.
CarriesBy(d, calls, places, a, b) ==
  /\ places[1] = a
  /\ places[Len(calls) + 1] = b
  /\ \A k \in 1..Len(calls) : Spans(d, calls[k], places[k], places[k + 1])

Carries(d, calls, a, b) ==
  /\ \E S : calls \in Seq(S)
  /\ \E places : CarriesBy(d, calls, places, a, b)

\* No call, and one.
LEMMA CarryNone ==
  ASSUME NEW d, NEW a
  PROVE  Carries(d, <<>>, a, a)
<1> DEFINE places == [k \in 1..1 |-> a]
<1>1. Len(<<>>) = 0 /\ <<>> \in Seq({})
  OBVIOUS
<1>2. places[1] = a
  OBVIOUS
<1> HIDE DEF places
<1>3. CarriesBy(d, <<>>, places, a, a)
  BY <1>1, <1>2 DEF CarriesBy
<1> QED
  BY <1>1, <1>3, Zenon DEF Carries

LEMMA CarryOne ==
  ASSUME NEW d, NEW c, NEW a, NEW b, Spans(d, c, a, b)
  PROVE  Carries(d, <<c>>, a, b)
<1> DEFINE places == [k \in 1..2 |-> IF k = 1 THEN a ELSE b]
<1>1. Len(<<c>>) = 1 /\ <<c>>[1] = c /\ <<c>> \in Seq({c})
  OBVIOUS
<1>2. places[1] = a /\ places[1 + 1] = b
  OBVIOUS
<1> HIDE DEF places
<1>3. CarriesBy(d, <<c>>, places, a, b)
  BY <1>1, <1>2 DEF CarriesBy
<1> QED
  BY <1>1, <1>3, Zenon DEF Carries

\* Calls and then others.
LEMMA CarryOn ==
  ASSUME NEW d, NEW s, NEW t, NEW a, NEW b, NEW c,
         Carries(d, s, a, b), Carries(d, t, b, c)
  PROVE  Carries(d, s \o t, a, c)
<1>1. PICK S, T : s \in Seq(S) /\ t \in Seq(T)
  BY Zenon DEF Carries
<1>2. PICK f : CarriesBy(d, s, f, a, b)
  BY Zenon DEF Carries
<1>3. PICK g : CarriesBy(d, t, g, b, c)
  BY Zenon DEF Carries
<1> DEFINE U == S \cup T
           both == [k \in 1..(Len(s) + Len(t) + 1) |->
                      IF k <= Len(s) THEN f[k] ELSE g[k - Len(s)]]
<1>4. s \in Seq(U) /\ t \in Seq(U)
  BY <1>1
<1> HIDE DEF U
<1>5. /\ Len(s) \in Nat /\ Len(t) \in Nat /\ Len(s \o t) = Len(s) + Len(t)
      /\ s \o t \in Seq(U)
      /\ \A k \in 1..Len(s) : (s \o t)[k] = s[k]
      /\ \A k \in 1..Len(t) : (s \o t)[Len(s) + k] = t[k]
  BY <1>4, ConcatProperties
<1>6. /\ f[1] = a /\ f[Len(s) + 1] = b
      /\ \A k \in 1..Len(s) : Spans(d, s[k], f[k], f[k + 1])
  BY <1>2 DEF CarriesBy
<1>7. /\ g[1] = b /\ g[Len(t) + 1] = c
      /\ \A k \in 1..Len(t) : Spans(d, t[k], g[k], g[k + 1])
  BY <1>3 DEF CarriesBy
<1>8. /\ \A k \in 1..(Len(s) + 1) : both[k] = f[k]
      /\ \A k \in 1..(Len(t) + 1) : both[Len(s) + k] = g[k]
  BY <1>5, <1>6, <1>7
<1> HIDE DEF both
<1>9. both[1] = a /\ both[Len(s \o t) + 1] = c
  BY <1>5, <1>6, <1>7, <1>8
<1>10. ASSUME NEW k \in 1..Len(s \o t)
       PROVE  Spans(d, (s \o t)[k], both[k], both[k + 1])
  <2>1. CASE k <= Len(s)
    <3>1. /\ k \in 1..Len(s) /\ k \in 1..(Len(s) + 1) /\ k + 1 \in 1..(Len(s) + 1)
      BY <1>5, <2>1
    <3> QED
      BY <1>5, <1>6, <1>8, <3>1
  <2>2. CASE k > Len(s)
    <3> DEFINE j == k - Len(s)
    <3>1. /\ j \in 1..Len(t) /\ j \in 1..(Len(t) + 1) /\ j + 1 \in 1..(Len(t) + 1)
          /\ k = Len(s) + j /\ k + 1 = Len(s) + (j + 1)
      BY <1>5, <2>2
    <3> HIDE DEF j
    <3>2. both[k] = g[j] /\ both[k + 1] = g[j + 1] /\ (s \o t)[k] = t[j]
      BY <1>5, <1>8, <3>1, Zenon
    <3> QED
      BY <1>7, <3>1, <3>2
  <2> QED
    BY <1>5, <2>1, <2>2
<1>11. CarriesBy(d, s \o t, both, a, c)
  BY <1>9, <1>10 DEF CarriesBy
<1> QED
  BY <1>5, <1>11, Zenon DEF Carries

\* The first call, and those behind it.
LEMMA CarryFirst ==
  ASSUME NEW d, NEW S, NEW s \in Seq(S), s # <<>>, NEW a, NEW b, Carries(d, s, a, b)
  PROVE  \E m : Spans(d, Head(s), a, m) /\ Carries(d, Tail(s), m, b)
<1>1. PICK f : CarriesBy(d, s, f, a, b)
  BY Zenon DEF Carries
<1>2. /\ f[1] = a /\ f[Len(s) + 1] = b
      /\ \A k \in 1..Len(s) : Spans(d, s[k], f[k], f[k + 1])
  BY <1>1 DEF CarriesBy
<1>3. /\ Len(s) \in Nat /\ Len(s) >= 1 /\ Head(s) = s[1]
      /\ Tail(s) \in Seq(S) /\ Len(Tail(s)) = Len(s) - 1
      /\ \A k \in 1..(Len(s) - 1) : Tail(s)[k] = s[k + 1]
  BY EmptySeq
<1>4. Spans(d, Head(s), a, f[2])
  <2>1. 1 \in 1..Len(s) /\ 1 + 1 = 2
    BY <1>3
  <2> QED
    BY <1>2, <1>3, <2>1
<1> DEFINE g == [k \in 1..Len(s) |-> f[k + 1]]
<1>5. \A k \in 1..Len(s) : g[k] = f[k + 1]
  OBVIOUS
<1> HIDE DEF g
<1>6. /\ g[1] = f[2] /\ g[Len(Tail(s)) + 1] = b
      /\ \A k \in 1..Len(Tail(s)) : Spans(d, Tail(s)[k], g[k], g[k + 1])
  <2>1. g[1] = f[2] /\ g[Len(Tail(s)) + 1] = b
    BY <1>2, <1>3, <1>5
  <2>2. ASSUME NEW k \in 1..Len(Tail(s))
        PROVE  Spans(d, Tail(s)[k], g[k], g[k + 1])
    <3>1. /\ k \in 1..(Len(s) - 1) /\ k \in 1..Len(s) /\ k + 1 \in 1..Len(s)
      BY <1>3
    <3>2. g[k] = f[k + 1] /\ g[k + 1] = f[(k + 1) + 1] /\ Tail(s)[k] = s[k + 1]
      BY <1>3, <1>5, <3>1
    <3> QED
      BY <1>2, <3>1, <3>2
  <2> QED
    BY <2>1, <2>2
<1>7. CarriesBy(d, Tail(s), g, f[2], b)
  BY <1>6 DEF CarriesBy
<1>8. Carries(d, Tail(s), f[2], b)
  BY <1>3, <1>7, Zenon DEF Carries
<1> QED
  BY <1>4, <1>8

\* Two calls and more.
LEMMA CarryTwo ==
  ASSUME NEW d, NEW c1, NEW c2, NEW a, NEW b, NEW c, Spans(d, c1, a, b), Spans(d, c2, b, c)
  PROVE  Carries(d, <<c1, c2>>, a, c)
<1>1. <<c1, c2>> = <<c1>> \o <<c2>>
  BY PairConcat
<1>2. Carries(d, <<c1>>, a, b) /\ Carries(d, <<c2>>, b, c)
  BY CarryOne
<1> QED
  BY <1>1, <1>2, CarryOn

LEMMA CarryThree ==
  ASSUME NEW d, NEW c1, NEW c2, NEW c3, NEW a, NEW b, NEW c, NEW e,
         Spans(d, c1, a, b), Spans(d, c2, b, c), Spans(d, c3, c, e)
  PROVE  Carries(d, <<c1, c2, c3>>, a, e)
<1>1. <<c1, c2, c3>> = <<c1, c2>> \o <<c3>>
  OBVIOUS
<1>2. Carries(d, <<c1, c2>>, a, c) /\ Carries(d, <<c3>>, c, e)
  BY CarryOne, CarryTwo
<1> QED
  BY <1>1, <1>2, CarryOn

LEMMA CarryFour ==
  ASSUME NEW d, NEW c1, NEW c2, NEW c3, NEW c4, NEW a, NEW b, NEW c, NEW e, NEW f,
         Spans(d, c1, a, b), Spans(d, c2, b, c), Spans(d, c3, c, e), Spans(d, c4, e, f)
  PROVE  Carries(d, <<c1, c2, c3, c4>>, a, f)
<1>1. <<c1, c2, c3, c4>> = <<c1, c2, c3>> \o <<c4>>
  OBVIOUS
<1>2. Carries(d, <<c1, c2, c3>>, a, e) /\ Carries(d, <<c4>>, e, f)
  BY CarryOne, CarryThree
<1> QED
  BY <1>1, <1>2, CarryOn

LEMMA CarryFive ==
  ASSUME NEW d, NEW c1, NEW c2, NEW c3, NEW c4, NEW c5,
         NEW a, NEW b, NEW c, NEW e, NEW f, NEW g,
         Spans(d, c1, a, b), Spans(d, c2, b, c), Spans(d, c3, c, e), Spans(d, c4, e, f),
         Spans(d, c5, f, g)
  PROVE  Carries(d, <<c1, c2, c3, c4, c5>>, a, g)
<1>1. <<c1, c2, c3, c4, c5>> = <<c1, c2, c3, c4>> \o <<c5>>
  OBVIOUS
<1>2. Carries(d, <<c1, c2, c3, c4>>, a, f) /\ Carries(d, <<c5>>, f, g)
  BY CarryOne, CarryFour
<1> QED
  BY <1>1, <1>2, CarryOn

\* Calls that write nothing.
IdleOps ==
  PlainOps \cup
  {"finishBlankLine", "forceStatementBreak", "spaceBefore", "noSpaceBefore",
   "softSpaceBefore", "softNoSpaceBefore", "breakBeforeClose", "instanceSpace",
   "weightSpaces", "breakConditionalBody", "indent", "dedent"}

\* A call that copies nothing may be made anywhere.
LEMMA IdleSpans ==
  ASSUME NEW d, NEW op \in IdleOps, NEW x, NEW a
  PROVE  Spans(d, Do(op, x), a, a)
<1>1. Do(op, x).op = op
  BY DEF Do
<1>2. op \notin {"emitToken", "emitOperator", "emitEndTokenTrivia",
                 "insertBlankLineBefore", "skipTrivia", "coverItems", "closeScope",
                 "emitTrivia", "finishToken"} \cup VisitOps \cup LoopOps \cup FirstOps
  BY DEF IdleOps, PlainOps, VisitOps, LoopOps, FirstOps
<1> QED
  BY <1>1, <1>2 DEF Spans

\* What the handlers call at the same place as long as they write nothing.
LEMMA Idle ==
  ASSUME NEW d, NEW x, NEW a
  PROVE  /\ Spans(d, Do("primary", x), a, a)
         /\ Spans(d, Do("indent", x), a, a)
         /\ Spans(d, Do("dedent", x), a, a)
         /\ Spans(d, Do("ensureSpace", x), a, a)
         /\ Spans(d, Do("ensureSingleSpace", x), a, a)
         /\ Spans(d, Do("forceNewline", x), a, a)
         /\ Spans(d, Do("freshLine", x), a, a)
         /\ Spans(d, Do("stripSpaces", x), a, a)
         /\ Spans(d, Do("oneSpace", x), a, a)
         /\ Spans(d, Do("weightSpaces", x), a, a)
         /\ Spans(d, Do("portItem", x), a, a)
         /\ Spans(d, Do("portItemDone", x), a, a)
         /\ Spans(d, Do("timingControlLine", x), a, a)
         /\ Spans(d, Do("declarationLine", x), a, a)
         /\ Spans(d, Do("assignmentLine", x), a, a)
         /\ Spans(d, Do("connectionLine", x), a, a)
         /\ Spans(d, Do("boundaryLine", x), a, a)
         /\ Spans(d, Do("finishBlankLine", x), a, a)
         /\ Spans(d, Do("forceStatementBreak", x), a, a)
         /\ Spans(d, Do("breakConditionalBody", x), a, a)
         /\ Spans(d, Do("breakBeforeClose", x), a, a)
         /\ Spans(d, Do("instanceSpace", x), a, a)
         /\ \A want \in BOOLEAN : Spans(d, SpaceBefore(want, x), a, a)
         /\ \A want \in BOOLEAN : Spans(d, SoftSpaceBefore(want, x), a, a)
<1>1. \A op \in IdleOps : Spans(d, Do(op, x), a, a)
  BY IdleSpans
<1> QED
  BY <1>1 DEF IdleOps, PlainOps, SpaceBefore, SoftSpaceBefore

\* What the calls that write something do.
LEMMA SpansRules ==
  ASSUME NEW d, NEW c, NEW a, NEW b
  PROVE  /\ c.op \in {"emitToken", "emitOperator"} =>
              (Spans(d, c, a, b) <=> a \in {At(c.x), Mid(c.x)} /\ b = At(c.x + 1))
         /\ c.op \in {"emitEndTokenTrivia", "insertBlankLineBefore"} =>
              (Spans(d, c, a, b) <=> a = At(c.x) /\ b = Mid(c.x))
         /\ c.op = "skipTrivia" =>
              (Spans(d, c, a, b) <=> a = At(c.x) /\ b = At(c.x) /\ HoldsNothing(d, c.x))
         /\ c.op \in VisitOps =>
              (Spans(d, c, a, b) <=>
                 /\ \/ a = At(d.nodes[c.x].first)
                    \/ a = Mid(d.nodes[c.x].first) /\ d.nodes[c.x].kind = "Header"
                 /\ b = EndAt(d, c.x))
         /\ c.op \in LoopOps =>
              (Spans(d, c, a, b) <=>
                 a = KidAt(d, c.x, c.i) /\ b = EndAt(d, c.x) /\ GoesOn(d, c.op, c.x, c.i))
         /\ c.op \in FirstOps =>
              (Spans(d, c, a, b) <=>
                 a = KidAt(d, c.x, 1) /\ b = EndAt(d, c.x) /\ Suits(d, c.op, c.x))
         /\ c.op = "coverItems" =>
              (Spans(d, c, a, b) <=>
                 /\ a = At(d.nodes[c.x].head[Len(d.nodes[c.x].head)])
                 /\ b = EndAt(d, c.x) /\ Suits(d, c.op, c.x))
         /\ c.op = "closeScope" =>
              (Spans(d, c, a, b) <=>
                 /\ a \in {At(d.nodes[c.x].tail[1]), Mid(d.nodes[c.x].tail[1])}
                 /\ b = EndAt(d, c.x) /\ Suits(d, c.op, c.x))
         /\ c.op \in {"emitTrivia", "finishToken"} => ~Spans(d, c, a, b)
         /\ c.op \in IdleOps => (Spans(d, c, a, b) <=> b = a)
<1> DEFINE op == c.op
<1>1. /\ VisitOps = {"visit", "visitExpanded", "importPorts"}
      /\ FirstOps = {"portList", "instances"}
      /\ LoopOps = {"member", "moduleMember", "blockItem", "constraintItem", "rsItem", "port",
                    "wrappedPort", "plainPort", "instance", "declarator", "listedItem",
                    "listItem", "inlineItem"}
  BY DEF VisitOps, FirstOps, LoopOps
<1>2. CASE c.op \in {"emitToken", "emitOperator", "emitEndTokenTrivia", "insertBlankLineBefore",
                     "skipTrivia", "emitTrivia", "finishToken", "coverItems", "closeScope"}
  BY <1>1, <1>2 DEF Spans, IdleOps, PlainOps
<1>3. CASE c.op \in VisitOps \cup FirstOps
  BY <1>1, <1>3 DEF Spans, IdleOps, PlainOps
<1>4. CASE c.op \in LoopOps
  BY <1>1, <1>4 DEF Spans, IdleOps, PlainOps
<1>5. CASE c.op \in IdleOps
  BY <1>1, <1>5 DEF Spans, IdleOps, PlainOps
<1> QED
  BY <1>2, <1>3, <1>4, <1>5, Zenon

\* The calls for a token.
LEMMA TokenSpans ==
  ASSUME NEW d, NEW x
  PROVE  /\ Spans(d, Do("emitToken", x), At(x), At(x + 1))
         /\ Spans(d, Do("emitToken", x), Mid(x), At(x + 1))
         /\ Spans(d, Emit1(x), At(x), At(x + 1))
         /\ Spans(d, Emit1(x), Mid(x), At(x + 1))
         /\ Spans(d, Do("emitEndTokenTrivia", x), At(x), Mid(x))
         /\ Spans(d, Do("insertBlankLineBefore", x), At(x), Mid(x))
         /\ HoldsNothing(d, x) => Spans(d, Do("skipTrivia", x), At(x), At(x))
<1>1. \A op : Do(op, x).op = op /\ Do(op, x).x = x
  BY DEF Do
<1>2. \A op \in {"emitToken", "emitOperator"} :
        /\ Spans(d, Do(op, x), At(x), At(x + 1))
        /\ Spans(d, Do(op, x), Mid(x), At(x + 1))
  BY <1>1, SpansRules
<1>3. Emit1(x) \in {Do("emitToken", x), Do("emitOperator", x)}
  BY DEF Emit1
<1>4. /\ Spans(d, Do("emitEndTokenTrivia", x), At(x), Mid(x))
      /\ Spans(d, Do("insertBlankLineBefore", x), At(x), Mid(x))
  BY <1>1, SpansRules
<1>5. HoldsNothing(d, x) => Spans(d, Do("skipTrivia", x), At(x), At(x))
  BY <1>1, SpansRules
<1> QED
  BY <1>2, <1>3, <1>4, <1>5

\* The calls for a node, and those for its children from one on.
LEMMA NodeSpans ==
  ASSUME NEW d, NEW n
  PROVE  /\ \A op \in VisitOps :
              /\ Spans(d, Do(op, n), At(d.nodes[n].first), EndAt(d, n))
              /\ d.nodes[n].kind = "Header" =>
                   Spans(d, Do(op, n), Mid(d.nodes[n].first), EndAt(d, n))
         /\ \A op \in LoopOps : \A k :
              GoesOn(d, op, n, k) =>
                Spans(d, DoNth(op, n, k), KidAt(d, n, k), EndAt(d, n))
         /\ \A op \in FirstOps :
              Suits(d, op, n) => Spans(d, Do(op, n), KidAt(d, n, 1), EndAt(d, n))
         /\ Suits(d, "coverItems", n) =>
              Spans(d, Do("coverItems", n),
                    At(d.nodes[n].head[Len(d.nodes[n].head)]), EndAt(d, n))
         /\ Suits(d, "closeScope", n) =>
              /\ Spans(d, Do("closeScope", n), At(d.nodes[n].tail[1]), EndAt(d, n))
              /\ Spans(d, Do("closeScope", n), Mid(d.nodes[n].tail[1]), EndAt(d, n))
<1>1. \A op : Do(op, n).op = op /\ Do(op, n).x = n
  BY DEF Do
<1>2. \A op, k : DoNth(op, n, k).op = op /\ DoNth(op, n, k).x = n /\ DoNth(op, n, k).i = k
  BY DEF DoNth
<1>3. ASSUME NEW op \in VisitOps
      PROVE  /\ Spans(d, Do(op, n), At(d.nodes[n].first), EndAt(d, n))
             /\ d.nodes[n].kind = "Header" =>
                  Spans(d, Do(op, n), Mid(d.nodes[n].first), EndAt(d, n))
  BY <1>1, SpansRules
<1>4. ASSUME NEW op \in LoopOps, NEW k, GoesOn(d, op, n, k)
      PROVE  Spans(d, DoNth(op, n, k), KidAt(d, n, k), EndAt(d, n))
  BY <1>2, <1>4, SpansRules
<1>5. ASSUME NEW op \in FirstOps, Suits(d, op, n)
      PROVE  Spans(d, Do(op, n), KidAt(d, n, 1), EndAt(d, n))
  BY <1>1, <1>5, SpansRules
<1>6. Suits(d, "coverItems", n) =>
        Spans(d, Do("coverItems", n),
              At(d.nodes[n].head[Len(d.nodes[n].head)]), EndAt(d, n))
  BY <1>1, SpansRules
<1>7. Suits(d, "closeScope", n) =>
        /\ Spans(d, Do("closeScope", n), At(d.nodes[n].tail[1]), EndAt(d, n))
        /\ Spans(d, Do("closeScope", n), Mid(d.nodes[n].tail[1]), EndAt(d, n))
  BY <1>1, SpansRules
<1> QED
  BY <1>3, <1>4, <1>5, <1>6, <1>7

-----------------------------------------------------------------------------
(* Tokens in a row. *)

\* One call per token or child, each going on where the one before it stopped.
LEMMA CarryRow ==
  ASSUME NEW d, NEW n \in Nat, NEW S, NEW row \in [1..n -> S], NEW places,
         \A k \in 1..n : Spans(d, row[k], places[k], places[k + 1])
  PROVE  Carries(d, row, places[1], places[n + 1])
<1>1. row \in Seq(S) /\ Len(row) = n
  OBVIOUS
<1>2. CarriesBy(d, row, places, places[1], places[n + 1])
  BY <1>1 DEF CarriesBy
<1> QED
  BY <1>1, <1>2, Zenon DEF Carries

\* Tokens that stand in a row, from the first one on.
LEMMA EmitAllCarries ==
  ASSUME NEW S, NEW toks \in Seq(S), NEW at \in Nat, InRow(toks, at)
  PROVE  /\ Carries(doc, EmitAll(toks), At(at), At(at + Len(toks)))
         /\ toks # <<>> => Carries(doc, EmitAll(toks), Mid(at), At(at + Len(toks)))
<1> DEFINE n == Len(toks)
           row == EmitAll(toks)
<1>1. n \in Nat /\ DOMAIN toks = 1..n /\ (toks # <<>> => 1 \in 1..n)
  BY EmptySeq
<1>2. row = [k \in 1..n |-> Emit1(toks[k])]
  BY <1>1 DEF EmitAll
<1>3. \A k \in 1..n : toks[k] = at + k - 1
  BY <1>1 DEF InRow
<1>4. row \in [1..n -> {Emit1(toks[k]) : k \in 1..n}]
  BY <1>2
<1>5. \A k \in 1..n : row[k] = Emit1(at + k - 1)
  BY <1>2, <1>3
<1> HIDE DEF n, row
<1>6. \A k \in 1..n : /\ (at + k - 1) + 1 = at + k
                      /\ Spans(doc, row[k], At(at + k - 1), At((at + k - 1) + 1))
                      /\ Spans(doc, row[k], Mid(at + k - 1), At((at + k - 1) + 1))
  <2>1. \A x : /\ Spans(doc, Emit1(x), At(x), At(x + 1))
               /\ Spans(doc, Emit1(x), Mid(x), At(x + 1))
    BY TokenSpans
  <2>2. \A k \in 1..n : (at + k - 1) + 1 = at + k
    BY <1>1
  <2> QED
    BY <1>5, <2>1, <2>2, Zenon
<1> DEFINE f == [k \in 1..(n + 1) |-> At(at + k - 1)]
           g == [k \in 1..(n + 1) |-> IF k = 1 THEN Mid(at) ELSE At(at + k - 1)]
<1>7. \A k \in 1..n : /\ k \in 1..(n + 1) /\ k + 1 \in 1..(n + 1) /\ k + 1 # 1
                      /\ at + (k + 1) - 1 = at + k
                      /\ k = 1 => at + k - 1 = at
  BY <1>1
<1>8. \A k \in 1..n : Spans(doc, row[k], f[k], f[k + 1])
  <2>1. \A k \in 1..n : f[k] = At(at + k - 1) /\ f[k + 1] = At(at + k)
    BY <1>7
  <2> HIDE DEF f
  <2> QED
    BY <1>6, <2>1
<1>9. \A k \in 1..n : Spans(doc, row[k], g[k], g[k + 1])
  <2>1. \A k \in 1..n : /\ g[k] = IF k = 1 THEN Mid(at + k - 1) ELSE At(at + k - 1)
                        /\ g[k + 1] = At(at + k)
    BY <1>7
  <2> HIDE DEF g
  <2> QED
    BY <1>6, <2>1
<1>10. /\ f[1] = At(at) /\ f[n + 1] = At(at + n)
       /\ g[1] = Mid(at) /\ (toks # <<>> => g[n + 1] = At(at + n))
  <2>1. 1 \in 1..(n + 1) /\ n + 1 \in 1..(n + 1) /\ at + 1 - 1 = at /\ at + (n + 1) - 1 = at + n
    BY <1>1
  <2>2. toks # <<>> => n + 1 # 1
    BY <1>1
  <2> QED
    BY <2>1, <2>2
<1> HIDE DEF f, g
<1>11. Carries(doc, row, f[1], f[n + 1]) /\ Carries(doc, row, g[1], g[n + 1])
  BY <1>1, <1>4, <1>8, <1>9, CarryRow
<1> QED
  BY <1>10, <1>11 DEF n, row

\* Fewer of the tokens are a row as well.
LEMMA RowParts ==
  ASSUME NEW S, NEW toks \in Seq(S), toks # <<>>, NEW at \in Nat, InRow(toks, at)
  PROVE  /\ toks[1] = at /\ toks[Len(toks)] = at + Len(toks) - 1
         /\ Pop(toks) \in Seq(S) /\ Len(Pop(toks)) = Len(toks) - 1 /\ InRow(Pop(toks), at)
         /\ Tail(toks) \in Seq(S) /\ Len(Tail(toks)) = Len(toks) - 1
         /\ InRow(Tail(toks), at + 1)
<1>1. /\ Len(toks) \in Nat /\ Len(toks) >= 1 /\ DOMAIN toks = 1..Len(toks)
      /\ \A k \in 1..Len(toks) : toks[k] = at + k - 1
  BY EmptySeq DEF InRow
<1>2. /\ Pop(toks) \in Seq(S) /\ Len(Pop(toks)) = Len(toks) - 1
      /\ \A i \in 1..(Len(toks) - 1) : Pop(toks)[i] = toks[i]
  BY PopProperties
<1>3. /\ Tail(toks) \in Seq(S) /\ Len(Tail(toks)) = Len(toks) - 1
      /\ \A i \in 1..(Len(toks) - 1) : Tail(toks)[i] = toks[i + 1]
  BY <1>1
<1>4. InRow(Pop(toks), at)
  <2>1. DOMAIN Pop(toks) = 1..(Len(toks) - 1)
    BY <1>2
  <2> QED
    BY <1>1, <1>2, <2>1 DEF InRow
<1>5. InRow(Tail(toks), at + 1)
  <2>1. DOMAIN Tail(toks) = 1..(Len(toks) - 1)
    BY <1>3
  <2>2. ASSUME NEW k \in 1..(Len(toks) - 1)
        PROVE  Tail(toks)[k] = (at + 1) + k - 1
    <3>1. k + 1 \in 1..Len(toks)
      BY <1>1
    <3>2. Tail(toks)[k] = toks[k + 1] /\ toks[k + 1] = at + (k + 1) - 1
      BY <1>1, <1>3, <3>1
    <3> QED
      BY <3>2
  <2> QED
    BY <2>1, <2>2 DEF InRow
<1> QED
  BY <1>1, <1>2, <1>3, <1>4, <1>5

\* Tokens in a row are copied, be they emitted with spaces or not.
LEMMA EmitNamedCarries ==
  ASSUME NEW S, NEW toks \in Seq(S), NEW at \in Nat, InRow(toks, at)
  PROVE  /\ Carries(doc, EmitNamed(toks), At(at), At(at + Len(toks)))
         /\ toks # <<>> => Carries(doc, EmitNamed(toks), Mid(at), At(at + Len(toks)))
<1>1. CASE EmitNamed(toks) = EmitAll(toks)
  BY <1>1, EmitAllCarries
<1>2. CASE Len(toks) = 3 /\ EmitNamed(toks) # EmitAll(toks)
  <2>1. toks[1] = at /\ toks[2] = at + 1 /\ toks[3] = (at + 1) + 1
    <3>1. DOMAIN toks = 1..3
      BY <1>2
    <3> QED
      BY <3>1 DEF InRow
  <2>2. /\ Spans(doc, Do("emitToken", at), At(at), At(at + 1))
        /\ Spans(doc, Do("emitToken", at), Mid(at), At(at + 1))
        /\ Spans(doc, Do("emitToken", at + 1), At(at + 1), At((at + 1) + 1))
        /\ Spans(doc, Do("emitToken", (at + 1) + 1), At((at + 1) + 1), At(((at + 1) + 1) + 1))
    BY TokenSpans
  <2>3. /\ Spans(doc, Do("ensureSpace", 0), At(at + 1), At(at + 1))
        /\ Spans(doc, Do("ensureSpace", 0), At((at + 1) + 1), At((at + 1) + 1))
    BY Idle
  <2>4. EmitNamed(toks)
          = <<Do("emitToken", at), Do("ensureSpace", 0), Do("emitToken", at + 1),
              Do("ensureSpace", 0), Do("emitToken", (at + 1) + 1)>>
    BY <1>2, <2>1 DEF EmitNamed
  <2>5. ((at + 1) + 1) + 1 = at + Len(toks)
    BY <1>2
  <2>6. /\ Carries(doc, EmitNamed(toks), At(at), At(((at + 1) + 1) + 1))
        /\ Carries(doc, EmitNamed(toks), Mid(at), At(((at + 1) + 1) + 1))
    <3>1. Carries(doc, EmitNamed(toks), At(at), At(((at + 1) + 1) + 1))
      BY <2>2, <2>3, <2>4, CarryFive, Zenon
    <3>2. Carries(doc, EmitNamed(toks), Mid(at), At(((at + 1) + 1) + 1))
      BY <2>2, <2>3, <2>4, CarryFive, Zenon
    <3> QED
      BY <3>1, <3>2
  <2> QED
    BY <2>5, <2>6
<1> QED
  BY <1>1, <1>2 DEF EmitNamed

LEMMA ControlHeadCarries ==
  ASSUME NEW S, NEW toks \in Seq(S), Len(toks) >= 2, NEW at \in Nat, InRow(toks, at)
  PROVE  Carries(doc, ControlHead(toks), At(at), At(at + Len(toks)))
<1>1. toks # <<>>
  OBVIOUS
<1>2. /\ toks[1] = at /\ Tail(toks) \in Seq(S) /\ Len(Tail(toks)) = Len(toks) - 1
      /\ InRow(Tail(toks), at + 1)
  BY <1>1, RowParts
<1>3. Carries(doc, EmitAll(Tail(toks)), At(at + 1), At(at + Len(toks)))
  <2>1. at + 1 \in Nat /\ (at + 1) + Len(Tail(toks)) = at + Len(toks)
    BY <1>2
  <2>2. Carries(doc, EmitAll(Tail(toks)), At(at + 1), At((at + 1) + Len(Tail(toks))))
    BY <1>2, <2>1, EmitAllCarries
  <2> QED
    BY <2>1, <2>2
<1>4. Carries(doc, <<Do("emitToken", toks[1]),
                     SpaceBefore(pr.style.SpaceBeforeParens, toks[2])>>, At(at), At(at + 1))
  <2>1. Spans(doc, Do("emitToken", toks[1]), At(at), At(at + 1))
    BY <1>2, TokenSpans
  <2>2. Spans(doc, SpaceBefore(pr.style.SpaceBeforeParens, toks[2]), At(at + 1), At(at + 1))
    BY IdleSpans DEF SpaceBefore, IdleOps
  <2> QED
    BY <2>1, <2>2, CarryTwo
<1> QED
  BY <1>3, <1>4, CarryOn DEF ControlHead

-----------------------------------------------------------------------------
(* The tokens of a node and of its children. *)

Here(n)   == At(First(n))
HeadAt(n) == At(First(n) + Len(Label(n)))
There(n)  == EndAt(doc, n)

\* Label and head stand in a row.
LEMMA HeadOrder ==
  ASSUME doc \in Documents, NEW n \in DOMAIN doc.nodes
  PROVE  /\ First(n) \in Nat /\ doc.nodes[n].last \in Nat
         /\ Len(Label(n)) \in Nat /\ Len(Head1(n)) \in Nat
         /\ First(n) + Len(Label(n)) \in Nat
         /\ InRow(Label(n), First(n))
         /\ InRow(Head1(n), First(n) + Len(Label(n)))
         /\ BodyOf(doc.nodes[n]) = (First(n) + Len(Label(n))) + Len(Head1(n))
         /\ BodyOf(doc.nodes[n]) \in Nat
         /\ Label(n) = <<>> => First(n) + Len(Label(n)) = First(n)
         /\ IsInSourceOrder(doc.nodes[n], doc.nodes)
<1>1. doc.nodes \in Seq(Node(doc.toks, doc.nodes)) /\ doc.toks \in Seq(Token)
  BY DocumentTypes
<1>2. doc.nodes[n] \in Node(doc.toks, doc.nodes)
  BY <1>1
<1>3. doc.nodes[n].last \in DOMAIN doc.toks
  BY <1>2, Zenon DEF Node
<1>4. DOMAIN doc.toks \subseteq Nat
  BY <1>1
<1>5. IsInSourceOrder(doc.nodes[n], doc.nodes)
  BY DocumentsAssumption DEF IsDocument
<1>6. First(n) \in Nat /\ doc.nodes[n].last \in Nat
  BY <1>3, <1>4, NodeTypes
<1>7. Len(Label(n)) \in Nat /\ Len(Head1(n)) \in Nat
  BY NodeTypes
<1>8. InRow(Label(n), First(n)) /\ InRow(Head1(n), First(n) + Len(Label(n)))
  BY <1>5 DEF IsInSourceOrder, Label, Head1, First
<1>9. BodyOf(doc.nodes[n]) = (First(n) + Len(Label(n))) + Len(Head1(n))
  BY DEF BodyOf, Label, Head1, First
<1>10. Label(n) = <<>> => Len(Label(n)) = 0
  OBVIOUS
<1> QED
  BY <1>5, <1>6, <1>7, <1>8, <1>9, <1>10

\* A node that is not one of a list, nor has an else clause.
HasPlainOrder(n) ==
  /\ Kind(n) \notin SeparatedKinds
  /\ Kind(n) \notin ElseKinds \/ Tail1(n) = <<>>

\* A child begins where the copy has come to when it is its turn.
LEMMA KidOrder ==
  ASSUME doc \in Documents, NEW n \in DOMAIN doc.nodes, NEW k \in DOMAIN Kids(n)
  PROVE  KidAt(doc, n, k) = Here(Kids(n)[k])
BY DEF KidAt, StartOf, Here, First, Kids

\* The children of a node that nothing separates stand next to each other.
LEMMA PlainOrder ==
  ASSUME doc \in Documents, NEW n \in DOMAIN doc.nodes, HasPlainOrder(n)
  PROVE  /\ KidAt(doc, n, 1) = At(BodyOf(doc.nodes[n]))
         /\ \A k \in DOMAIN Kids(n) : There(Kids(n)[k]) = KidAt(doc, n, k + 1)
<1>1. IsInOrder(doc.nodes[n], doc.nodes)
  BY HeadOrder DEF IsInSourceOrder, HasPlainOrder, Kind, Tail1
<1> QED
  BY <1>1 DEF IsInOrder, KidAt, There, EndAt, Behind, Kids

\* What follows the last of them is the tail.
LEMMA PlainEnd ==
  ASSUME doc \in Documents, NEW n \in DOMAIN doc.nodes, HasPlainOrder(n),
         NEW k \in Nat, k \notin DOMAIN Kids(n)
  PROVE  /\ Carries(doc, EmitAll(Tail1(n)), KidAt(doc, n, k), There(n))
         /\ Tail1(n) # <<>> => /\ KidAt(doc, n, k) = At(CloseToken(n))
                               /\ CloseToken(n) \in Nat
                               /\ InRow(Tail1(n), CloseToken(n))
                               /\ There(n) = At(CloseToken(n) + Len(Tail1(n)))
<1>1. IsInOrder(doc.nodes[n], doc.nodes)
  BY HeadOrder DEF IsInSourceOrder, HasPlainOrder, Kind, Tail1
<1>2. CASE Tail1(n) = <<>>
  <2>1. EmitAll(Tail1(n)) = <<>>
    BY <1>2 DEF EmitAll
  <2>2. KidAt(doc, n, k) = There(n)
    BY <1>2 DEF KidAt, StartOf, There, EndAt, Kids, Tail1
  <2> QED
    BY <1>2, <2>1, <2>2, CarryNone
<1>3. CASE Tail1(n) # <<>>
  <2>1. /\ InRow(Tail1(n), CloseToken(n)) /\ Tail1(n)[Len(Tail1(n))] = doc.nodes[n].last
    BY <1>1, <1>3 DEF IsInOrder, Tail1, CloseToken
  <2>2. Tail1(n) \in Seq(DOMAIN doc.toks) /\ CloseToken(n) \in Nat
    BY <1>3, NodeTypes, CloseTokenType, TokenTypes
  <2>3. Tail1(n)[Len(Tail1(n))] = CloseToken(n) + Len(Tail1(n)) - 1
    BY <1>3, <2>1, <2>2, RowParts
  <2>4. There(n) = At(CloseToken(n) + Len(Tail1(n)))
    <3>1. Len(Tail1(n)) \in Nat
      BY <2>2
    <3>2. doc.nodes[n].last + 1 = CloseToken(n) + Len(Tail1(n))
      BY <2>1, <2>2, <2>3, <3>1
    <3> QED
      BY <3>2 DEF There, EndAt
  <2>5. KidAt(doc, n, k) = At(CloseToken(n))
    BY <1>3 DEF KidAt, StartOf, Kids, Tail1, CloseToken
  <2> QED
    BY <2>1, <2>2, <2>4, <2>5, EmitAllCarries
<1> QED
  BY <1>2, <1>3

\* Between separated children stands a comma.
LEMMA SeparatedOrder ==
  ASSUME doc \in Documents, NEW n \in DOMAIN doc.nodes, Kind(n) \in SeparatedKinds
  PROVE  IsSeparated(doc.nodes[n], doc.nodes)
<1>1. IsInSourceOrder(doc.nodes[n], doc.nodes)
  BY HeadOrder
<1>2. doc.nodes[n].kind \in SeparatedKinds
  BY DEF Kind
<1>3. (CASE doc.nodes[n].kind \in SeparatedKinds -> IsSeparated(doc.nodes[n], doc.nodes)
         [] doc.nodes[n].kind \in ElseKinds /\ doc.nodes[n].tail # <<>> ->
              HasElseClause(doc.nodes[n], doc.nodes)
         [] OTHER -> IsInOrder(doc.nodes[n], doc.nodes))
  BY <1>1 DEF IsInSourceOrder
<1>4. SeparatedKinds \cap ElseKinds = {}
  BY DEF SeparatedKinds, ElseKinds, PortListKinds, ItemListKinds, DeclaratorKinds
<1> QED
  BY <1>2, <1>3, <1>4

\* One of a list: what stands behind a child is its comma or the next child.
Commas(n, k) == Comma(n, k - Unseparated(doc.nodes[n], doc.nodes))

LEMMA ListOrder ==
  ASSUME doc \in Documents, NEW n \in DOMAIN doc.nodes, Kind(n) \in SeparatedKinds
  PROVE  /\ KidAt(doc, n, 1) = At(BodyOf(doc.nodes[n]))
         /\ Unseparated(doc.nodes[n], doc.nodes) \in {0, 1}
         /\ \A k \in DOMAIN Kids(n) :
              k > Unseparated(doc.nodes[n], doc.nodes) =>
                Carries(doc, Commas(n, k), There(Kids(n)[k]), KidAt(doc, n, k + 1))
         /\ 1 \in DOMAIN Kids(n) /\ Unseparated(doc.nodes[n], doc.nodes) = 1 =>
              There(Kids(n)[1]) = KidAt(doc, n, 2)
<1> DEFINE node == doc.nodes[n]
           gap == Unseparated(node, doc.nodes)
<1>1. IsSeparated(node, doc.nodes)
  BY SeparatedOrder
<1>2. gap \in {0, 1}
  BY DEF Unseparated
<1>3. KidAt(doc, n, 1) = At(BodyOf(node))
  BY <1>1 DEF IsSeparated, KidAt
<1>4. \A k \in DOMAIN Kids(n) :
        IF k - gap + 1 \in 2..Len(Tail1(n))
        THEN /\ Tail1(n)[k - gap + 1] = Behind(node, k, doc.nodes)
             /\ StartOf(node, k + 1, doc.nodes) = Behind(node, k, doc.nodes) + 1
        ELSE StartOf(node, k + 1, doc.nodes) = Behind(node, k, doc.nodes)
  BY <1>1 DEF IsSeparated, Kids, Tail1
<1>5. \A k \in DOMAIN Kids(n) : There(Kids(n)[k]) = At(Behind(node, k, doc.nodes))
  BY DEF There, EndAt, Behind, Kids
<1>6. DOMAIN Tail1(n) = 1..Len(Tail1(n)) /\ Len(Tail1(n)) \in Nat /\ DOMAIN Kids(n) \subseteq Nat
  BY NodeTypes
<1> HIDE DEF gap, node
<1>7. ASSUME NEW k \in DOMAIN Kids(n), k > gap
      PROVE  Carries(doc, Commas(n, k), There(Kids(n)[k]), KidAt(doc, n, k + 1))
  <2>1. k - gap + 1 \in 2..Len(Tail1(n)) <=> k - gap + 1 \in DOMAIN Tail1(n)
    BY <1>2, <1>6, <1>7
  <2>2. Commas(n, k) = IF k - gap + 1 \in DOMAIN Tail1(n)
                       THEN <<Do("emitToken", Tail1(n)[k - gap + 1])>> ELSE <<>>
    BY DEF Commas, Comma, gap, node
  <2>3. KidAt(doc, n, k + 1) = At(StartOf(node, k + 1, doc.nodes))
    BY DEF KidAt, node
  <2>4. CASE k - gap + 1 \in DOMAIN Tail1(n)
    <3> DEFINE x == Behind(node, k, doc.nodes)
    <3>1. Tail1(n)[k - gap + 1] = x /\ StartOf(node, k + 1, doc.nodes) = x + 1
      BY <1>4, <2>1, <2>4
    <3>2. Carries(doc, <<Do("emitToken", x)>>, At(x), At(x + 1))
      BY TokenSpans, CarryOne
    <3> QED
      BY <1>5, <2>2, <2>3, <2>4, <3>1, <3>2
  <2>5. CASE k - gap + 1 \notin DOMAIN Tail1(n)
    BY <1>4, <1>5, <2>1, <2>2, <2>3, <2>5, CarryNone
  <2> QED
    BY <2>4, <2>5
<1>8. ASSUME 1 \in DOMAIN Kids(n), gap = 1
      PROVE  There(Kids(n)[1]) = KidAt(doc, n, 2)
  <2>1. 1 - gap + 1 \notin 2..Len(Tail1(n)) /\ 1 + 1 = 2
    BY <1>6, <1>8
  <2>2. StartOf(node, 1 + 1, doc.nodes) = Behind(node, 1, doc.nodes)
    BY <1>4, <1>8, <2>1
  <2> QED
    BY <1>5, <1>8, <2>1, <2>2 DEF KidAt, node
<1> QED
  BY <1>2, <1>3, <1>7, <1>8 DEF gap, node

\* What follows the last separated child is the closing token.
LEMMA ListEnd ==
  ASSUME doc \in Documents, NEW n \in DOMAIN doc.nodes, Kind(n) \in SeparatedKinds,
         Tail1(n) # <<>>, NEW k \in Nat, k \notin DOMAIN Kids(n)
  PROVE  /\ KidAt(doc, n, k) = At(CloseToken(n))
         /\ There(n) = At(CloseToken(n) + 1)
<1>1. IsSeparated(doc.nodes[n], doc.nodes)
  BY SeparatedOrder
<1> QED
  BY <1>1 DEF IsSeparated, KidAt, StartOf, There, EndAt, Kids, Tail1, CloseToken

\* A list is closed by its closing token.
LEMMA CloseList ==
  ASSUME doc \in Documents, NEW n \in DOMAIN doc.nodes, Kind(n) \in SeparatedKinds,
         Tail1(n) # <<>>, NEW k \in Nat, k \notin DOMAIN Kids(n)
  PROVE  /\ Spans(doc, Do("emitToken", CloseToken(n)), KidAt(doc, n, k), There(n))
         /\ Spans(doc, Do("emitToken", CloseToken(n)), Mid(CloseToken(n)), There(n))
         /\ Spans(doc, Do("emitEndTokenTrivia", CloseToken(n)), KidAt(doc, n, k),
                  Mid(CloseToken(n)))
BY ListEnd, TokenSpans

-----------------------------------------------------------------------------
(* Parts of handlers. *)

Body(n) == At(BodyOf(doc.nodes[n]))

\* Sequences of calls, one behind the other.
LEMMA CarryOnThree ==
  ASSUME NEW d, NEW r, NEW s, NEW t, NEW a, NEW b, NEW c, NEW e,
         Carries(d, r, a, b), Carries(d, s, b, c), Carries(d, t, c, e)
  PROVE  Carries(d, r \o s \o t, a, e)
<1>1. Carries(d, r \o s, a, c)
  BY CarryOn
<1> QED
  BY <1>1, CarryOn

LEMMA CarryOnFour ==
  ASSUME NEW d, NEW r, NEW s, NEW t, NEW u, NEW a, NEW b, NEW c, NEW e, NEW f,
         Carries(d, r, a, b), Carries(d, s, b, c), Carries(d, t, c, e), Carries(d, u, e, f)
  PROVE  Carries(d, r \o s \o t \o u, a, f)
<1>1. Carries(d, r \o s \o t, a, e)
  BY CarryOnThree
<1> QED
  BY <1>1, CarryOn

LEMMA CarryOnFive ==
  ASSUME NEW d, NEW r, NEW s, NEW t, NEW u, NEW v,
         NEW a, NEW b, NEW c, NEW e, NEW f, NEW g,
         Carries(d, r, a, b), Carries(d, s, b, c), Carries(d, t, c, e), Carries(d, u, e, f),
         Carries(d, v, f, g)
  PROVE  Carries(d, r \o s \o t \o u \o v, a, g)
<1>1. Carries(d, r \o s \o t \o u, a, f)
  BY CarryOnFour
<1> QED
  BY <1>1, CarryOn

\* A call that is made on a condition.
LEMMA CarryWhen ==
  ASSUME NEW d, NEW a, NEW cond, NEW c, Spans(d, c, a, a)
  PROVE  Carries(d, When(cond, c), a, a)
BY CarryNone, CarryOne DEF When

\* The label, the head and the visit of a child copy what they stand for.
LEMMA LabelCarries ==
  ASSUME doc \in Documents, NEW n \in DOMAIN doc.nodes
  PROVE  /\ Carries(doc, LabelCalls(n), Here(n), HeadAt(n))
         /\ Label(n) = <<>> => HeadAt(n) = Here(n)
<1>1. /\ First(n) \in Nat /\ InRow(Label(n), First(n))
      /\ Label(n) = <<>> => First(n) + Len(Label(n)) = First(n)
  BY HeadOrder
<1>2. Label(n) = <<>> => HeadAt(n) = Here(n)
  BY <1>1 DEF HeadAt, Here
<1>3. CASE Label(n) = <<>>
  BY <1>2, <1>3, CarryNone DEF LabelCalls
<1>4. CASE Label(n) # <<>>
  <2>1. Label(n) \in Seq(DOMAIN doc.toks) /\ Len(Label(n)) \in {0, 2}
    BY NodeTypes DEF IsWellShaped, Label
  <2>2. Len(Label(n)) = 2
    BY <1>4, <2>1, EmptySeq
  <2>3. Label(n)[1] = First(n) /\ Label(n)[2] = First(n) + 1
    <3>1. DOMAIN Label(n) = 1..2
      BY <2>1, <2>2
    <3> QED
      BY <1>1, <3>1 DEF InRow
  <2>4. LabelCalls(n) = <<Do("emitToken", First(n)), Do("ensureSpace", 0),
                          Do("emitToken", First(n) + 1)>>
    BY <1>4, <2>3 DEF LabelCalls
  <2>5. /\ Spans(doc, Do("emitToken", First(n)), At(First(n)), At(First(n) + 1))
        /\ Spans(doc, Do("ensureSpace", 0), At(First(n) + 1), At(First(n) + 1))
        /\ Spans(doc, Do("emitToken", First(n) + 1), At(First(n) + 1), At((First(n) + 1) + 1))
    BY TokenSpans, Idle
  <2>6. (First(n) + 1) + 1 = First(n) + Len(Label(n))
    BY <1>1, <2>2
  <2>7. Carries(doc, LabelCalls(n), At(First(n)), At((First(n) + 1) + 1))
    BY <2>4, <2>5, CarryThree, Zenon
  <2> QED
    BY <1>2, <2>6, <2>7 DEF Here, HeadAt
<1> QED
  BY <1>3, <1>4

LEMMA HeadCarries ==
  ASSUME doc \in Documents, NEW n \in DOMAIN doc.nodes
  PROVE  /\ Carries(doc, EmitAll(Head1(n)), HeadAt(n), Body(n))
         /\ Carries(doc, EmitNamed(Head1(n)), HeadAt(n), Body(n))
         /\ Head1(n) # <<>> /\ Label(n) = <<>> =>
              /\ Carries(doc, EmitAll(Head1(n)), Mid(First(n)), Body(n))
              /\ Carries(doc, EmitNamed(Head1(n)), Mid(First(n)), Body(n))
         /\ Len(Head1(n)) >= 2 => Carries(doc, ControlHead(Head1(n)), HeadAt(n), Body(n))
         /\ Head1(n) = <<>> => HeadAt(n) = Body(n)
<1> DEFINE at == First(n) + Len(Label(n))
<1>1. Head1(n) \in Seq(DOMAIN doc.toks)
  BY NodeTypes
<1>2. /\ at \in Nat /\ InRow(Head1(n), at) /\ BodyOf(doc.nodes[n]) = at + Len(Head1(n))
      /\ Label(n) = <<>> => at = First(n)
  BY HeadOrder
<1>3. HeadAt(n) = At(at) /\ Body(n) = At(at + Len(Head1(n)))
  BY <1>2 DEF HeadAt, Body
<1> HIDE DEF at
<1>4. /\ Carries(doc, EmitAll(Head1(n)), At(at), At(at + Len(Head1(n))))
      /\ Head1(n) # <<>> =>
           Carries(doc, EmitAll(Head1(n)), Mid(at), At(at + Len(Head1(n))))
  BY <1>1, <1>2, EmitAllCarries
<1>5. /\ Carries(doc, EmitNamed(Head1(n)), At(at), At(at + Len(Head1(n))))
      /\ Head1(n) # <<>> =>
           Carries(doc, EmitNamed(Head1(n)), Mid(at), At(at + Len(Head1(n))))
  BY <1>1, <1>2, EmitNamedCarries
<1>6. Len(Head1(n)) >= 2 =>
        Carries(doc, ControlHead(Head1(n)), At(at), At(at + Len(Head1(n))))
  BY <1>1, <1>2, ControlHeadCarries
<1>7. Head1(n) = <<>> => at + Len(Head1(n)) = at
  BY <1>2
<1> QED
  BY <1>2, <1>3, <1>4, <1>5, <1>6, <1>7

\* A child that is visited.
LEMMA VisitSpans ==
  ASSUME NEW m
  PROVE  /\ Spans(doc, Do("visit", m), Here(m), There(m))
         /\ Spans(doc, Do("visitExpanded", m), Here(m), There(m))
         /\ Spans(doc, Do("importPorts", m), Here(m), There(m))
         /\ Kind(m) = "Header" => Spans(doc, Do("visit", m), Mid(First(m)), There(m))
         /\ Carries(doc, <<Do("visit", m)>>, Here(m), There(m))
<1>1. {"visit", "visitExpanded", "importPorts"} = VisitOps
  BY DEF VisitOps
<1>2. Here(m) = At(doc.nodes[m].first) /\ There(m) = EndAt(doc, m)
  BY DEF Here, There, First
<1> QED
  BY <1>1, <1>2, NodeSpans, CarryOne DEF Kind, First

LEMMA VisitBodyCarries ==
  ASSUME NEW m
  PROVE  Carries(doc, VisitBody(m), Here(m), There(m))
<1>1. /\ Spans(doc, Do("primary", 0), Here(m), Here(m))
      /\ Spans(doc, Do("indent", 0), Here(m), Here(m))
      /\ Spans(doc, Do("dedent", 0), There(m), There(m))
      /\ Spans(doc, Do("visit", m), Here(m), There(m))
  BY Idle, VisitSpans
<1>2. CASE IsBlock(m)
  BY <1>1, <1>2, CarryTwo DEF VisitBody
<1>3. CASE ~IsBlock(m)
  <2>1. VisitBody(m) = <<Do("indent", 0), Do("primary", 0), Do("visit", m), Do("dedent", 0)>>
    BY <1>3 DEF VisitBody
  <2> QED
    BY <1>1, <2>1, CarryFour, Zenon
<1> QED
  BY <1>2, <1>3

-----------------------------------------------------------------------------
(* Nodes whose children stand between their head and their tail. *)

\* Where the children of such a node stand.
LEMMA KidPlaces ==
  ASSUME doc \in Documents, NEW n \in DOMAIN doc.nodes, HasPlainOrder(n)
  PROVE  /\ KidAt(doc, n, 1) = Body(n)
         /\ \A k \in DOMAIN Kids(n) :
              KidAt(doc, n, k) = Here(Kids(n)[k]) /\ There(Kids(n)[k]) = KidAt(doc, n, k + 1)
BY PlainOrder, KidOrder DEF Body

\* Those with one child and nothing behind it.
LEMMA OnlyKid ==
  ASSUME doc \in Documents, NEW n \in DOMAIN doc.nodes,
         Kind(n) \in TaillessKinds
  PROVE  /\ Kids(n)[1] \in DOMAIN doc.nodes
         /\ Here(Kids(n)[1]) = Body(n) /\ There(Kids(n)[1]) = There(n)
<1>1. HasPlainOrder(n) /\ Len(Kids(n)) = 1 /\ Tail1(n) = <<>>
  BY NodeTypes
     DEF IsWellShaped, TaillessKinds, HasPlainOrder, Kind, Kids, Tail1, SeparatedKinds, ElseKinds,
         ProcedureKinds, CaseItemKinds, PortListKinds,
         ItemListKinds, DeclaratorKinds
<1>2. DOMAIN Kids(n) = {1} /\ 1 + 1 \notin DOMAIN Kids(n)
  BY <1>1, NodeTypes
<1>3. KidAt(doc, n, 1 + 1) = There(n)
  BY <1>1, <1>2 DEF KidAt, StartOf, There, EndAt, Kids, Tail1
<1> QED
  BY <1>1, <1>2, <1>3, KidPlaces, KidTypes

\* All of the children, visited one by one.
LEMMA VisitKidsCarries ==
  ASSUME doc \in Documents, NEW n \in DOMAIN doc.nodes, HasPlainOrder(n),
         NEW op \in VisitOps
  PROVE  Carries(doc, [k \in DOMAIN Kids(n) |-> Do(op, Kids(n)[k])], Body(n),
                 KidAt(doc, n, Len(Kids(n)) + 1))
<1> DEFINE m == Len(Kids(n))
           row == [k \in DOMAIN Kids(n) |-> Do(op, Kids(n)[k])]
           places == [k \in 1..(m + 1) |-> KidAt(doc, n, k)]
<1>1. m \in Nat /\ DOMAIN Kids(n) = 1..m
  BY NodeTypes
<1>2. row = [k \in 1..m |-> Do(op, Kids(n)[k])]
  BY <1>1
<1>3. row \in [1..m -> {Do(op, Kids(n)[k]) : k \in 1..m}]
  BY <1>2
<1>4. ASSUME NEW k \in 1..m
      PROVE  Spans(doc, row[k], places[k], places[k + 1])
  <2>1. k \in 1..(m + 1) /\ k + 1 \in 1..(m + 1)
    BY <1>1
  <2>2. places[k] = Here(Kids(n)[k]) /\ places[k + 1] = There(Kids(n)[k])
    BY <1>1, <2>1, KidPlaces
  <2>3. row[k] = Do(op, Kids(n)[k])
    BY <1>2
  <2> HIDE DEF row, places
  <2>4. Spans(doc, Do(op, Kids(n)[k]), Here(Kids(n)[k]), There(Kids(n)[k]))
    BY VisitSpans DEF VisitOps
  <2> QED
    BY <2>2, <2>3, <2>4
<1>5. places[1] = Body(n) /\ places[m + 1] = KidAt(doc, n, m + 1)
  BY <1>1, KidPlaces
<1> HIDE DEF row, places, m
<1>6. Carries(doc, row, places[1], places[m + 1])
  BY <1>1, <1>3, <1>4, CarryRow
<1> QED
  BY <1>5, <1>6 DEF row, m

\* The tail, when no child is left.
LEMMA TailCarries ==
  ASSUME doc \in Documents, NEW n \in DOMAIN doc.nodes, HasPlainOrder(n),
         NEW k \in Nat, k \notin DOMAIN Kids(n)
  PROVE  /\ Carries(doc, EmitAll(Tail1(n)), KidAt(doc, n, k), There(n))
         /\ Tail1(n) # <<>> =>
              /\ KidAt(doc, n, k) = At(CloseToken(n))
              /\ Carries(doc, EmitNamed(Tail1(n)), At(CloseToken(n)), There(n))
              /\ Carries(doc, EmitNamed(Tail1(n)), Mid(CloseToken(n)), There(n))
<1>1. /\ Carries(doc, EmitAll(Tail1(n)), KidAt(doc, n, k), There(n))
      /\ Tail1(n) # <<>> => /\ KidAt(doc, n, k) = At(CloseToken(n))
                            /\ CloseToken(n) \in Nat
                            /\ InRow(Tail1(n), CloseToken(n))
                            /\ There(n) = At(CloseToken(n) + Len(Tail1(n)))
  BY PlainEnd
<1>2. Tail1(n) \in Seq(DOMAIN doc.toks)
  BY NodeTypes
<1> QED
  BY <1>1, <1>2, EmitNamedCarries

\* Head, children and tail.
LEMMA WalkCarries ==
  ASSUME doc \in Documents, NEW n \in DOMAIN doc.nodes, HasPlainOrder(n), Label(n) = <<>>,
         NEW op \in VisitOps
  PROVE  Carries(doc, EmitAll(Head1(n)) \o [k \in DOMAIN Kids(n) |-> Do(op, Kids(n)[k])]
                        \o EmitAll(Tail1(n)), Here(n), There(n))
<1> DEFINE m == Len(Kids(n)) + 1
<1>1. m \in Nat /\ m \notin DOMAIN Kids(n)
  BY NodeTypes
<1>2. Carries(doc, EmitAll(Head1(n)), Here(n), Body(n))
  BY HeadCarries, LabelCarries
<1>3. Carries(doc, [k \in DOMAIN Kids(n) |-> Do(op, Kids(n)[k])], Body(n), KidAt(doc, n, m))
  BY VisitKidsCarries
<1> HIDE DEF m
<1>4. Carries(doc, EmitAll(Tail1(n)), KidAt(doc, n, m), There(n))
  BY <1>1, TailCarries
<1> QED
  BY <1>2, <1>3, <1>4, CarryOnThree

-----------------------------------------------------------------------------
(* Handlers take the copy as far as the call they answer. *)

\* Nothing is written, and nothing is to be left out that was to be written.
Silent(p, q) ==
  /\ Origins(q.output) = Origins(p.output)
  /\ q.triviaSkip = p.triviaSkip
  /\ q.skipExpandedToken = p.skipExpandedToken

\* The calls go as far as the call they are made for.
Copies(calls) ==
  \A a, b : Spans(doc, Head(work), a, b) => Carries(doc, calls, a, b)

PassesOn == \E p, calls : Silent(pr, p) /\ Copies(calls) /\ Continue(p, calls)

\* What primary() does is no copying.
LEMMA PrimarySilent ==
  ASSUME NEW p, Safe(p)
  PROVE  Silent(p, p) /\ Silent(p, Primary(p))
BY DEF Safe, Printer, Silent, Primary

\* A visit that is answered by calls for the whole node.
LEMMA VisitPasses ==
  ASSUME IInv, Calling("visit"), Kind(Arg) # "Header",
         NEW calls, Carries(doc, calls, Here(Arg), There(Arg)),
         Continue(pr, calls) \/ Continue(Primary(pr), calls)
  PROVE  PassesOn
<1>1. Silent(pr, pr) /\ Silent(pr, Primary(pr))
  BY PrimarySilent DEF IInv
<1>2. Head(work).op = "visit" /\ Head(work).op \in VisitOps
  BY DEF Calling, VisitOps
<1>3. \A a, b : Spans(doc, Head(work), a, b) => a = Here(Arg) /\ b = There(Arg)
  BY <1>2, SpansRules DEF Here, There, Arg, First, Kind
<1>4. Copies(calls)
  BY <1>3 DEF Copies
<1> QED
  BY <1>1, <1>4 DEF PassesOn

\* The node that is visited, and its parts.
LEMMA VisitedNode ==
  ASSUME IInv, Calling("visit")
  PROVE  /\ doc \in Documents /\ Arg \in DOMAIN doc.nodes
         /\ IsWellShaped(doc.nodes[Arg], doc.nodes)
         /\ Kind(Arg) \in NodeKinds
<1>1. doc \in Documents /\ Arg \in DOMAIN doc.nodes /\ IsWellShaped(doc.nodes[Arg], doc.nodes)
  BY VisitTypes
<1>2. doc.nodes[Arg] \in Node(doc.toks, doc.nodes)
  BY <1>1, DocumentTypes
<1> QED
  BY <1>1, <1>2, Zenon DEF Node, Kind

-----------------------------------------------------------------------------
(* Nodes of which nothing is separated. *)

\* The kinds of nodes of which nothing is separated.
PlainKinds ==
  (StatementKinds \ ElseKinds) \cup CaseItemKinds \cup ScopeKinds \cup ProcedureKinds
    \cup PlainDeclarationKinds \cup CoverKinds \cup
  {"Expression", "DistWeight", "ContinuousAssign", "TypedefDeclaration", "DPIImport",
   "Header", "NamedConnection", "WildcardPortList", "CompilationUnit", "ModuleDeclaration",
   "TimeUnitsDeclaration", "LoopGenerate", "ConstraintDeclaration", "ConstraintBlock",
   "RsCase"}

PlainLoops == {"member", "moduleMember", "blockItem", "rsItem"}

\* These nodes are in plain order.
LEMMA PlainNode ==
  ASSUME NEW n, Kind(n) \in PlainKinds
  PROVE  /\ Kind(n) \notin SeparatedKinds /\ Kind(n) \notin ElseKinds
         /\ HasPlainOrder(n)
         /\ Unseparated(doc.nodes[n], doc.nodes) = 0
<1>1. Kind(n) \notin SeparatedKinds /\ Kind(n) \notin ElseKinds
  BY DEF PlainKinds, SeparatedKinds, ElseKinds, PortListKinds, ItemListKinds,
         DeclaratorKinds, StatementKinds, CaseItemKinds, ScopeKinds, ProcedureKinds,
         PlainDeclarationKinds, CoverKinds
<1>2. DeclaratorKinds \subseteq SeparatedKinds /\ "HierarchyInstantiation" \in SeparatedKinds
  BY DEF SeparatedKinds
<1> QED
  BY <1>1, <1>2 DEF HasPlainOrder, Unseparated, Kind

\* A loop over the items of such a node, and the calls that open it.
LEMMA LoopSpans ==
  ASSUME NEW n, Kind(n) \in PlainKinds, NEW op \in PlainLoops, NEW k \in Nat, k # 0
  PROVE  /\ Spans(doc, DoNth(op, n, k), KidAt(doc, n, k), There(n))
         /\ Carries(doc, <<Do("indent", 0), DoNth(op, n, k)>>, KidAt(doc, n, k), There(n))
<1>1. Suits(doc, op, n)
  BY PlainNode DEF PlainLoops, Suits, Kind
<1>2. GoesOn(doc, op, n, k)
  BY <1>1, PlainNode DEF GoesOn
<1>3. op \in LoopOps
  BY DEF PlainLoops, LoopOps
<1>4. Spans(doc, DoNth(op, n, k), KidAt(doc, n, k), There(n))
  BY <1>2, <1>3, NodeSpans DEF There
<1> QED
  BY <1>4, Idle, CarryTwo

-----------------------------------------------------------------------------
(* Statements. *)

LEMMA LeafPasses ==
  ASSUME IInv, VisitLeaf
  PROVE  PassesOn
<1>1. /\ Calling("visit") /\ Kind(Arg) \in {"Leaf", "EmptyStatement"}
      /\ Continue(pr, LabelCalls(Arg) \o EmitAll(Head1(Arg)))
  BY DEF VisitLeaf, Visiting
<1>2. /\ doc \in Documents /\ Arg \in DOMAIN doc.nodes /\ Kind(Arg) # "Header"
      /\ Kids(Arg) = <<>> /\ Tail1(Arg) = <<>> /\ HasPlainOrder(Arg)
  BY <1>1, VisitedNode, PlainNode
     DEF IsWellShaped, ChildlessKinds, Kind, Kids, Tail1, PlainKinds, StatementKinds, ElseKinds
<1>3. Body(Arg) = There(Arg)
  BY <1>2, KidPlaces DEF KidAt, StartOf, Kids, Tail1, There, EndAt
<1>4. Carries(doc, LabelCalls(Arg) \o EmitAll(Head1(Arg)), Here(Arg), There(Arg))
  BY <1>2, <1>3, LabelCarries, HeadCarries, CarryOn
<1> QED
  BY <1>1, <1>2, <1>4, VisitPasses

LEMMA BlockPasses ==
  ASSUME IInv, VisitBlock
  PROVE  PassesOn
<1> DEFINE items == <<Do("indent", 0), DoNth("blockItem", Arg, 1)>>
<1>1. /\ Calling("visit") /\ Kind(Arg) = "BlockStatement"
      /\ Continue(pr, LabelCalls(Arg) \o EmitNamed(Head1(Arg)) \o items)
  BY DEF VisitBlock, Visiting
<1>2. doc \in Documents /\ Arg \in DOMAIN doc.nodes
  BY <1>1, VisitedNode
<1>3. Kind(Arg) \in PlainKinds
  BY <1>1 DEF PlainKinds, StatementKinds, ElseKinds
<1>4. Carries(doc, items, Body(Arg), There(Arg))
  <2>1. KidAt(doc, Arg, 1) = Body(Arg)
    BY <1>2, <1>3, PlainNode, KidPlaces
  <2> QED
    BY <1>3, <2>1, LoopSpans DEF PlainLoops
<1> HIDE DEF items
<1>5. Carries(doc, LabelCalls(Arg) \o EmitNamed(Head1(Arg)) \o items, Here(Arg), There(Arg))
  BY <1>2, <1>4, LabelCarries, HeadCarries, CarryOnThree
<1> QED
  BY <1>1, <1>5, VisitPasses

\* A head, and the calls in front of the body that write nothing.
LEMMA ControlCallsCarries ==
  ASSUME doc \in Documents, NEW n \in DOMAIN doc.nodes, Len(Head1(n)) >= 2,
         Here(Kids(n)[1]) = Body(n)
  PROVE  Carries(doc, ControlCalls(n), Here(n), There(Kids(n)[1]))
<1> DEFINE body == Kids(n)[1]
           before == <<SpaceBefore(pr.style.SpaceAfterParens, First(body)),
                       Do("breakConditionalBody", body)>>
<1>1. Carries(doc, before, Here(body), Here(body))
  <2>1. \A want : SpaceBefore(want, First(body))
                    \in {Do("spaceBefore", First(body)), Do("noSpaceBefore", First(body))}
    BY DEF SpaceBefore
  <2>2. \A op \in IdleOps : Spans(doc, Do(op, First(body)), Here(body), Here(body))
    BY IdleSpans
  <2>3. Spans(doc, Do("breakConditionalBody", body), Here(body), Here(body))
    BY Idle
  <2> QED
    BY <2>1, <2>2, <2>3, CarryTwo DEF IdleOps
<1>2. Carries(doc, VisitBody(body), Here(body), There(body))
  BY VisitBodyCarries
<1>3. ControlCalls(n) = LabelCalls(n) \o ControlHead(Head1(n)) \o before \o VisitBody(body)
  BY DEF ControlCalls
<1>4. Carries(doc, LabelCalls(n), Here(n), HeadAt(n))
  BY LabelCarries
<1>5. Carries(doc, ControlHead(Head1(n)), HeadAt(n), Here(body))
  BY HeadCarries
<1> HIDE DEF before, body
<1>6. Carries(doc, LabelCalls(n) \o ControlHead(Head1(n)) \o before \o VisitBody(body),
              Here(n), There(body))
  BY <1>1, <1>2, <1>4, <1>5, CarryOnFour
<1> QED
  BY <1>3, <1>6 DEF body

\* Spaces are no content.
LEMMA SpaceSpans ==
  ASSUME NEW want, NEW x, NEW a
  PROVE  /\ Spans(doc, SpaceBefore(want, x), a, a)
         /\ Spans(doc, SoftSpaceBefore(want, x), a, a)
         /\ Carries(doc, <<SpaceBefore(want, x)>>, a, a)
         /\ Carries(doc, <<SoftSpaceBefore(want, x)>>, a, a)
<1>1. \A op \in IdleOps : Spans(doc, Do(op, x), a, a)
  BY IdleSpans
<1>2. /\ SpaceBefore(want, x) \in {Do("spaceBefore", x), Do("noSpaceBefore", x)}
      /\ SoftSpaceBefore(want, x) \in {Do("softSpaceBefore", x), Do("softNoSpaceBefore", x)}
  BY DEF SpaceBefore, SoftSpaceBefore
<1>3. Spans(doc, SpaceBefore(want, x), a, a) /\ Spans(doc, SoftSpaceBefore(want, x), a, a)
  BY <1>1, <1>2 DEF IdleOps
<1> QED
  BY <1>3, CarryOne

\* Bodies that nothing follows.
LEMMA LoopPasses ==
  ASSUME IInv, VisitLoop \/ VisitForLoop \/ VisitForever
  PROVE  PassesOn
<1> DEFINE n == Arg
           body == Kids(n)[1]
<1>1. /\ Calling("visit") /\ Kind(n) \in {"LoopStatement", "ForLoopStatement", "ForeverStatement"}
      /\ Kind(n) # "Header"
  BY DEF VisitLoop, VisitForLoop, VisitForever, Visiting
<1>2. doc \in Documents /\ n \in DOMAIN doc.nodes /\ IsWellShaped(doc.nodes[n], doc.nodes)
  BY <1>1, VisitedNode
<1>3. Here(body) = Body(n) /\ There(body) = There(n)
  BY <1>1, <1>2, OnlyKid DEF TaillessKinds
<1>4. Carries(doc, VisitBody(body), Here(body), There(body))
  BY VisitBodyCarries
<1>5. Carries(doc, LabelCalls(n), Here(n), HeadAt(n))
  BY <1>2, LabelCarries
<1>6. CASE VisitLoop
  <2>1. Kind(n) = "LoopStatement" /\ Continue(pr, ControlCalls(n))
    BY <1>6 DEF VisitLoop, Visiting
  <2>2. Len(Head1(n)) >= 2
    BY <1>2, <2>1 DEF IsWellShaped, Kind, Head1
  <2>3. Carries(doc, ControlCalls(n), Here(n), There(n))
    BY <1>2, <1>3, <2>2, ControlCallsCarries
  <2> QED
    BY <1>1, <2>1, <2>3, VisitPasses
<1>7. CASE VisitForLoop
  <2> DEFINE space == <<SpaceBefore(pr.style.SpaceAfterParens, First(body))>>
             break == When(~IsBlock(body), Do("forceStatementBreak", First(body)))
             calls == LabelCalls(n) \o ControlHead(Head1(n)) \o space \o break \o VisitBody(body)
  <2>1. Kind(n) = "ForLoopStatement" /\ Continue(pr, calls)
    BY <1>7 DEF VisitForLoop, Visiting
  <2>2. Len(Head1(n)) >= 2
    BY <1>2, <2>1 DEF IsWellShaped, Kind, Head1
  <2>3. Carries(doc, ControlHead(Head1(n)), HeadAt(n), Here(body))
    BY <1>2, <1>3, <2>2, HeadCarries
  <2>4. Carries(doc, space, Here(body), Here(body)) /\ Carries(doc, break, Here(body), Here(body))
    BY SpaceSpans, Idle, CarryWhen
  <2> HIDE DEF space, break
  <2>5. Carries(doc, calls, Here(n), There(n))
    BY <1>3, <1>4, <1>5, <2>3, <2>4, CarryOnFive
  <2> QED
    BY <1>1, <2>1, <2>5, VisitPasses
<1>8. CASE VisitForever
  <2> DEFINE break == <<Do("breakConditionalBody", body)>>
             calls == LabelCalls(n) \o EmitAll(Head1(n)) \o break \o VisitBody(body)
  <2>1. Continue(pr, calls)
    BY <1>8 DEF VisitForever, Visiting
  <2>2. Carries(doc, EmitAll(Head1(n)), HeadAt(n), Here(body))
    BY <1>2, <1>3, HeadCarries
  <2>3. Carries(doc, break, Here(body), Here(body))
    BY Idle, CarryOne
  <2> HIDE DEF break
  <2>4. Carries(doc, calls, Here(n), There(n))
    BY <1>3, <1>4, <1>5, <2>2, <2>3, CarryOnFour
  <2> QED
    BY <1>1, <2>1, <2>4, VisitPasses
<1> QED
  BY <1>6, <1>7, <1>8

\* The tail of a do-while follows its body.
LEMMA DoWhilePasses ==
  ASSUME IInv, VisitDoWhile
  PROVE  PassesOn
<1> DEFINE n == Arg
           body == Kids(n)[1]
           while == Tail1(n)
           break == When(~IsBlock(body), Do("forceStatementBreak", First(body)))
           again == IF IsBlock(body) THEN <<>>
                    ELSE <<Do("forceStatementBreak", while[1]), Do("primary", 0)>>
           calls == LabelCalls(n) \o EmitAll(Head1(n)) \o break \o VisitBody(body) \o again
                      \o ControlHead(while)
<1>1. /\ Calling("visit") /\ Kind(n) = "DoWhileStatement" /\ Kind(n) # "Header"
      /\ Continue(pr, calls)
  BY DEF VisitDoWhile, Visiting
<1>2. doc \in Documents /\ n \in DOMAIN doc.nodes /\ IsWellShaped(doc.nodes[n], doc.nodes)
  BY <1>1, VisitedNode
<1>3. HasPlainOrder(n)
  BY <1>1, PlainNode DEF PlainKinds, StatementKinds, ElseKinds
<1>4. Len(Kids(n)) = 1 /\ Len(while) >= 2 /\ while \in Seq(DOMAIN doc.toks)
  BY <1>1, <1>2, NodeTypes DEF IsWellShaped, Kind, Kids, Tail1
<1>5. DOMAIN Kids(n) = {1} /\ 2 \notin DOMAIN Kids(n) /\ while # <<>> /\ 1 + 1 = 2
  BY <1>2, <1>4, NodeTypes
<1>6. /\ Here(body) = Body(n) /\ There(body) = At(CloseToken(n)) /\ CloseToken(n) \in Nat
      /\ InRow(while, CloseToken(n)) /\ There(n) = At(CloseToken(n) + Len(while))
  BY <1>2, <1>3, <1>5, KidPlaces, PlainEnd
<1>7. Carries(doc, LabelCalls(n), Here(n), HeadAt(n))
  BY <1>2, LabelCarries
<1>8. Carries(doc, EmitAll(Head1(n)), HeadAt(n), Here(body))
  BY <1>2, <1>6, HeadCarries
<1>9. Carries(doc, break, Here(body), Here(body))
  BY Idle, CarryWhen
<1>10. Carries(doc, VisitBody(body), Here(body), There(body))
  BY VisitBodyCarries
<1>11. Carries(doc, again, There(body), There(body))
  BY Idle, CarryTwo, CarryNone
<1>12. Carries(doc, ControlHead(while), There(body), There(n))
  BY <1>4, <1>6, ControlHeadCarries
<1> DEFINE front == LabelCalls(n) \o EmitAll(Head1(n)) \o break \o VisitBody(body) \o again
<1>13. calls = front \o ControlHead(while)
  OBVIOUS
<1> HIDE DEF break, again, calls, while
<1>14. Carries(doc, front, Here(n), There(body))
  BY <1>7, <1>8, <1>9, <1>10, <1>11, CarryOnFive
<1> HIDE DEF front
<1>15. Carries(doc, calls, Here(n), There(n))
  BY <1>12, <1>13, <1>14, CarryOn
<1> QED
  BY <1>1, <1>15, VisitPasses

-----------------------------------------------------------------------------
(* Nodes with an else clause. *)

\* Without one they are like others, with one the else is in front of the last.
LEMMA ElseOrder ==
  ASSUME doc \in Documents, NEW n \in DOMAIN doc.nodes, Kind(n) \in ElseKinds,
         Tail1(n) # <<>>, Kids(n) # <<>>
  PROVE  LET last == Len(Kids(n))
             next(k) == IF k = last THEN At(CloseToken(n)) ELSE KidAt(doc, n, k)
         IN  /\ last \in DOMAIN Kids(n) /\ last \in Nat
             /\ Body(n) = next(1)
             /\ \A k \in 1..(last - 1) :
                  /\ next(k) = Here(Kids(n)[k])
                  /\ There(Kids(n)[k]) = next(k + 1)
             /\ At(CloseToken(n) + 1) = Here(Kids(n)[last])
             /\ There(Kids(n)[last]) = There(n)
<1> DEFINE last == Len(Kids(n))
           start(k) == IF k = last THEN CloseToken(n) ELSE StartOf(doc.nodes[n], k, doc.nodes)
           next(k) == IF k = last THEN At(CloseToken(n)) ELSE KidAt(doc, n, k)
<1>1. IsInSourceOrder(doc.nodes[n], doc.nodes)
  BY HeadOrder
<1>2. /\ doc.nodes[n].kind \in ElseKinds /\ doc.nodes[n].kind \notin SeparatedKinds
      /\ doc.nodes[n].tail # <<>>
  BY DEF Kind, Tail1, SeparatedKinds, ElseKinds, PortListKinds, ItemListKinds, DeclaratorKinds
<1>3. HasElseClause(doc.nodes[n], doc.nodes)
  BY <1>1, <1>2 DEF IsInSourceOrder
<1>4. /\ BodyOf(doc.nodes[n]) = start(1)
      /\ \A k \in 1..(last - 1) : Behind(doc.nodes[n], k, doc.nodes) = start(k + 1)
      /\ CloseToken(n) + 1 = StartOf(doc.nodes[n], last, doc.nodes)
      /\ Behind(doc.nodes[n], last, doc.nodes) = doc.nodes[n].last + 1
  BY <1>3 DEF HasElseClause, CloseToken, Tail1, Kids
<1>5. \A k : next(k) = At(start(k))
  BY DEF KidAt
<1>6. last \in Nat /\ last \in DOMAIN Kids(n) /\ 1..(last - 1) \subseteq DOMAIN Kids(n)
  BY NodeTypes, EmptySeq
<1>7. \A k \in DOMAIN Kids(n) : /\ There(Kids(n)[k]) = At(Behind(doc.nodes[n], k, doc.nodes))
                                /\ KidAt(doc, n, k) = Here(Kids(n)[k])
  BY KidOrder DEF There, EndAt, Behind, Kids
<1>8. Body(n) = next(1)
  BY <1>4, <1>5 DEF Body
<1>9. ASSUME NEW k \in 1..(last - 1)
      PROVE  next(k) = Here(Kids(n)[k]) /\ There(Kids(n)[k]) = next(k + 1)
  <2>1. k # last /\ k \in DOMAIN Kids(n)
    BY <1>6
  <2>2. next(k) = Here(Kids(n)[k])
    BY <1>7, <2>1
  <2>3. There(Kids(n)[k]) = At(start(k + 1))
    BY <1>4, <1>7, <2>1
  <2> QED
    BY <1>5, <2>2, <2>3
<1>10. At(CloseToken(n) + 1) = Here(Kids(n)[last])
  BY <1>4, <1>6, <1>7 DEF KidAt
<1>11. There(Kids(n)[last]) = There(n)
  BY <1>4, <1>6, <1>7 DEF There, EndAt
<1> QED
  BY <1>6, <1>8, <1>9, <1>10, <1>11

\* The branches of an if.
LEMMA Branches ==
  ASSUME doc \in Documents, NEW n \in DOMAIN doc.nodes,
         Kind(n) \in {"ConditionalStatement", "IfGenerate"}
  PROVE  /\ Len(Head1(n)) >= 2
         /\ Here(Kids(n)[1]) = Body(n)
         /\ Len(Kids(n)) \in {1, 2}
         /\ Len(Kids(n)) = 1 => There(Kids(n)[1]) = There(n)
         /\ Len(Kids(n)) = 2 =>
              /\ There(Kids(n)[1]) = At(Tail1(n)[1])
              /\ Here(Kids(n)[2]) = At(Tail1(n)[1] + 1)
              /\ There(Kids(n)[2]) = There(n)
<1>1. /\ Len(Head1(n)) >= 2 /\ Len(Kids(n)) \in {1, 2} /\ Len(Tail1(n)) = Len(Kids(n)) - 1
      /\ Kids(n) \in Seq(DOMAIN doc.nodes) /\ Tail1(n) \in Seq(DOMAIN doc.toks)
  BY NodeTypes DEF IsWellShaped, Kind, Kids, Head1, Tail1
<1>2. Kind(n) \in ElseKinds /\ Kind(n) \notin SeparatedKinds
  BY DEF SeparatedKinds, ElseKinds, PortListKinds, ItemListKinds, DeclaratorKinds
<1>3. CASE Len(Kids(n)) = 1
  <2>1. Tail1(n) = <<>> /\ DOMAIN Kids(n) = {1} /\ 1 + 1 \notin DOMAIN Kids(n)
    BY <1>1, <1>3, EmptySeq
  <2>2. HasPlainOrder(n)
    BY <1>2, <2>1 DEF HasPlainOrder
  <2>3. Here(Kids(n)[1]) = Body(n) /\ There(Kids(n)[1]) = KidAt(doc, n, 1 + 1)
    BY <2>1, <2>2, KidPlaces
  <2>4. KidAt(doc, n, 1 + 1) = There(n)
    BY <2>1 DEF KidAt, StartOf, There, EndAt, Kids, Tail1
  <2> QED
    BY <1>1, <1>3, <2>3, <2>4
<1>4. CASE Len(Kids(n)) = 2
  <2>1. Tail1(n) # <<>> /\ Kids(n) # <<>> /\ 1 \in 1..(2 - 1) /\ 1 # 2 /\ 1 + 1 = 2
    BY <1>1, <1>4, NonEmpty
  <2>2. /\ Body(n) = KidAt(doc, n, 1)
        /\ KidAt(doc, n, 1) = Here(Kids(n)[1]) /\ There(Kids(n)[1]) = At(CloseToken(n))
        /\ At(CloseToken(n) + 1) = Here(Kids(n)[2]) /\ There(Kids(n)[2]) = There(n)
    BY <1>2, <1>4, <2>1, ElseOrder
  <2> QED
    BY <1>1, <1>4, <2>2 DEF CloseToken
<1> QED
  BY <1>1, <1>3, <1>4

\* The else and the clause behind it.
LEMMA ElseCallsCarries ==
  ASSUME doc \in Documents, NEW n \in DOMAIN doc.nodes,
         Kind(n) \in {"ConditionalStatement", "IfGenerate"}, Len(Kids(n)) = 2
  PROVE  /\ Carries(doc, ElseCalls(n), There(Kids(n)[1]), There(n))
         /\ Carries(doc, <<Do("primary", 0), Do("emitToken", Tail1(n)[1]),
                           Do("visit", Kids(n)[2])>>, There(Kids(n)[1]), There(n))
<1> DEFINE clause == Kids(n)[2]
           else == Tail1(n)[1]
           break == When(~IsBlock(Kids(n)[1]), Do("forceStatementBreak", else))
           keyword == <<Do("primary", 0), Do("emitToken", else)>>
           body == IF Kind(clause) = "ConditionalStatement" THEN <<Do("visit", clause)>>
                   ELSE <<Do("breakConditionalBody", clause)>> \o VisitBody(clause)
<1>1. /\ There(Kids(n)[1]) = At(else) /\ Here(clause) = At(else + 1)
      /\ There(clause) = There(n)
  BY Branches
<1>2. Carries(doc, break, At(else), At(else))
  BY Idle, CarryWhen
<1>3. Carries(doc, keyword, At(else), At(else + 1))
  <2>1. Spans(doc, Do("primary", 0), At(else), At(else))
    BY Idle
  <2>2. Spans(doc, Do("emitToken", else), At(else), At(else + 1))
    BY TokenSpans
  <2> QED
    BY <2>1, <2>2, CarryTwo
<1>4. Carries(doc, body, Here(clause), There(clause))
  <2>1. Carries(doc, <<Do("visit", clause)>>, Here(clause), There(clause))
    BY VisitSpans
  <2>2. Carries(doc, <<Do("breakConditionalBody", clause)>>, Here(clause), Here(clause))
    BY Idle, CarryOne
  <2>3. Carries(doc, <<Do("breakConditionalBody", clause)>> \o VisitBody(clause),
                Here(clause), There(clause))
    BY <2>2, VisitBodyCarries, CarryOn
  <2> QED
    BY <2>1, <2>3
<1>5. ElseCalls(n) = break \o keyword \o body
  BY DEF ElseCalls
<1>6. <<Do("primary", 0), Do("emitToken", else), Do("visit", clause)>>
        = keyword \o <<Do("visit", clause)>>
  OBVIOUS
<1>7. Carries(doc, <<Do("visit", clause)>>, Here(clause), There(clause))
  BY VisitSpans
<1> HIDE DEF break, keyword, body, clause, else
<1>9. Carries(doc, break \o keyword \o body, At(else), There(n))
  BY <1>1, <1>2, <1>3, <1>4, CarryOnThree
<1>10. Carries(doc, keyword \o <<Do("visit", clause)>>, At(else), There(n))
  BY <1>1, <1>3, <1>7, CarryOn
<1> QED
  BY <1>1, <1>5, <1>6, <1>9, <1>10 DEF clause, else

LEMMA ConditionalPasses ==
  ASSUME IInv, VisitConditional
  PROVE  PassesOn
<1> DEFINE n == Arg
           else == IF Len(Kids(n)) = 2 THEN ElseCalls(n) ELSE <<>>
<1>1. /\ Calling("visit") /\ Kind(n) = "ConditionalStatement" /\ Kind(n) # "Header"
      /\ Continue(pr, ControlCalls(n) \o else)
  BY DEF VisitConditional, Visiting
<1>2. doc \in Documents /\ n \in DOMAIN doc.nodes
  BY <1>1, VisitedNode
<1>3. Carries(doc, ControlCalls(n), Here(n), There(Kids(n)[1]))
  BY <1>1, <1>2, Branches, ControlCallsCarries
<1>4. Carries(doc, else, There(Kids(n)[1]), There(n))
  <2>1. CASE Len(Kids(n)) = 2
    BY <1>1, <1>2, <2>1, ElseCallsCarries
  <2>2. CASE Len(Kids(n)) # 2
    BY <1>1, <1>2, <2>2, Branches, CarryNone
  <2> QED
    BY <2>1, <2>2
<1> HIDE DEF else
<1>5. Carries(doc, ControlCalls(n) \o else, Here(n), There(n))
  BY <1>3, <1>4, CarryOn
<1> QED
  BY <1>1, <1>5, VisitPasses

-----------------------------------------------------------------------------
(* Assertions. *)

\* The actions of an assertion, up to the else.
LEMMA PassActionsCarries ==
  ASSUME doc \in Documents, NEW n \in DOMAIN doc.nodes,
         Kind(n) \in {"ConcurrentAssertionStatement", "ImmediateAssertionStatement"}
  PROVE  \E m : /\ Carries(doc, PassActions(n), Body(n), m)
                /\ Carries(doc, ElseAction(n), m, There(n))
<1>1. /\ Kids(n) \in Seq(DOMAIN doc.nodes) /\ (Tail1(n) # <<>> => Kids(n) # <<>>)
      /\ Tail1(n) \in Seq(DOMAIN doc.toks)
  BY NodeTypes DEF IsWellShaped, Kind, Kids, Tail1
<1>2. Kind(n) \in ElseKinds /\ Kind(n) \notin SeparatedKinds
  BY DEF SeparatedKinds, ElseKinds, PortListKinds, ItemListKinds, DeclaratorKinds
<1>3. CASE Tail1(n) = <<>>
  <2>1. HasPlainOrder(n)
    BY <1>2, <1>3 DEF HasPlainOrder
  <2>2. Len(Kids(n)) + 1 \in Nat /\ Len(Kids(n)) + 1 \notin DOMAIN Kids(n)
    BY <1>1
  <2>3. PassActions(n) = [k \in DOMAIN Kids(n) |-> Do("visit", Kids(n)[k])]
    BY <1>3 DEF PassActions
  <2>4. KidAt(doc, n, Len(Kids(n)) + 1) = There(n)
    BY <1>3, <2>2 DEF KidAt, StartOf, There, EndAt, Kids, Tail1
  <2>5. Carries(doc, PassActions(n), Body(n), There(n))
    BY <2>1, <2>3, <2>4, VisitKidsCarries DEF VisitOps
  <2>6. ElseAction(n) = <<>>
    BY <1>3 DEF ElseAction
  <2> QED
    BY <2>5, <2>6, CarryNone
<1>4. CASE Tail1(n) # <<>>
  <2> DEFINE last == Len(Kids(n))
             next(k) == IF k = last THEN At(CloseToken(n)) ELSE KidAt(doc, n, k)
  <2>0. Kids(n) # <<>>
    BY <1>1, <1>4
  <2>1. /\ last \in Nat /\ Body(n) = next(1)
        /\ \A k \in 1..(last - 1) :
             next(k) = Here(Kids(n)[k]) /\ There(Kids(n)[k]) = next(k + 1)
        /\ At(CloseToken(n) + 1) = Here(Kids(n)[last])
        /\ There(Kids(n)[last]) = There(n)
    BY <1>2, <1>4, <2>0, ElseOrder
  <2> DEFINE kids == Pop(Kids(n))
             row == [k \in DOMAIN kids |-> Do("visit", kids[k])]
             places == [k \in 1..last |-> next(k)]
  <2>2. /\ kids \in Seq(DOMAIN doc.nodes) /\ Len(kids) = last - 1
        /\ \A k \in 1..(last - 1) : kids[k] = Kids(n)[k]
    BY <1>1, <2>0, PopProperties
  <2>3. last >= 1 /\ last - 1 \in Nat /\ (last - 1) + 1 = last /\ DOMAIN kids = 1..(last - 1)
    BY <1>1, <2>0, <2>2, EmptySeq
  <2>4. next(last) = At(CloseToken(n))
    OBVIOUS
  <2>5. PassActions(n) = row
    BY <1>4 DEF PassActions
  <2> HIDE DEF next, last, kids
  <2>6. places[1] = Body(n) /\ places[(last - 1) + 1] = At(CloseToken(n))
    BY <2>1, <2>3, <2>4
  <2>7. ASSUME NEW k \in 1..(last - 1)
        PROVE  Spans(doc, row[k], places[k], places[k + 1])
    <3>1. k \in 1..last /\ k + 1 \in 1..last
      BY <2>3
    <3>2. places[k] = Here(Kids(n)[k]) /\ places[k + 1] = There(Kids(n)[k])
      BY <2>1, <3>1
    <3>3. row[k] = Do("visit", Kids(n)[k])
      BY <2>2, <2>3
    <3> HIDE DEF row, places
    <3> QED
      BY <3>2, <3>3, VisitSpans
  <2>8. row \in [1..(last - 1) -> {Do("visit", kids[k]) : k \in 1..(last - 1)}]
    BY <2>3
  <2> HIDE DEF row, places
  <2>9. Carries(doc, row, places[1], places[(last - 1) + 1])
    BY <2>3, <2>7, <2>8, CarryRow
  <2>10. Carries(doc, row, Body(n), At(CloseToken(n)))
    BY <2>6, <2>9
  <2>11. Carries(doc, ElseAction(n), At(CloseToken(n)), There(n))
    <3>1. ElseAction(n) = <<Do("primary", 0), Do("emitToken", CloseToken(n)),
                            Do("visit", Kids(n)[last])>>
      BY <1>4 DEF ElseAction, CloseToken, last
    <3>2. /\ Spans(doc, Do("primary", 0), At(CloseToken(n)), At(CloseToken(n)))
          /\ Spans(doc, Do("emitToken", CloseToken(n)), At(CloseToken(n)), At(CloseToken(n) + 1))
          /\ Spans(doc, Do("visit", Kids(n)[last]), At(CloseToken(n) + 1), There(n))
      BY <2>1, Idle, TokenSpans, VisitSpans
    <3> QED
      BY <3>1, <3>2, CarryThree, Zenon
  <2> QED
    BY <2>5, <2>10, <2>11
<1> QED
  BY <1>3, <1>4

LEMMA AssertionPasses ==
  ASSUME IInv, VisitAssertion
  PROVE  PassesOn
<1>1. PICK break \in BOOLEAN :
        /\ Calling("visit") /\ Kind(Arg) # "Header"
        /\ Kind(Arg) \in {"ConcurrentAssertionStatement", "ImmediateAssertionStatement"}
        /\ Continue(pr, AssertionCalls(Arg, break))
  BY DEF VisitAssertion, Visiting
<1>2. doc \in Documents /\ Arg \in DOMAIN doc.nodes
  BY <1>1, VisitedNode
<1> DEFINE line == When(Label(Arg) # <<>> /\ pr.style.BreakAfterAssertionLabel /\ break,
                        Do("freshLine", 0))
<1>3. Carries(doc, LabelCalls(Arg), Here(Arg), HeadAt(Arg))
  BY <1>2, LabelCarries
<1>4. Carries(doc, line, HeadAt(Arg), HeadAt(Arg))
  BY Idle, CarryWhen
<1>5. Carries(doc, EmitAll(Head1(Arg)), HeadAt(Arg), Body(Arg))
  BY <1>2, HeadCarries
<1>6. PICK m : /\ Carries(doc, PassActions(Arg), Body(Arg), m)
               /\ Carries(doc, ElseAction(Arg), m, There(Arg))
  BY <1>1, <1>2, PassActionsCarries
<1>7. AssertionCalls(Arg, break)
        = LabelCalls(Arg) \o line \o EmitAll(Head1(Arg)) \o PassActions(Arg) \o ElseAction(Arg)
  BY DEF AssertionCalls
<1> HIDE DEF line
<1>8. Carries(doc, AssertionCalls(Arg, break), Here(Arg), There(Arg))
  BY <1>3, <1>4, <1>5, <1>6, <1>7, CarryOnFive
<1> QED
  BY <1>1, <1>8, VisitPasses

-----------------------------------------------------------------------------
(* Case statements. *)

\* The header of a scope, if it has one, and its members.
LEMMA MembersCarry ==
  ASSUME doc \in Documents, NEW n \in DOMAIN doc.nodes, Kind(n) \in PlainKinds,
         NEW op \in PlainLoops
  PROVE  LET m == KidAt(doc, n, FirstMember(n))
         IN  /\ Carries(doc, VisitHeaderOf(n), Body(n), m)
             /\ HasHeader(n) => Carries(doc, VisitHeaderOf(n), Mid(BodyOf(doc.nodes[n])), m)
             /\ Carries(doc, <<Do("indent", 0), DoNth(op, n, FirstMember(n))>>, m, There(n))
             /\ ~HasHeader(n) => m = Body(n)
<1> DEFINE m == KidAt(doc, n, FirstMember(n))
<1>1. HasPlainOrder(n)
  BY PlainNode
<1>2. Carries(doc, <<Do("indent", 0), DoNth(op, n, FirstMember(n))>>, m, There(n))
  <2>1. FirstMember(n) \in Nat /\ FirstMember(n) # 0
    BY DEF FirstMember
  <2> QED
    BY <2>1, LoopSpans
<1>3. CASE HasHeader(n)
  <2>1. 1 \in DOMAIN Kids(n) /\ Kind(Kids(n)[1]) = "Header" /\ 1 + 1 = 2 /\ FirstMember(n) = 2
    BY <1>3, NodeTypes, EmptySeq DEF HasHeader, FirstMember
  <2>2. Here(Kids(n)[1]) = Body(n) /\ There(Kids(n)[1]) = m
    BY <1>1, <2>1, KidPlaces
  <2>3. Mid(First(Kids(n)[1])) = Mid(BodyOf(doc.nodes[n]))
    BY <2>2 DEF Here, Body, At, Mid
  <2>4. VisitHeaderOf(n) = <<Do("visit", Kids(n)[1])>>
    BY <1>3 DEF VisitHeaderOf
  <2>5. /\ Spans(doc, Do("visit", Kids(n)[1]), Here(Kids(n)[1]), There(Kids(n)[1]))
        /\ Spans(doc, Do("visit", Kids(n)[1]), Mid(First(Kids(n)[1])), There(Kids(n)[1]))
    BY <2>1, VisitSpans
  <2>6. /\ Carries(doc, VisitHeaderOf(n), Here(Kids(n)[1]), There(Kids(n)[1]))
        /\ Carries(doc, VisitHeaderOf(n), Mid(First(Kids(n)[1])), There(Kids(n)[1]))
    BY <2>4, <2>5, CarryOne
  <2> QED
    BY <1>2, <1>3, <2>2, <2>3, <2>6
<1>4. CASE ~HasHeader(n)
  <2>1. FirstMember(n) = 1 /\ VisitHeaderOf(n) = <<>>
    BY <1>4 DEF FirstMember, VisitHeaderOf
  <2>2. m = Body(n)
    BY <1>1, <2>1, KidPlaces
  <2> QED
    BY <1>2, <1>4, <2>1, <2>2, CarryNone
<1> QED
  BY <1>3, <1>4

\* The tokens in front of the last one of a head.
LEMMA PopHead ==
  ASSUME doc \in Documents, NEW n \in DOMAIN doc.nodes, Head1(n) # <<>>
  PROVE  LET last == Head1(n)[Len(Head1(n))]
         IN  /\ Carries(doc, EmitAll(Pop(Head1(n))), HeadAt(n), At(last))
             /\ Len(Pop(Head1(n))) >= 2 =>
                  Carries(doc, ControlHead(Pop(Head1(n))), HeadAt(n), At(last))
             /\ At(last + 1) = Body(n)
             /\ Len(Pop(Head1(n))) = Len(Head1(n)) - 1
<1> DEFINE at == First(n) + Len(Label(n))
           toks == Head1(n)
           last == toks[Len(toks)]
<1>1. toks \in Seq(DOMAIN doc.toks) /\ toks # <<>> /\ Len(toks) \in Nat
  BY NodeTypes
<1>2. /\ at \in Nat /\ InRow(toks, at) /\ BodyOf(doc.nodes[n]) = at + Len(toks)
  BY HeadOrder
<1>3. HeadAt(n) = At(at) /\ Body(n) = At(at + Len(toks))
  BY <1>2 DEF HeadAt, Body
<1> HIDE DEF at, toks
<1>4. /\ last = at + Len(toks) - 1
      /\ Pop(toks) \in Seq(DOMAIN doc.toks) /\ Len(Pop(toks)) = Len(toks) - 1
      /\ InRow(Pop(toks), at)
  BY <1>1, <1>2, RowParts
<1>5. at + Len(Pop(toks)) = last /\ last + 1 = at + Len(toks)
  BY <1>1, <1>2, <1>4
<1>6. Carries(doc, EmitAll(Pop(toks)), At(at), At(at + Len(Pop(toks))))
  BY <1>2, <1>4, EmitAllCarries
<1>7. Len(Pop(toks)) >= 2 =>
        Carries(doc, ControlHead(Pop(toks)), At(at), At(at + Len(Pop(toks))))
  BY <1>2, <1>4, ControlHeadCarries
<1>8. Carries(doc, EmitAll(Pop(toks)), HeadAt(n), At(last))
  BY <1>3, <1>5, <1>6
<1>9. Len(Pop(toks)) >= 2 => Carries(doc, ControlHead(Pop(toks)), HeadAt(n), At(last))
  BY <1>3, <1>5, <1>7
<1>10. At(last + 1) = Body(n)
  BY <1>3, <1>5
<1> QED
  BY <1>4, <1>8, <1>9, <1>10 DEF toks

\* The head of a case statement, and of a case item.
LEMMA CaseHeadCarries ==
  ASSUME doc \in Documents, NEW n \in DOMAIN doc.nodes, Len(Head1(n)) >= 3
  PROVE  Carries(doc, CaseHead(Head1(n)), HeadAt(n), Body(n))
<1> DEFINE last == Head1(n)[Len(Head1(n))]
           end == <<SpaceBefore(pr.style.SpaceAfterParens, last), Do("emitToken", last)>>
<1>1. Head1(n) # <<>> /\ Len(Head1(n)) >= 2 /\ Len(Head1(n)) \in Nat
  BY NodeTypes, EmptySeq
<1>2. CASE Tok(last).kind = "CloseParenthesis"
  BY <1>1, <1>2, HeadCarries DEF CaseHead
<1>3. CASE Tok(last).kind # "CloseParenthesis"
  <2>1. CaseHead(Head1(n)) = ControlHead(Pop(Head1(n))) \o end
    BY <1>3 DEF CaseHead
  <2>2. Len(Pop(Head1(n))) >= 2
    BY <1>1, PopHead
  <2>3. Carries(doc, ControlHead(Pop(Head1(n))), HeadAt(n), At(last)) /\ At(last + 1) = Body(n)
    BY <1>1, <2>2, PopHead
  <2>4. Carries(doc, end, At(last), At(last + 1))
    <3>1. Spans(doc, SpaceBefore(pr.style.SpaceAfterParens, last), At(last), At(last))
      BY SpaceSpans
    <3>2. Spans(doc, Do("emitToken", last), At(last), At(last + 1))
      BY TokenSpans
    <3> QED
      BY <3>1, <3>2, CarryTwo
  <2> HIDE DEF end
  <2> QED
    BY <2>1, <2>3, <2>4, CarryOn
<1> QED
  BY <1>2, <1>3

LEMMA CasePasses ==
  ASSUME IInv, VisitCase \/ VisitRandCase \/ VisitRandSequence
  PROVE  PassesOn
<1> DEFINE n == Arg
<1>1. /\ Calling("visit") /\ Kind(n) # "Header" /\ Kind(n) \in PlainKinds
      /\ Kind(n) \in {"CaseStatement", "RandCaseStatement", "RandSequenceStatement"}
  BY DEF VisitCase, VisitRandCase, VisitRandSequence, Visiting, PlainKinds, StatementKinds,
         ElseKinds, ScopeKinds
<1>2. doc \in Documents /\ n \in DOMAIN doc.nodes /\ IsWellShaped(doc.nodes[n], doc.nodes)
  BY <1>1, VisitedNode
<1>3. PICK calls : /\ Carries(doc, calls, HeadAt(n), Body(n))
                   /\ Continue(pr, LabelCalls(n) \o calls \o OpenMembers(n))
  <2>1. CASE VisitCase
    <3>1. /\ Kind(n) = "CaseStatement"
          /\ Continue(pr, LabelCalls(n) \o CaseHead(Head1(n)) \o OpenMembers(n))
      BY <2>1 DEF VisitCase, Visiting
    <3>2. Len(Head1(n)) >= 3
      BY <1>2, <3>1 DEF IsWellShaped, Kind, Head1
    <3> QED
      BY <1>2, <3>1, <3>2, CaseHeadCarries
  <2>2. CASE VisitRandCase \/ VisitRandSequence
    BY <1>2, <2>2, HeadCarries DEF VisitRandCase, VisitRandSequence
  <2> QED
    BY <2>1, <2>2
<1>4. ~HasHeader(n)
  BY <1>1, <1>2 DEF IsWellShaped, HasHeader, Kind, Kids
<1>5. Carries(doc, OpenMembers(n), Body(n), There(n))
  BY <1>1, <1>2, <1>4, MembersCarry DEF OpenMembers, PlainLoops
<1>6. Carries(doc, LabelCalls(n) \o calls \o OpenMembers(n), Here(n), There(n))
  BY <1>2, <1>3, <1>5, LabelCarries, CarryOnThree
<1> QED
  BY <1>1, <1>3, <1>6, VisitPasses

LEMMA VisitClauseCarries ==
  ASSUME NEW m
  PROVE  Carries(doc, VisitClause(m), Here(m), There(m))
<1>1. /\ Carries(doc, VisitBody(m), Here(m), There(m))
      /\ Carries(doc, <<Do("visit", m)>>, Here(m), There(m))
      /\ Carries(doc, <<Do("primary", 0), Do("visit", m)>>, Here(m), There(m))
  BY VisitBodyCarries, VisitSpans, Idle, CarryTwo
<1> QED
  BY <1>1 DEF VisitClause

LEMMA CaseItemHeadCarries ==
  ASSUME doc \in Documents, NEW n \in DOMAIN doc.nodes, Kind(n) \in CaseItemKinds
  PROVE  /\ Carries(doc, CaseItemHead(n), Here(n), Body(n))
         /\ Here(Kids(n)[1]) = Body(n) /\ There(Kids(n)[1]) = There(n)
         /\ Carries(doc, SpaceBeforeClause(n), Body(n), Body(n))
         /\ Carries(doc, VisitClause(Kids(n)[1]), Body(n), There(n))
         /\ Carries(doc, <<Do("visit", Kids(n)[1])>>, Body(n), There(n))
<1> DEFINE colon == Head1(n)[Len(Head1(n))]
           end == <<SoftSpaceBefore(pr.style.SpaceBeforeCaseColon, colon),
                    Do("emitToken", colon)>>
<1>1. Head1(n) # <<>> /\ Label(n) = <<>>
  BY NodeTypes
     DEF IsWellShaped, Kind, Head1, Label, CaseItemKinds, StatementKinds
<1>2. /\ Carries(doc, EmitAll(Pop(Head1(n))), Here(n), At(colon)) /\ At(colon + 1) = Body(n)
  BY <1>1, PopHead, LabelCarries
<1>3. Carries(doc, end, At(colon), At(colon + 1))
  <2>1. Spans(doc, SoftSpaceBefore(pr.style.SpaceBeforeCaseColon, colon), At(colon), At(colon))
    BY SpaceSpans
  <2>2. Spans(doc, Do("emitToken", colon), At(colon), At(colon + 1))
    BY TokenSpans
  <2> QED
    BY <2>1, <2>2, CarryTwo
<1>4. CaseItemHead(n) = EmitAll(Pop(Head1(n))) \o end
  BY DEF CaseItemHead
<1> HIDE DEF end, colon
<1>5. Carries(doc, CaseItemHead(n), Here(n), Body(n))
  BY <1>2, <1>3, <1>4, CarryOn
<1>6. Here(Kids(n)[1]) = Body(n) /\ There(Kids(n)[1]) = There(n)
  BY OnlyKid DEF TaillessKinds
<1>7. Carries(doc, SpaceBeforeClause(n), Body(n), Body(n))
  BY SpaceSpans DEF SpaceBeforeClause
<1>8. /\ Carries(doc, VisitClause(Kids(n)[1]), Body(n), There(n))
      /\ Carries(doc, <<Do("visit", Kids(n)[1])>>, Body(n), There(n))
  BY <1>6, VisitClauseCarries, VisitSpans
<1> QED
  BY <1>5, <1>6, <1>7, <1>8

LEMMA CaseItemPasses ==
  ASSUME IInv, VisitCaseItem \/ VisitDefaultCaseItem \/ VisitRandCaseItem
  PROVE  PassesOn
<1> DEFINE n == Arg
           clause == Kids(n)[1]
<1>1. Calling("visit") /\ Kind(n) # "Header" /\ Kind(n) \in CaseItemKinds
  BY DEF VisitCaseItem, VisitDefaultCaseItem, VisitRandCaseItem, Visiting, CaseItemKinds
<1>2. doc \in Documents /\ n \in DOMAIN doc.nodes
  BY <1>1, VisitedNode
<1>3. /\ Carries(doc, CaseItemHead(n), Here(n), Body(n))
      /\ Carries(doc, SpaceBeforeClause(n), Body(n), Body(n))
      /\ Carries(doc, VisitClause(clause), Body(n), There(n))
      /\ Carries(doc, <<Do("visit", clause)>>, Body(n), There(n))
  BY <1>1, <1>2, CaseItemHeadCarries
<1>4. CASE VisitCaseItem
  <2>1. Continue(Primary(pr), CaseItemHead(n) \o SpaceBeforeClause(n) \o VisitClause(clause))
    BY <1>4 DEF VisitCaseItem
  <2>2. Carries(doc, CaseItemHead(n) \o SpaceBeforeClause(n) \o VisitClause(clause),
                Here(n), There(n))
    BY <1>3, CarryOnThree
  <2> QED
    BY <1>1, <2>1, <2>2, VisitPasses
<1>5. CASE VisitDefaultCaseItem
  <2> DEFINE before == IF Kind(clause) = "GenerateBlock" THEN <<Do("freshLine", 0)>>
                       ELSE SpaceBeforeClause(n)
  <2>1. Continue(Primary(pr), CaseItemHead(n) \o before \o VisitClause(clause))
    BY <1>5 DEF VisitDefaultCaseItem
  <2>2. Carries(doc, before, Body(n), Body(n))
    BY <1>3, Idle, CarryOne
  <2> HIDE DEF before
  <2>3. Carries(doc, CaseItemHead(n) \o before \o VisitClause(clause), Here(n), There(n))
    BY <1>3, <2>2, CarryOnThree
  <2> QED
    BY <1>1, <2>1, <2>3, VisitPasses
<1>6. CASE VisitRandCaseItem
  <2>1. Continue(pr, CaseItemHead(n) \o SpaceBeforeClause(n) \o <<Do("visit", clause)>>)
    BY <1>6 DEF VisitRandCaseItem
  <2>2. Carries(doc, CaseItemHead(n) \o SpaceBeforeClause(n) \o <<Do("visit", clause)>>,
                Here(n), There(n))
    BY <1>3, CarryOnThree
  <2> QED
    BY <1>1, <2>1, <2>2, VisitPasses
<1> QED
  BY <1>4, <1>5, <1>6

\* A loop over separated items.
ListKinds == SeparatedKinds \ (DeclaratorKinds \cup {"HierarchyInstantiation"})

ListLoops == {"port", "wrappedPort", "plainPort", "listedItem", "listItem"}

\* The loop of such a list copies from its item on to the end of the node.
LEMMA ListSpans ==
  ASSUME NEW n, Kind(n) \in ListKinds
  PROVE  /\ \A op \in ListLoops : \A k \in Nat : k # 0 =>
              Spans(doc, DoNth(op, n, k), KidAt(doc, n, k), There(n))
         /\ Spans(doc, Do("portList", n), KidAt(doc, n, 1), There(n))
         /\ Unseparated(doc.nodes[n], doc.nodes) = 0
<1>1. Unseparated(doc.nodes[n], doc.nodes) = 0
  BY DEF Unseparated, ListKinds, Kind
<1>2. ASSUME NEW op \in ListLoops, NEW k \in Nat, k # 0
      PROVE  Spans(doc, DoNth(op, n, k), KidAt(doc, n, k), There(n))
  <2>1. Suits(doc, op, n)
    BY DEF Suits, ListLoops, ListKinds, Kind
  <2>2. GoesOn(doc, op, n, k)
    BY <1>1, <1>2, <2>1 DEF GoesOn
  <2>3. op \in LoopOps
    BY DEF LoopOps, ListLoops
  <2> QED
    BY <2>2, <2>3, NodeSpans DEF There
<1>3. Spans(doc, Do("portList", n), KidAt(doc, n, 1), There(n))
  <2>1. Suits(doc, "portList", n)
    BY DEF Suits, ListKinds, Kind
  <2> QED
    BY <2>1, NodeSpans DEF There, FirstOps
<1> QED
  BY <1>1, <1>2, <1>3

-----------------------------------------------------------------------------
(* Timing controls, random sequences. *)

\* The timing control in front of a statement.
LEMMA TimingCarries ==
  ASSUME doc \in Documents, NEW n \in DOMAIN doc.nodes, Kind(n) = "TimingControlStatement"
  PROVE  /\ Carries(doc, TimingCalls(n), Here(n), Here(Kids(n)[1]))
         /\ Here(Kids(n)[1]) = Body(n) /\ There(Kids(n)[1]) = There(n)
<1> DEFINE space == When(Tok(Head1(n)[Len(Head1(n))]).kind = "CloseParenthesis",
                         SpaceBefore(pr.style.SpaceAfterEventControl, First(Kids(n)[1])))
<1>1. Here(Kids(n)[1]) = Body(n) /\ There(Kids(n)[1]) = There(n)
  BY OnlyKid DEF TaillessKinds
<1>2. Carries(doc, space, Body(n), Body(n))
  BY SpaceSpans, CarryWhen
<1>3. TimingCalls(n) = LabelCalls(n) \o EmitAll(Head1(n)) \o space
  BY DEF TimingCalls
<1> HIDE DEF space
<1> QED
  BY <1>1, <1>2, <1>3, LabelCarries, HeadCarries, CarryOnThree

LEMMA TimingPasses ==
  ASSUME IInv, VisitTimingControl
  PROVE  PassesOn
<1> DEFINE n == Arg
           body == Kids(n)[1]
           calls == IF Kind(body) = "EmptyStatement" THEN <<Do("visit", body)>>
                    ELSE VisitBody(body)
<1>1. /\ Calling("visit") /\ Kind(n) = "TimingControlStatement" /\ Kind(n) # "Header"
      /\ Continue(pr, TimingCalls(n) \o calls)
  BY DEF VisitTimingControl, Visiting
<1>2. doc \in Documents /\ n \in DOMAIN doc.nodes
  BY <1>1, VisitedNode
<1>3. Carries(doc, TimingCalls(n), Here(n), Here(body)) /\ There(body) = There(n)
  BY <1>1, <1>2, TimingCarries
<1>4. Carries(doc, calls, Here(body), There(body))
  BY VisitBodyCarries, VisitSpans
<1> HIDE DEF calls
<1>5. Carries(doc, TimingCalls(n) \o calls, Here(n), There(n))
  BY <1>3, <1>4, CarryOn
<1> QED
  BY <1>1, <1>5, VisitPasses

LEMMA ProductionPasses ==
  ASSUME IInv, VisitProduction
  PROVE  PassesOn
<1> DEFINE n == Arg
           colon == Head1(n)[Len(Head1(n))]
           end == <<Do("ensureSingleSpace", 0), Do("emitToken", colon),
                    Do("ensureSpace", 0), DoNth("plainPort", n, 1)>>
<1>1. /\ Calling("visit") /\ Kind(n) \in {"Production", "RsCaseItem"} /\ Kind(n) # "Header"
      /\ Continue(pr, EmitAll(Pop(Head1(n))) \o end)
  BY DEF VisitProduction, Visiting
<1>2. doc \in Documents /\ n \in DOMAIN doc.nodes /\ IsWellShaped(doc.nodes[n], doc.nodes)
  BY <1>1, VisitedNode
<1>3. Head1(n) # <<>> /\ Label(n) = <<>>
  BY <1>1, <1>2 DEF IsWellShaped, Kind, Head1, Label, StatementKinds
<1>4. Kind(n) \in ListKinds /\ Kind(n) \in SeparatedKinds
  BY <1>1 DEF ListKinds, SeparatedKinds, DeclaratorKinds
<1>5. Carries(doc, EmitAll(Pop(Head1(n))), Here(n), At(colon)) /\ At(colon + 1) = Body(n)
  BY <1>2, <1>3, PopHead, LabelCarries
<1>6. KidAt(doc, n, 1) = Body(n)
  BY <1>2, <1>4, ListOrder DEF Body
<1>7. Carries(doc, end, At(colon), There(n))
  <2>1. /\ Spans(doc, Do("ensureSingleSpace", 0), At(colon), At(colon))
        /\ Spans(doc, Do("ensureSpace", 0), At(colon + 1), At(colon + 1))
    BY Idle
  <2>2. Spans(doc, Do("emitToken", colon), At(colon), At(colon + 1))
    BY TokenSpans
  <2>3. Spans(doc, DoNth("plainPort", n, 1), At(colon + 1), There(n))
    BY <1>4, <1>5, <1>6, ListSpans DEF ListLoops
  <2> QED
    BY <2>1, <2>2, <2>3, CarryFour, Zenon
<1> HIDE DEF end, colon
<1>8. Carries(doc, EmitAll(Pop(Head1(n))) \o end, Here(n), There(n))
  BY <1>5, <1>7, CarryOn
<1> QED
  BY <1>1, <1>8, VisitPasses

LEMMA RsCasePasses ==
  ASSUME IInv, VisitRsCase
  PROVE  PassesOn
<1> DEFINE n == Arg
           items == <<Do("indent", 0), DoNth("rsItem", n, 1)>>
<1>1. /\ Calling("visit") /\ Kind(n) = "RsCase" /\ Kind(n) # "Header"
      /\ Continue(pr, EmitAll(Head1(n)) \o items)
  BY DEF VisitRsCase, Visiting
<1>2. doc \in Documents /\ n \in DOMAIN doc.nodes /\ IsWellShaped(doc.nodes[n], doc.nodes)
  BY <1>1, VisitedNode
<1>3. Label(n) = <<>>
  BY <1>1, <1>2 DEF IsWellShaped, Kind, Label, StatementKinds
<1>4. Kind(n) \in PlainKinds
  BY <1>1 DEF PlainKinds
<1>5. Carries(doc, items, Body(n), There(n))
  BY <1>2, <1>4, PlainNode, KidPlaces, LoopSpans DEF PlainLoops
<1> HIDE DEF items
<1>6. Carries(doc, EmitAll(Head1(n)) \o items, Here(n), There(n))
  BY <1>2, <1>3, <1>5, LabelCarries, HeadCarries, CarryOn
<1> QED
  BY <1>1, <1>6, VisitPasses

-----------------------------------------------------------------------------
(* Procedures. *)

\* A blank line is asked for in front of a node, or not.
Began(n, cond) == IF cond THEN Mid(First(n)) ELSE Here(n)

\* A blank line in front of a node is none of its content.
LEMMA BeganCarries ==
  ASSUME NEW n, NEW cond
  PROVE  Carries(doc, When(cond, Do("insertBlankLineBefore", First(n))), Here(n),
                 Began(n, cond))
<1>1. Spans(doc, Do("insertBlankLineBefore", First(n)), At(First(n)), Mid(First(n)))
  BY TokenSpans
<1>2. CASE cond
  BY <1>1, <1>2, CarryOne DEF When, Began, Here
<1>3. CASE ~cond
  BY <1>3, CarryNone DEF When, Began
<1> QED
  BY <1>2, <1>3

\* The statement of a procedure.
LEMMA ProceduralBodyCarries ==
  ASSUME doc \in Documents, NEW n \in DOMAIN doc.nodes, NEW breakAfter
  PROVE  Carries(doc, ProceduralBody(n, breakAfter), Here(n), There(n))
<1> DEFINE timed == Kind(n) = "TimingControlStatement"
           body == IF timed THEN Kids(n)[1] ELSE n
           front == IF timed THEN TimingCalls(n) ELSE <<>>
           break == IF ShouldBreakAfterProcedural(breakAfter, body)
                    THEN <<Do("forceNewline", 0), Do("primary", 0)>> ELSE <<>>
<1>1. Carries(doc, front, Here(n), Here(body)) /\ There(body) = There(n)
  <2>1. CASE timed
    BY <2>1, TimingCarries
  <2>2. CASE ~timed
    BY <2>2, CarryNone
  <2> QED
    BY <2>1, <2>2
<1>2. Carries(doc, break, Here(body), Here(body))
  BY Idle, CarryTwo, CarryNone
<1>3. Carries(doc, VisitBody(body), Here(body), There(body))
  BY VisitBodyCarries
<1>4. ProceduralBody(n, breakAfter) = front \o break \o VisitBody(body)
  BY DEF ProceduralBody
<1> HIDE DEF front, break, body
<1> QED
  BY <1>1, <1>2, <1>3, <1>4, CarryOnThree

LEMMA ProceduralPasses ==
  ASSUME IInv, VisitProceduralBlock \/ VisitInitialBlock
  PROVE  PassesOn
<1> DEFINE n == Arg
           stmt == Kids(n)[1]
<1>1. Calling("visit") /\ Kind(n) # "Header" /\ Kind(n) \in ProcedureKinds
  BY DEF VisitProceduralBlock, VisitInitialBlock, Visiting, ProcedureKinds
<1>2. doc \in Documents /\ n \in DOMAIN doc.nodes /\ IsWellShaped(doc.nodes[n], doc.nodes)
  BY <1>1, VisitedNode
<1>3. Head1(n) # <<>> /\ Label(n) = <<>>
  BY <1>1, <1>2
     DEF IsWellShaped, Kind, Head1, Label, StatementKinds, ProcedureKinds
<1>4. stmt \in DOMAIN doc.nodes /\ Here(stmt) = Body(n) /\ There(stmt) = There(n)
  BY <1>1, <1>2, OnlyKid DEF TaillessKinds
<1>5. \A breakAfter : Carries(doc, ProceduralBody(stmt, breakAfter), Body(n), There(n))
  BY <1>2, <1>4, ProceduralBodyCarries
<1>6. \A cond : Carries(doc, EmitAll(Head1(n)), Began(n, cond), Body(n))
  BY <1>2, <1>3, HeadCarries, LabelCarries DEF Began
<1>7. \A cond : Carries(doc, <<Do("primary", 0)>>, Began(n, cond), Began(n, cond))
  BY Idle, CarryOne
<1>8. CASE VisitProceduralBlock
  <2> DEFINE cond == ShouldBreakBeforeProcedural(pr.style.BreakBeforeAlways, TimedBody(stmt))
             blank == When(cond, Do("insertBlankLineBefore", First(n)))
             line == When(Kind(stmt) = "TimingControlStatement", Do("timingControlLine", 0))
             primary == <<Do("primary", 0)>>
             space == <<SpaceBefore(pr.style.SpaceAfterAlways, First(stmt))>>
             body == ProceduralBody(stmt, pr.style.BreakAfterAlways)
             front == blank \o line \o primary \o EmitAll(Head1(n)) \o space
  <2>1. Continue(pr, front \o body)
    BY <1>8 DEF VisitProceduralBlock
  <2>2. Carries(doc, blank, Here(n), Began(n, cond))
    BY BeganCarries
  <2>3. Carries(doc, line, Began(n, cond), Began(n, cond))
    BY Idle, CarryWhen
  <2>4. Carries(doc, space, Body(n), Body(n))
    BY SpaceSpans
  <2>5. /\ Carries(doc, primary, Began(n, cond), Began(n, cond))
        /\ Carries(doc, EmitAll(Head1(n)), Began(n, cond), Body(n))
        /\ Carries(doc, body, Body(n), There(n))
    BY <1>5, <1>6, <1>7
  <2> HIDE DEF cond, blank, line, primary, space, body
  <2>6. Carries(doc, front, Here(n), Body(n))
    BY <2>2, <2>3, <2>4, <2>5, CarryOnFive
  <2> HIDE DEF front
  <2>7. Carries(doc, front \o body, Here(n), There(n))
    BY <2>5, <2>6, CarryOn
  <2> QED
    BY <1>1, <2>1, <2>7, VisitPasses
<1>9. CASE VisitInitialBlock
  <2> DEFINE cond == ShouldBreakBeforeProcedural(pr.style.BreakBeforeInitial, TimedBody(stmt))
             blank == When(cond, Do("insertBlankLineBefore", First(n)))
             primary == <<Do("primary", 0)>>
             body == ProceduralBody(stmt, pr.style.BreakAfterInitial)
             calls == blank \o primary \o EmitAll(Head1(n)) \o body
  <2>1. Continue(pr, calls)
    BY <1>9 DEF VisitInitialBlock
  <2>2. Carries(doc, blank, Here(n), Began(n, cond))
    BY BeganCarries
  <2>3. /\ Carries(doc, primary, Began(n, cond), Began(n, cond))
        /\ Carries(doc, EmitAll(Head1(n)), Began(n, cond), Body(n))
        /\ Carries(doc, body, Body(n), There(n))
    BY <1>5, <1>6, <1>7
  <2> HIDE DEF cond, blank, primary, body
  <2>4. Carries(doc, calls, Here(n), There(n))
    BY <2>2, <2>3, CarryOnFour
  <2> QED
    BY <1>1, <2>1, <2>4, VisitPasses
<1> QED
  BY <1>8, <1>9

-----------------------------------------------------------------------------
(* The loops over items that nothing separates. *)

ItemLoops == PlainLoops \cup {"constraintItem", "inlineItem"}

\* Where such a loop has got to.
LEMMA ItemLoopAt ==
  ASSUME IInv, work # <<>>, Head(work).op \in ItemLoops,
         NEW a, NEW b, Spans(doc, Head(work), a, b)
  PROVE  /\ doc \in Documents /\ Arg \in DOMAIN doc.nodes /\ HasPlainOrder(Arg)
         /\ Head(work).i \in Nat /\ Head(work).i + 1 \in Nat
         /\ a = KidAt(doc, Arg, Head(work).i) /\ b = There(Arg)
         /\ Suits(doc, Head(work).op, Arg)
         /\ GoesOn(doc, Head(work).op, Arg, Head(work).i + 1)
<1> DEFINE op == Head(work).op
           i == Head(work).i
<1>1. op \in LoopOps /\ op \in NodeOps
  BY DEF ItemLoops, PlainLoops, LoopOps, NodeOps, ListOps, KindOps
<1>2. doc \in Documents /\ Arg \in DOMAIN doc.nodes /\ i \in Nat /\ i + 1 \in Nat
  BY <1>1, CallTypes
<1>3. a = KidAt(doc, Arg, i) /\ b = There(Arg) /\ GoesOn(doc, op, Arg, i)
  BY <1>1, SpansRules DEF Arg, There
<1>4. Suits(doc, op, Arg) /\ i > Unseparated(doc.nodes[Arg], doc.nodes)
  BY <1>3 DEF GoesOn
<1>5. Unseparated(doc.nodes[Arg], doc.nodes) \in {0, 1}
  BY DEF Unseparated
<1>6. i + 1 > Unseparated(doc.nodes[Arg], doc.nodes)
  BY <1>2, <1>4, <1>5
<1>7. GoesOn(doc, op, Arg, i + 1)
  BY <1>2, <1>4, <1>6 DEF GoesOn
<1>8. HasPlainOrder(Arg)
  <2>1. CASE op \in PlainLoops
    <3>1. Kind(Arg) \notin SeparatedKinds \cup ElseKinds
      BY <1>4, <2>1 DEF Suits, PlainLoops, Kind
    <3> QED
      BY <3>1 DEF HasPlainOrder
  <2>2. CASE op \in {"constraintItem", "inlineItem"}
    <3>1. Kind(Arg) \in {"ConstraintBlock"} \cup CoverKinds
      BY <1>4, <2>2 DEF Suits, Kind
    <3> QED
      BY <3>1, PlainNode DEF PlainKinds
  <2> QED
    BY <2>1, <2>2 DEF ItemLoops
<1> QED
  BY <1>2, <1>3, <1>4, <1>7, <1>8

\* An item, and what follows it.
LEMMA ItemCarries ==
  ASSUME IInv, work # <<>>, Head(work).op \in ItemLoops,
         NEW a, NEW b, Spans(doc, Head(work), a, b),
         Head(work).i \in DOMAIN Kids(Arg)
  PROVE  LET kid == Kids(Arg)[Head(work).i]
             next == KidAt(doc, Arg, Head(work).i + 1)
         IN  /\ Spans(doc, Do("visit", kid), a, next) /\ a = Here(kid)
             /\ Spans(doc, DoNth(Head(work).op, Arg, Head(work).i + 1), next, b)
             /\ Carries(doc, <<Do("visit", kid),
                               DoNth(Head(work).op, Arg, Head(work).i + 1)>>, a, b)
<1> DEFINE op == Head(work).op
           i == Head(work).i
           kid == Kids(Arg)[i]
           next == KidAt(doc, Arg, i + 1)
<1>1. /\ doc \in Documents /\ Arg \in DOMAIN doc.nodes /\ HasPlainOrder(Arg)
      /\ a = KidAt(doc, Arg, i) /\ b = There(Arg) /\ GoesOn(doc, op, Arg, i + 1)
  BY ItemLoopAt
<1>2. a = Here(kid) /\ next = There(kid)
  BY <1>1, KidPlaces
<1>3. Spans(doc, Do("visit", kid), a, next)
  BY <1>2, VisitSpans
<1>4. op \in LoopOps
  BY DEF ItemLoops, PlainLoops, LoopOps
<1>5. Spans(doc, DoNth(op, Arg, i + 1), next, b)
  BY <1>1, <1>4, NodeSpans DEF There
<1> QED
  BY <1>2, <1>3, <1>5, CarryTwo

\* No item is left.
LEMMA ItemsEnd ==
  ASSUME IInv, work # <<>>, Head(work).op \in ItemLoops,
         NEW a, NEW b, Spans(doc, Head(work), a, b),
         Head(work).i \notin DOMAIN Kids(Arg)
  PROVE  /\ Carries(doc, EmitAll(Tail1(Arg)), a, b)
         /\ Tail1(Arg) # <<>> => a = At(CloseToken(Arg))
         /\ Len(Tail1(Arg)) = 1 => /\ b = At(CloseToken(Arg) + 1)
                                   /\ Tail1(Arg) # <<>>
         /\ Head(work).op \in PlainLoops /\ Tail1(Arg) # <<>> =>
              Carries(doc, <<Do("emitEndTokenTrivia", CloseToken(Arg)),
                             Do("closeScope", Arg)>>, a, b)
<1> DEFINE op == Head(work).op
           i == Head(work).i
<1>1. /\ doc \in Documents /\ Arg \in DOMAIN doc.nodes /\ HasPlainOrder(Arg) /\ i \in Nat
      /\ a = KidAt(doc, Arg, i) /\ b = There(Arg) /\ Suits(doc, op, Arg)
  BY ItemLoopAt
<1>2. Carries(doc, EmitAll(Tail1(Arg)), a, b)
  BY <1>1, TailCarries
<1>3. Tail1(Arg) # <<>> => /\ a = At(CloseToken(Arg))
                           /\ b = At(CloseToken(Arg) + Len(Tail1(Arg)))
  BY <1>1, PlainEnd
<1>4. Len(Tail1(Arg)) = 1 => Tail1(Arg) # <<>>
  BY NonEmpty
<1>5. ASSUME op \in PlainLoops, Tail1(Arg) # <<>>
      PROVE  Carries(doc, <<Do("emitEndTokenTrivia", CloseToken(Arg)),
                             Do("closeScope", Arg)>>, a, b)
  <2>1. Suits(doc, "closeScope", Arg)
    BY <1>1, <1>5 DEF Suits, PlainLoops
  <2>2. Spans(doc, Do("closeScope", Arg), Mid(CloseToken(Arg)), b)
    BY <1>1, <2>1, NodeSpans DEF There, CloseToken, Tail1
  <2>3. Spans(doc, Do("emitEndTokenTrivia", CloseToken(Arg)), a, Mid(CloseToken(Arg)))
    BY <1>3, <1>5, TokenSpans
  <2> QED
    BY <2>2, <2>3, CarryTwo
<1> QED
  BY <1>2, <1>3, <1>4, <1>5

-----------------------------------------------------------------------------
(* Passing the copy on. *)

\* What a call passes on to, with a printer that is silent.
LEMMA PassesBy ==
  ASSUME IInv, work # <<>>, NEW p, Silent(pr, p), NEW calls, Continue(p, calls),
         \A a, b : Spans(doc, Head(work), a, b) => Carries(doc, calls, a, b)
  PROVE  PassesOn
BY DEF PassesOn, Copies

-----------------------------------------------------------------------------
(* Helpers that write no text. *)

\* What these lemmas ask of a printer.
Writing(p) ==
  /\ {"output", "triviaSkip", "skipExpandedToken"} \subseteq DOMAIN p
  /\ p.output \in Seq(Item)

\* Nothing is written but spaces and ends of lines.
Lays(p, q) == Writing(q) /\ Silent(p, q)

\* What holds of the printer in every state is enough to write.
LEMMA SafeWriting ==
  ASSUME NEW p, Safe(p)
  PROVE  Writing(p) /\ Lays(p, p)
BY Zenon DEF Safe, InOrder, Printer, Writing, Lays, Silent

LEMMA LaysTwice ==
  ASSUME NEW p, NEW q, NEW r, Lays(p, q), Lays(q, r)
  PROVE  Lays(p, r)
BY DEF Lays, Silent

\* An item that is no text.
LEMMA AppendItemLays ==
  ASSUME NEW p, Writing(p), NEW item \in Item, ~IsText(item)
  PROVE  Lays(p, AppendItem(p, item))
<1> DEFINE q == AppendItem(p, item)
<1>1. /\ q.output = Append(p.output, item) /\ q.triviaSkip = p.triviaSkip
      /\ q.skipExpandedToken = p.skipExpandedToken
      /\ DOMAIN q = DOMAIN p
  BY DEF AppendItem, Writing
<1> HIDE DEF q
<1>2. Append(p.output, item) \in Seq(Item)
  BY AppendProperties DEF Writing
<1>3. Origins(q.output) = Origins(p.output)
  BY <1>1, OriginsAppend DEF Writing
<1> QED
  BY <1>1, <1>2, <1>3 DEF Lays, Silent, Writing, q

\* A run of spaces, of its own or in addition to the last one.
LEMMA AppendSpacesLays ==
  ASSUME NEW p, Writing(p), NEW n \in Nat
  PROVE  Lays(p, AppendSpaces(p, n))
<1>1. CASE n = 0
  BY <1>1 DEF AppendSpaces, Lays, Silent
<1>2. CASE n # 0 /\ EndsIn(p, "spaces")
  <2> DEFINE last == Len(p.output)
             size == p.output[last].size + n
             out == [p.output EXCEPT ![last].size = size]
             q == AppendSpaces(p, n)
  <2>1. /\ last \in DOMAIN p.output /\ p.output[last].kind = "spaces"
        /\ p.output \in Seq(Item)
    BY <1>2, EmptySeq DEF EndsIn, Writing
  <2>2. q = [p EXCEPT !.output = out]
    BY <1>2, <2>1 DEF AppendSpaces, Writing
  <2>3. size \in Nat
    <3>1. p.output[last] \in Item
      BY <2>1
    <3> QED
      BY <3>1 DEF Item
  <2> HIDE DEF size, q
  <2>4. [p.output[last] EXCEPT !.size = size] \in Item
    <3>1. p.output[last] \in Item
      BY <2>1
    <3> QED
      BY <2>3, <3>1, Zenon DEF Item
  <2>5. /\ out \in Seq(Item) /\ Len(out) = Len(p.output)
        /\ \A k \in 1..Len(p.output) :
             out[k] = IF k = last THEN [p.output[last] EXCEPT !.size = size] ELSE p.output[k]
    BY <2>1, <2>4
  <2>6. /\ [p.output[last] EXCEPT !.size = size].kind = "spaces"
    <3>1. p.output[last] \in Item
      BY <2>1
    <3> QED
      BY <2>1, <3>1 DEF Item
  <2>7. Origins(out) = Origins(p.output)
    <3>1. ~IsText(p.output[last]) /\ ~IsText([p.output[last] EXCEPT !.size = size])
      BY <2>1, <2>6 DEF IsText
    <3>2. \A k \in 1..Len(p.output) :
            /\ IsText(out[k]) <=> IsText(p.output[k])
            /\ IsText(p.output[k]) => out[k].at = p.output[k].at
      BY <2>5, <3>1
    <3> HIDE DEF out
    <3> QED
      BY <2>1, <2>5, <3>2, OriginsSame
  <2> HIDE DEF out
  <2> QED
    BY <2>2, <2>5, <2>7 DEF Lays, Silent, Writing, q
<1>3. CASE n # 0 /\ ~EndsIn(p, "spaces")
  <2>1. Spaces(n) \in Item /\ ~IsText(Spaces(n))
    BY DEF Spaces, Item, IsText
  <2>2. Lays(p, AppendItem(p, Spaces(n)))
    BY <2>1, AppendItemLays
  <2> QED
    BY <1>3, <2>2 DEF AppendSpaces
<1> QED
  BY <1>1, <1>2, <1>3

\* The last item is given up if it is a run of spaces.
LEMMA PopLays ==
  ASSUME NEW p, Writing(p), EndsIn(p, "spaces")
  PROVE  Lays(p, [p EXCEPT !.output = Pop(@)])
<1> DEFINE q == [p EXCEPT !.output = Pop(@)]
<1>1. p.output # <<>> /\ ~IsText(p.output[Len(p.output)]) /\ p.output \in Seq(Item)
  BY DEF EndsIn, IsText, Writing
<1>2. Origins(Pop(p.output)) = Origins(p.output) /\ Pop(p.output) \in Seq(Item)
  BY <1>1, OriginsPop, PopProperties
<1>3. /\ q.output = Pop(p.output) /\ q.triviaSkip = p.triviaSkip
      /\ q.skipExpandedToken = p.skipExpandedToken
      /\ DOMAIN q = DOMAIN p
  BY DEF Writing
<1> QED
  BY <1>2, <1>3 DEF Lays, Silent, Writing

\* Spaces and newlines may be stripped and added.
LEMMA StripLays ==
  ASSUME NEW p, Writing(p)
  PROVE  /\ Lays(p, StripTrailingSpaces(p))
         /\ \A n \in Nat : Lays(p, AppendSpaces(StripTrailingSpaces(p), n))
<1>1. Lays(p, StripTrailingSpaces(p))
  BY PopLays DEF StripTrailingSpaces, Lays, Silent
<1>2. \A n \in Nat : Lays(StripTrailingSpaces(p), AppendSpaces(StripTrailingSpaces(p), n))
  BY <1>1, AppendSpacesLays DEF Lays
<1> QED
  BY <1>1, <1>2, LaysTwice

\* ensureSpace, ensureSingleSpace
LEMMA EnsureLays ==
  ASSUME NEW p, Writing(p)
  PROVE  Lays(p, EnsureSpace(p)) /\ Lays(p, EnsureSingleSpace(p))
<1>1. Lays(p, p) /\ Lays(p, AppendSpaces(p, 1))
  BY AppendSpacesLays DEF Lays, Silent
<1>2. Lays(p, AppendSpaces(StripTrailingSpaces(p), 1))
  BY StripLays
<1> QED
  BY <1>1, <1>2 DEF EnsureSpace, EnsureSingleSpace

\* Fields that say nothing of what is written.
LEMMA EndLineLays ==
  ASSUME NEW p, Writing(p)
  PROVE  Lays(p, EndLine(p))
<1> DEFINE q == AppendItem(p, Newline)
<1>1. Newline \in Item /\ ~IsText(Newline)
  BY DEF Newline, Item, IsText
<1>2. Lays(p, q)
  BY <1>1, AppendItemLays
<1> HIDE DEF q
<1>3. Lays(q, [FinalizeLine(q) EXCEPT !.lineStart = Len(FinalizeLine(q).output)])
  BY <1>2 DEF Lays, Silent, Writing, FinalizeLine
<1> QED
  BY <1>2, <1>3, LaysTwice DEF EndLine, q

LEMMA ForceNewlineLays ==
  ASSUME NEW p, Writing(p)
  PROVE  Lays(p, ForceNewline(p))
<1> DEFINE q == IF EndsIn(p, "spaces") THEN [p EXCEPT !.output = Pop(@)] ELSE p
<1>1. Lays(p, q)
  BY PopLays DEF Lays, Silent
<1> HIDE DEF q
<1>2. Lays(q, EndLine(q))
  BY <1>1, EndLineLays DEF Lays
<1>3. Lays(EndLine(q), [EndLine(q) EXCEPT !.atLineStart = TRUE])
  <2> DEFINE r == EndLine(q)
  <2>1. Writing(r)
    BY <1>2 DEF Lays
  <2> HIDE DEF r
  <2>2. Lays(r, [r EXCEPT !.atLineStart = TRUE])
    BY <2>1 DEF Lays, Silent, Writing
  <2> QED
    BY <2>2 DEF r
<1> QED
  BY <1>1, <1>2, <1>3, LaysTwice DEF ForceNewline, q

LEMMA BreakBeforeCloseLays ==
  ASSUME NEW p, Writing(p), NEW close
  PROVE  Lays(p, BreakBeforeClose(p, close))
<1> DEFINE q == [p EXCEPT !.pending = @ \ {close.kind}]
<1>1. Lays(p, q)
  BY DEF Lays, Silent, Writing
<1> HIDE DEF q
<1>2. Lays(p, ForceNewline(q))
  BY <1>1, ForceNewlineLays, LaysTwice DEF Lays
<1> QED
  BY <1>2 DEF BreakBeforeClose, Lays, Silent, q

\* emitDeferredSpaces
LEMMA DeferredLays ==
  ASSUME NEW p, Safe(p)
  PROVE  Lays(p, EmitDeferredSpaces(p))
<1>1. \A due \in SUBSET p.after : Cardinality(due) \in Nat
  <2>1. p.after \subseteq AfterTokenFlags
    BY Zenon DEF Safe, InOrder, Printer
  <2>2. IsFiniteSet(AfterTokenFlags)
    <3>1. /\ IsFiniteSet({})
          /\ \A S, x : IsFiniteSet(S) => IsFiniteSet(S \cup {x})
      BY FS_EmptySet, FS_AddElement
    <3>2. AfterTokenFlags = {} \cup {"comma"} \cup {"openBrace"} \cup {"openBracket"}
                               \cup {"openParen"} \cup {"operatorToken"} \cup {"semicolon"}
      BY DEF AfterTokenFlags
    <3> QED
      BY <3>1, <3>2, Zenon
  <2> QED
    BY <2>1, <2>2, FS_Subset, FS_CardinalityType
<1>2. Writing(p)
  BY SafeWriting
<1>3. \A n \in Nat : Lays(p, AppendSpaces(p, n))
  BY <1>2, AppendSpacesLays
<1> QED
  BY <1>1, <1>3 DEF EmitDeferredSpaces

\* emitSeparator
LEMMA SeparatorLays ==
  ASSUME NEW p, Writing(p), NEW kind
  PROVE  Lays(p, EmitSeparator(p, kind))
<1>1. \A n \in {0, 1} : Lays(p, AppendSpaces(p, n))
  BY AppendSpacesLays
<1>2. \A n \in {0, 1} : Lays(p, [AppendSpaces(p, n) EXCEPT !.suppressSeparator = FALSE])
  BY <1>1 DEF Lays, Silent, Writing
<1>3. Lays(p, p)
  BY DEF Lays, Silent
<1> QED
  BY <1>2, <1>3 DEF EmitSeparator

\* normalizeSpaceBefore
LEMMA SpaceBeforeLays ==
  ASSUME NEW p, Writing(p), NEW next, NEW want, NEW suppress
  PROVE  Lays(p, NormalizeSpaceBefore(p, next, want, suppress))
<1> DEFINE q == IF want THEN EnsureSpace(p) ELSE StripTrailingSpaces(p)
<1>1. Lays(p, q)
  BY EnsureLays, StripLays
<1> HIDE DEF q
<1>2. Lays(p, [q EXCEPT !.suppressSeparator = @ \/ suppress])
  BY <1>1 DEF Lays, Silent, Writing
<1>3. Lays(p, p)
  BY DEF Lays, Silent
<1> QED
  BY <1>2, <1>3 DEF NormalizeSpaceBefore, q

\* normalizeBeforeClose
LEMMA BeforeCloseLays ==
  ASSUME NEW p, Writing(p), NEW kind
  PROVE  Lays(p, NormalizeBeforeClose(p, kind))
<1>1. \A n \in {0, 1} : Lays(p, AppendSpaces(StripTrailingSpaces(p), n))
  BY StripLays
<1> QED
  BY <1>1 DEF NormalizeBeforeClose, Lays, Silent

\* emitIndent
LEMMA IndentLays ==
  ASSUME NEW p, Safe(p)
  PROVE  Lays(p, EmitIndent(p)) /\ Lays(p, AppendSpaces(p, IndentWidth(p)))
<1> DEFINE q == AppendSpaces(p, IndentWidth(p))
<1>1. Lays(p, q)
  BY SafeWriting, IndentWidthType, AppendSpacesLays
<1> HIDE DEF q
<1>2. Lays(p, [q EXCEPT !.portItemNextIndent = FALSE])
  BY <1>1 DEF Lays, Silent, Writing
<1> QED
  BY <1>1, <1>2 DEF EmitIndent, q

\* padBeforeTrailingComment
LEMMA PaddingLays ==
  ASSUME NEW p, Safe(p)
  PROVE  Lays(p, PadBeforeTrailingComment(p))
<1> DEFINE want == p.style.SpacesBeforeTrailingComments
           have == IF EndsIn(p, "spaces") THEN p.output[Len(p.output)].size ELSE 0
<1>1. p \in Printer /\ p.output \in Seq(Item) /\ Writing(p) /\ Lays(p, p)
  BY SafeWriting, Zenon DEF Safe, InOrder, Printer
<1>2. want \in Nat
  BY <1>1, StyleTypes
<1>3. have \in Nat
  <2>1. CASE EndsIn(p, "spaces")
    <3>1. Len(p.output) \in DOMAIN p.output
      BY <1>1, <2>1, EmptySeq DEF EndsIn
    <3>2. p.output[Len(p.output)] \in Item
      BY <1>1, <3>1
    <3> QED
      BY <2>1, <3>2, Zenon DEF Item
  <2> QED
    BY <2>1
<1>4. have < want => want - have \in Nat
  BY <1>2, <1>3
<1> QED
  BY <1>1, <1>4, AppendSpacesLays DEF PadBeforeTrailingComment

-----------------------------------------------------------------------------
(* Trivia and tokens. *)

\* The text at a place of the document is written, and nothing else.
Copying(p, q, at) ==
  /\ Writing(q)
  /\ Origins(q.output) = Append(Origins(p.output), at)
  /\ q.triviaSkip = p.triviaSkip
  /\ q.skipExpandedToken = p.skipExpandedToken

\* A text that is written is copied.
LEMMA AppendItemCopies ==
  ASSUME NEW p, Writing(p), NEW item \in Item, IsText(item)
  PROVE  Copying(p, AppendItem(p, item), item.at)
<1> DEFINE q == AppendItem(p, item)
<1>1. /\ q.output = Append(p.output, item) /\ q.triviaSkip = p.triviaSkip
      /\ q.skipExpandedToken = p.skipExpandedToken
      /\ DOMAIN q = DOMAIN p
  BY DEF AppendItem, Writing
<1> HIDE DEF q
<1>2. Append(p.output, item) \in Seq(Item)
  BY AppendProperties DEF Writing
<1>3. Origins(q.output) = Append(Origins(p.output), item.at)
  BY <1>1, OriginsAppend DEF Writing
<1> QED
  BY <1>1, <1>2, <1>3 DEF Copying, Writing, q

\* emitTrivia of an end of line
LEMMA EndOfLineLays ==
  ASSUME NEW p, Writing(p)
  PROVE  Lays(p, EmitEndOfLine(p))
<1> DEFINE q == [p EXCEPT !.beforeOperator = FALSE, !.after = {}, !.pending = {},
                          !.suppressSeparator = FALSE]
           r == CountBlankLine(q)
           s == [r EXCEPT !.currentKind = "Empty"]
           t == StripTrailingSpaces(q)
           u == [t EXCEPT !.emptyLineCount = 0, !.atLineStart = TRUE]
<1>1. Lays(p, q)
  BY DEF Lays, Silent, Writing
<1>2. EmitEndOfLine(p) \in {r, EndLine(s), EndLine(u)}
  <2> HIDE DEF q
  <2>1. EmitEndOfLine(p) = IF p.atLineStart THEN IF ShouldSuppressBlankLine(q) THEN r
                             ELSE EndLine(s) ELSE EndLine(u)
    BY DEF EmitEndOfLine, q
  <2> HIDE DEF r, s, u
  <2> QED
    BY <2>1
<1> HIDE DEF q
<1>3. Lays(q, r)
  BY <1>1 DEF Lays, Silent, Writing, CountBlankLine
<1>4. Lays(q, t)
  BY <1>1, StripLays DEF Lays
<1> HIDE DEF r, t
<1>5. Lays(q, s) /\ Lays(q, u)
  BY <1>3, <1>4 DEF Lays, Silent, Writing
<1> HIDE DEF s, u
<1>6. Lays(q, EndLine(s)) /\ Lays(q, EndLine(u))
  BY <1>5, EndLineLays, LaysTwice DEF Lays
<1> QED
  BY <1>1, <1>2, <1>3, <1>6, LaysTwice

\* emitTrivia of a comment
LEMMA CommentCopies ==
  ASSUME NEW p, Safe(p), NEW t \in Trivia, NEW at \in Nat \X Nat
  PROVE  Copying(p, EmitComment(p, t, at), at)
<1> DEFINE d == EmitDeferredSpaces(p)
           q == [d EXCEPT !.beforeOperator = FALSE, !.after = {}]
           s == [q EXCEPT !.currentKind = "Comment"]
           r == IF p.atLineStart
                THEN IF p.formatEnabled THEN AppendSpaces(s, IndentWidth(s)) ELSE s
                ELSE PadBeforeTrailingComment(q)
           item == [kind |-> "comment", size |-> t.lines, at |-> at]
           a == AppendItem(r, item)
<1>1. Lays(p, d) /\ Safe(d)
  BY DeferredLays, EmitDeferredSpacesSafe
<1> HIDE DEF d
<1>2. Lays(d, q) /\ Safe(q)
  <2>1. d \in Printer
    BY <1>1 DEF Safe, InOrder
  <2>2. q \in Printer
    BY <2>1, Zenon DEF Printer
  <2>3. SameLine(d, q) /\ q.output = d.output /\ q.atLineStart = d.atLineStart
    BY <2>1 DEF SameLine, Printer
  <2>4. Safe(q)
    BY <1>1, <2>2, <2>3, SetsFlags
  <2> QED
    BY <1>1, <2>4 DEF Lays, Silent, Writing
<1> HIDE DEF q
<1>3. Lays(q, s) /\ Safe(s)
  <2>1. Safe(s)
    BY <1>2, CurrentKindSafe DEF LineKinds
  <2> QED
    BY <1>2, <2>1 DEF Lays, Silent, Writing
<1> HIDE DEF s
<1>4. Lays(q, r)
  <2>1. Lays(q, AppendSpaces(s, IndentWidth(s)))
    BY <1>3, IndentLays, LaysTwice
  <2>2. Lays(q, PadBeforeTrailingComment(q))
    BY <1>2, PaddingLays
  <2> QED
    BY <1>3, <2>1, <2>2
<1> HIDE DEF r
<1>5. Lays(p, r)
  BY <1>1, <1>2, <1>4, LaysTwice
<1>6. item \in Item /\ IsText(item) /\ item.at = at
  <2>1. t.lines \in Nat
    BY Zenon DEF Trivia
  <2> QED
    BY <2>1 DEF Item, IsText
<1> HIDE DEF item
<1>7. Copying(r, a, at)
  BY <1>5, <1>6, AppendItemCopies DEF Lays
<1> HIDE DEF a
<1>8. EmitComment(p, t, at)
        = [a EXCEPT !.lineDepth = p.depth, !.atLineStart = FALSE,
                    !.formatEnabled = IF @ THEN t.pragma # "off" ELSE t.pragma = "on"]
  <2>1. q = [EmitDeferredSpaces(p) EXCEPT !.beforeOperator = FALSE, !.after = {}]
    BY DEF q, d
  <2>2. s = [q EXCEPT !.currentKind = "Comment"]
    BY DEF s
  <2>3. r = IF p.atLineStart
            THEN IF p.formatEnabled THEN AppendSpaces(s, IndentWidth(s)) ELSE s
            ELSE PadBeforeTrailingComment(q)
    BY DEF r
  <2> QED
    BY <2>1, <2>2, <2>3, Zenon DEF EmitComment, a, item
<1> QED
  BY <1>5, <1>7, <1>8 DEF Copying, Lays, Silent, Writing

\* The name or another token of a directive
LEMMA RawTextCopies ==
  ASSUME NEW p, Writing(p), NEW t \in Trivia, NEW kind \in {"word", "directive"},
         NEW at \in Nat \X Nat
  PROVE  Copying(p, EmitRawText(p, t, kind, at), at)
<1> DEFINE item == [kind |-> kind, size |-> t.lines, at |-> at]
           q == AppendItem(p, item)
<1>1. item \in Item /\ IsText(item) /\ item.at = at
  <2>1. t.lines \in Nat
    BY Zenon DEF Trivia
  <2> QED
    BY <2>1 DEF Item, IsText
<1> HIDE DEF item
<1>2. Copying(p, q, at)
  BY <1>1, AppendItemCopies
<1> HIDE DEF q
<1>3. Copying(p, [q EXCEPT !.outputLineNumber = @ + t.lines, !.lineDepth = p.depth,
                           !.atLineStart = FALSE], at)
  BY <1>2 DEF Copying, Writing
<1> QED
  BY <1>3 DEF EmitRawText, q, item

LEMMA NameCopies ==
  ASSUME NEW p, Writing(p), NEW t \in Trivia, NEW at \in Nat \X Nat
  PROVE  Copying(p, NameDirective(p, t, at), at)
<1> DEFINE q == IF p.atLineStart THEN [p EXCEPT !.currentKind = "Comment"] ELSE p
<1>1. Lays(p, q)
  BY DEF Lays, Silent, Writing
<1> HIDE DEF q
<1>2. Copying(q, EmitRawText(q, t, "directive", at), at)
  BY <1>1, RawTextCopies DEF Lays
<1> QED
  BY <1>1, <1>2 DEF NameDirective, Copying, Lays, Silent, q

LEMMA DirectiveTokenCopies ==
  ASSUME NEW p, Safe(p), NEW t \in Trivia, NEW at \in Nat \X Nat
  PROVE  Copying(p, EmitDirectiveToken(p, t, at), at)
<1> DEFINE q == IF t.kind = "DirectiveClose" /\ p.depth > 0 THEN Dedent(p) ELSE p
           r == IF q.formatEnabled /\ q.atLineStart /\ q.depth > 0
                THEN EmitIndent(q) ELSE q
           s == EmitRawText(r, t, "word", at)
<1>1. Safe(q) /\ Lays(p, q)
  <2>1. Writing(p) /\ Safe(q)
    BY SafeWriting, DepthSafe
  <2> QED
    BY <2>1 DEF Lays, Silent, Writing, Dedent
<1> HIDE DEF q
<1>2. Lays(p, r)
  <2>1. Lays(p, EmitIndent(q))
    BY <1>1, IndentLays, LaysTwice
  <2> QED
    BY <1>1, <2>1
<1> HIDE DEF r
<1>3. Copying(r, s, at)
  BY <1>2, RawTextCopies DEF Lays
<1> HIDE DEF s
<1>4. Copying(p, s, at) /\ Copying(p, Indent(s), at)
  BY <1>2, <1>3 DEF Copying, Lays, Silent, Writing, Indent
<1> QED
  BY <1>4 DEF EmitDirectiveToken, q, r, s

\* The beginning of a directive: a macro takes the place of the token it expands to.
LEMMA DirectiveStarts ==
  ASSUME NEW p, Safe(p), NEW t
  PROVE  LET q == StartDirective(p, t)
         IN  /\ Writing(q) /\ Origins(q.output) = Origins(p.output)
             /\ q.triviaSkip = p.triviaSkip
             /\ q.skipExpandedToken <=> p.skipExpandedToken \/ t.kind = "MacroUsage"
<1> DEFINE d == EmitDeferredSpaces(p)
<1>1. Lays(p, d)
  BY DeferredLays
<1> HIDE DEF d
<1>2. LET q == [d EXCEPT !.beforeOperator = FALSE, !.after = {},
                         !.skipExpandedToken = @ \/ t.kind = "MacroUsage"]
      IN  /\ Writing(q) /\ q.output = d.output
          /\ q.triviaSkip = d.triviaSkip
          /\ q.skipExpandedToken = (d.skipExpandedToken \/ t.kind = "MacroUsage")
  BY <1>1 DEF Lays, Writing
<1> QED
  BY <1>1, <1>2 DEF StartDirective, Lays, Silent, d

\* emitTrivia copies the text of the trivia, if it has one.
LEMMA TriviaCopied ==
  ASSUME NEW p, Safe(p), NEW t \in Trivia, NEW at \in Nat \X Nat,
         ~(IsComment(t) /\ IsInDirective(t)), StartsDirective(t) => t.place = "token"
  PROVE  LET q == EmitTrivia(p, t, at)
         IN  /\ Origins(q.output) = IF HasText(t) THEN Append(Origins(p.output), at)
                                    ELSE Origins(p.output)
             /\ q.triviaSkip = p.triviaSkip
             /\ q.skipExpandedToken <=> p.skipExpandedToken \/ t.kind = "MacroUsage"
<1> DEFINE q == EmitTrivia(p, t, at)
<1>1. t.width \in Nat /\ t.kind \in TriviaKinds
  BY Zenon DEF Trivia
<1>2. Writing(p) /\ Lays(p, p)
  BY SafeWriting
<1>3. /\ Lays(p, AppendSpaces(p, t.width)) /\ Lays(p, EmitEndOfLine(p))
      /\ Lays(p, EndDirective(p))
  <2>1. Lays(p, EndDirective(p))
    BY <1>2 DEF Lays, Silent, Writing, EndDirective
  <2> QED
    BY <1>1, <1>2, <2>1, AppendSpacesLays, EndOfLineLays
<1>4. CASE IsInDirective(t)
  <2>1. ~StartsDirective(t)
    BY <1>4 DEF IsInDirective, StartsDirective
  <2>2. q = EmitTriviaInDirective(p, t, at)
    BY <1>4, Zenon DEF EmitTrivia
  <2>3. CASE t.kind \in DirectiveTexts
    <3>1. q = EmitDirectiveToken(p, t, at)
      BY <2>2, <2>3 DEF EmitTriviaInDirective, DirectiveTexts
    <3>2. HasText(t) /\ t.kind # "MacroUsage"
      BY <2>3 DEF HasText, DirectiveTexts
    <3> QED
      BY <3>1, <3>2, DirectiveTokenCopies DEF Copying
  <2>4. CASE t.kind \notin DirectiveTexts
    <3>1. Lays(p, q)
      BY <1>2, <1>3, <2>2, <2>4 DEF EmitTriviaInDirective, EmitDirectiveWhitespace
    <3>2. ~HasText(t) /\ t.kind # "MacroUsage"
      BY <1>4, <2>1, <2>4 DEF HasText, StartsDirective
    <3> QED
      BY <3>1, <3>2 DEF Lays, Silent
  <2> QED
    BY <2>3, <2>4
<1>5. CASE ~IsInDirective(t)
  <2>1. CASE t.kind \in {"EndOfLine", "Whitespace", "DirectiveEnd"}
    <3>1. Lays(p, q)
      BY <1>2, <1>3, <1>5, <2>1 DEF EmitTrivia, EmitWhitespace, StartsDirective
    <3>2. ~HasText(t) /\ t.kind # "MacroUsage"
      BY <2>1 DEF HasText, IsComment, DirectiveTexts
    <3> QED
      BY <3>1, <3>2 DEF Lays, Silent
  <2>2. CASE StartsDirective(t)
    <3>1. q = StartDirective(p, t)
      BY <1>5, <2>2 DEF EmitTrivia, StartsDirective
    <3>2. ~HasText(t)
      BY <2>2 DEF HasText, IsComment, DirectiveTexts, StartsDirective
    <3> QED
      BY <3>1, <3>2, DirectiveStarts
  <2>3. CASE t.kind = "DirectiveName"
    <3>1. q = NameDirective(p, t, at)
      BY <1>5, <2>3 DEF EmitTrivia, StartsDirective
    <3>2. HasText(t) /\ t.kind # "MacroUsage"
      BY <2>3 DEF HasText, DirectiveTexts
    <3> QED
      BY <1>2, <3>1, <3>2, NameCopies DEF Copying
  <2>4. CASE IsComment(t)
    <3>1. q = EmitComment(p, t, at)
      BY <1>5, <2>4 DEF EmitTrivia, StartsDirective, IsComment
    <3>2. HasText(t) /\ t.kind # "MacroUsage"
      BY <2>4 DEF HasText, IsComment
    <3> QED
      BY <3>1, <3>2, CommentCopies DEF Copying
  <2> QED
    BY <1>1, <1>5, <2>1, <2>2, <2>3, <2>4
       DEF TriviaKinds, DirectiveTexts, IsInDirective, StartsDirective, IsComment
<1> QED
  BY <1>4, <1>5

\* emitToken after its trivia copies the token, unless a macro stands for it.
LEMMA TokenCopied ==
  ASSUME NEW p, Safe(p), NEW kind \in TokenKinds, NEW at \in Nat \X Nat
  PROVE  LET q == FinishToken(p, kind, at)
         IN  /\ Origins(q.output) = IF kind = "EndOfFile" \/ p.skipExpandedToken
                                    THEN Origins(p.output)
                                    ELSE Append(Origins(p.output), at)
             /\ q.triviaSkip = p.triviaSkip
             /\ q.skipExpandedToken = FALSE
<1> DEFINE spaced == IF p.atLineStart THEN p ELSE EmitDeferredSpaces(p)
           apart == EmitSeparator(spaced, kind)
           begun == StartLine(apart, kind)
           placed == NormalizeBefore(begun, kind)
           printed == AppendToken(placed, kind, at)
<1>1. Lays(p, spaced) /\ Safe(spaced)
  BY SafeWriting, DeferredLays, EmitDeferredSpacesSafe
<1> HIDE DEF spaced
<1>2. Lays(spaced, apart) /\ Safe(apart)
  BY <1>1, SafeWriting, SeparatorLays, EmitSeparatorSafe
<1> HIDE DEF apart
<1>3. Lays(apart, begun)
  <2> DEFINE q == IF apart.nextLineKind = "none" THEN apart
                  ELSE [apart EXCEPT !.currentKind = apart.nextLineKind,
                                     !.nextLineKind = "none"]
  <2>1. Lays(apart, q) /\ Safe(q)
    <3>1. Writing(apart)
      BY <1>2, SafeWriting
    <3>2. Lays(apart, q)
      BY <3>1 DEF Lays, Silent, Writing
    <3>3. CASE apart.nextLineKind = "none"
      BY <1>2, <3>2, <3>3
    <3>4. CASE apart.nextLineKind # "none"
      <4>1. apart \in Printer /\ apart.nextLineKind \in LineKinds
        BY <1>2, <3>4, Zenon DEF Safe, InOrder, Printer
      <4>2. q = [apart EXCEPT !.currentKind = apart.nextLineKind, !.nextLineKind = "none"]
        BY <3>4
      <4> HIDE DEF q
      <4>3. q \in Printer
        BY <4>1, <4>2, Zenon DEF Printer
      <4>4. SameLine(apart, q) /\ q.output = apart.output /\ q.atLineStart = apart.atLineStart
        BY <4>1, <4>2 DEF SameLine, Printer
      <4> QED
        BY <1>2, <3>2, <4>3, <4>4, SetsFlags
    <3> QED
      BY <3>3, <3>4
  <2>2. begun = IF ~apart.atLineStart THEN apart
                ELSE IF apart.formatEnabled /\ kind # "EndOfFile"
                     THEN [EmitIndent(q) EXCEPT !.atLineStart = FALSE]
                     ELSE [q EXCEPT !.atLineStart = FALSE]
    <3>1. begun = StartLine(apart, kind)
      OBVIOUS
    <3> HIDE DEF begun
    <3> QED
      BY <3>1, Zenon DEF StartLine
  <2> HIDE DEF q, begun
  <2>3. Lays(apart, EmitIndent(q))
    BY <2>1, IndentLays, LaysTwice
  <2>4. \A r : Lays(apart, r) => Lays(apart, [r EXCEPT !.atLineStart = FALSE])
    BY DEF Lays, Silent, Writing
  <2> QED
    BY <1>2, <2>1, <2>2, <2>3, <2>4, SafeWriting
<1> HIDE DEF begun
<1>4. Lays(begun, placed)
  <2> DEFINE q == IF NeedsStripBefore(kind) THEN StripTrailingSpaces(begun) ELSE begun
             r == [q EXCEPT !.bracketDepth =
                     IF kind = "CloseBracket" /\ @ > 0 THEN @ - 1 ELSE @]
             s == NormalizeBeforeClose(r, kind)
             u == AppendSpaces(StripTrailingSpaces(s),
                               IF ShouldSpaceAroundOperator(s) THEN 1 ELSE 0)
  <2>1. Writing(begun) /\ Lays(begun, begun)
    BY <1>3 DEF Lays, Silent
  <2>2. Lays(begun, q)
    BY <2>1, StripLays
  <2>3. placed \in {begun, s, u}
    <3>1. placed = IF ~begun.formatEnabled THEN begun
                   ELSE IF ~begun.beforeOperator THEN s ELSE u
      BY Zenon DEF NormalizeBefore
    <3> HIDE DEF placed, s, u
    <3> QED
      BY <3>1
  <2> HIDE DEF q, placed
  <2>4. Lays(begun, r)
    BY <2>2 DEF Lays, Silent, Writing
  <2> HIDE DEF r
  <2>5. Lays(begun, s)
    BY <2>4, BeforeCloseLays, LaysTwice DEF Lays
  <2> HIDE DEF s
  <2>6. Lays(s, u)
    <3>1. \A n \in {0, 1} : Lays(s, AppendSpaces(StripTrailingSpaces(s), n))
      BY <2>5, StripLays DEF Lays
    <3> QED
      BY <3>1
  <2> HIDE DEF u
  <2> QED
    BY <2>1, <2>3, <2>5, <2>6, LaysTwice
<1> HIDE DEF placed
<1>5. Lays(p, placed)
  BY <1>1, <1>2, <1>3, <1>4, LaysTwice
<1>6. /\ Writing(printed) /\ printed.triviaSkip = p.triviaSkip
      /\ Origins(printed.output) = IF kind = "EndOfFile" \/ p.skipExpandedToken
                                   THEN Origins(p.output)
                                   ELSE Append(Origins(p.output), at)
  <2> DEFINE item == [kind |-> IF kind \in WordKinds THEN "word" ELSE "symbol",
                      size |-> 0, at |-> at]
  <2>1. item \in Item /\ IsText(item) /\ item.at = at
    BY DEF Item, IsText
  <2>2. printed = IF kind = "EndOfFile" \/ placed.skipExpandedToken THEN placed
                  ELSE AppendItem(placed, item)
    BY DEF AppendToken
  <2> HIDE DEF item, printed
  <2>3. Copying(placed, AppendItem(placed, item), at)
    BY <1>5, <2>1, AppendItemCopies DEF Lays
  <2> QED
    BY <1>5, <2>2, <2>3 DEF Lays, Silent, Copying
<1> HIDE DEF printed
<1> DEFINE last == [printed EXCEPT !.lineDepth = p.depth, !.nextIsPrimary = FALSE,
                            !.emptyLineCount = 0, !.skipExpandedToken = FALSE,
                            !.lastTokenKind = kind]
<1>7. FinishToken(p, kind, at) = UpdateAfterTokenFlags(last, kind)
  BY Zenon DEF FinishToken, spaced, apart, begun, placed, printed
<1>8. Writing(last) /\ last.triviaSkip = printed.triviaSkip
      /\ last.output = printed.output /\ last.skipExpandedToken = FALSE
  BY <1>6 DEF Writing
<1> HIDE DEF last
<1>9. Lays(last, UpdateAfterTokenFlags(last, kind))
  BY <1>8 DEF Lays, Silent, Writing, UpdateAfterTokenFlags
<1> QED
  BY <1>6, <1>7, <1>8, <1>9 DEF Lays, Silent

\* Layout that is followed by a primary line.
LEMMA LaysSilent ==
  ASSUME NEW p, NEW q, Lays(p, q)
  PROVE  /\ Silent(p, q) /\ Silent(p, Primary(q)) /\ Writing(q) /\ Writing(Primary(q))
BY DEF Lays, Silent, Primary, Writing

\* The trivia of a token are left out, and hold nothing to be copied.
PassesOver ==
  \E p, calls : \E x \in DOMAIN doc.toks :
    /\ Origins(p.output) = Origins(pr.output)
    /\ p.skipExpandedToken = pr.skipExpandedToken
    /\ p.triviaSkip = Len(Tok(x).trivia)
    /\ \A a, b : Spans(doc, Head(work), a, b) =>
         a = At(x) /\ HoldsNothing(doc, x) /\ Carries(doc, calls, a, b)
    /\ Continue(p, calls)

-----------------------------------------------------------------------------
(* Their items. *)

\* An item, when the calls are those for it.
LEMMA ItemPasses ==
  ASSUME IInv, work # <<>>, Head(work).op \in ItemLoops,
         Head(work).i \in DOMAIN Kids(Arg),
         NEW p, Silent(pr, p),
         Continue(p, <<Do("visit", Kids(Arg)[Head(work).i]),
                       DoNth(Head(work).op, Arg, Head(work).i + 1)>>)
  PROVE  PassesOn
<1>1. \A a, b : Spans(doc, Head(work), a, b) =>
        Carries(doc, <<Do("visit", Kids(Arg)[Head(work).i]),
                       DoNth(Head(work).op, Arg, Head(work).i + 1)>>, a, b)
  BY ItemCarries
<1> QED
  BY <1>1, PassesBy

\* The end of a scope.
LEMMA ScopeEndPasses ==
  ASSUME IInv, work # <<>>, Head(work).op \in PlainLoops,
         Head(work).i \notin DOMAIN Kids(Arg), Tail1(Arg) # <<>>,
         NEW p, Silent(pr, p),
         Continue(p, <<Do("emitEndTokenTrivia", CloseToken(Arg)), Do("closeScope", Arg)>>)
  PROVE  PassesOn
<1>1. \A a, b : Spans(doc, Head(work), a, b) =>
        Carries(doc, <<Do("emitEndTokenTrivia", CloseToken(Arg)), Do("closeScope", Arg)>>,
                a, b)
  BY ItemsEnd DEF ItemLoops
<1> QED
  BY <1>1, PassesBy

LEMMA BlockItemPasses ==
  ASSUME IInv, NextBlockItem
  PROVE  PassesOn
<1> DEFINE i == Head(work).i
           tok == First(Kids(Arg)[i])
           p == IF i > 1 THEN BreakStatement(tok)
                ELSE IF pr.style.BreakAfterBegin /\ ~HasLeadingNewline(Tok(tok))
                THEN ForceNewline(pr) ELSE pr
<1>1. work # <<>> /\ Head(work).op = "blockItem" /\ Head(work).op \in PlainLoops
  BY DEF NextBlockItem, Calling, PlainLoops
<1>2. Lays(pr, pr) /\ Lays(pr, ForceNewline(pr))
  BY SafeWriting, ForceNewlineLays DEF IInv
<1>3. Tail1(Arg) # <<>>
  BY <1>1, CallTypes DEF ClosingOps
<1>4. CASE i \in DOMAIN Kids(Arg)
  <2>1. Continue(Primary(p), <<Do("visit", Kids(Arg)[i]), DoNth("blockItem", Arg, i + 1)>>)
    BY <1>4 DEF NextBlockItem
  <2>2. Silent(pr, Primary(p))
    BY <1>2, LaysSilent DEF BreakStatement
  <2> HIDE DEF p
  <2> QED
    BY <1>1, <1>4, <2>1, <2>2, ItemPasses DEF ItemLoops
<1>5. CASE i \notin DOMAIN Kids(Arg)
  BY <1>1, <1>2, <1>3, <1>5, LaysSilent, ScopeEndPasses DEF NextBlockItem
<1> QED
  BY <1>4, <1>5

LEMMA MemberPasses ==
  ASSUME IInv, NextMember
  PROVE  PassesOn
<1> DEFINE i == Head(work).i
<1>1. work # <<>> /\ Head(work).op = "member" /\ Head(work).op \in PlainLoops
  BY DEF NextMember, Calling, PlainLoops
<1>2. Silent(pr, Primary(pr))
  BY PrimarySilent DEF IInv
<1>3. Kind(Arg) = "CompilationUnit" \/ Tail1(Arg) # <<>>
  BY <1>1, CallTypes
<1>4. CASE i \in DOMAIN Kids(Arg)
  BY <1>1, <1>2, <1>4, ItemPasses DEF NextMember, ItemLoops
<1>5. CASE i \notin DOMAIN Kids(Arg) /\ Kind(Arg) = "CompilationUnit"
  <2>1. Continue(Primary(pr), EmitAll(Tail1(Arg)))
    BY <1>5 DEF NextMember
  <2>2. \A a, b : Spans(doc, Head(work), a, b) => Carries(doc, EmitAll(Tail1(Arg)), a, b)
    BY <1>1, <1>5, ItemsEnd DEF ItemLoops
  <2> QED
    BY <1>1, <1>2, <2>1, <2>2, PassesBy
<1>6. CASE i \notin DOMAIN Kids(Arg) /\ Kind(Arg) # "CompilationUnit"
  BY <1>1, <1>2, <1>3, <1>6, ScopeEndPasses DEF NextMember
<1> QED
  BY <1>4, <1>5, <1>6

LEMMA RsItemPasses ==
  ASSUME IInv, NextRsItem
  PROVE  PassesOn
<1> DEFINE i == Head(work).i
<1>1. work # <<>> /\ Head(work).op = "rsItem" /\ Head(work).op \in PlainLoops
  BY DEF NextRsItem, Calling, PlainLoops
<1>2. \A tok : Silent(pr, Primary(BreakItem(tok)))
  BY SafeWriting, ForceNewlineLays, LaysSilent DEF IInv, BreakItem
<1>3. Tail1(Arg) # <<>>
  BY <1>1, CallTypes DEF ClosingOps
<1>4. CASE i \in DOMAIN Kids(Arg)
  BY <1>1, <1>2, <1>4, ItemPasses DEF NextRsItem, ItemLoops
<1>5. CASE i \notin DOMAIN Kids(Arg)
  BY <1>1, <1>2, <1>3, <1>5, ScopeEndPasses DEF NextRsItem
<1> QED
  BY <1>4, <1>5

LEMMA ConstraintItemPasses ==
  ASSUME IInv, NextConstraintItem
  PROVE  PassesOn
<1> DEFINE i == Head(work).i
           close == CloseToken(Arg)
           first == <<Do("emitEndTokenTrivia", close), Do("dedent", 0)>>
           rest == <<Do("breakBeforeClose", close), Do("primary", 0), Do("emitToken", close)>>
<1>1. /\ work # <<>> /\ Head(work).op = "constraintItem" /\ Head(work).op \in ItemLoops
  BY DEF NextConstraintItem, Calling, ItemLoops
<1>2. Lays(pr, pr) /\ Lays(pr, ForceNewline(pr))
  BY SafeWriting, ForceNewlineLays DEF IInv
<1>3. CASE i \in DOMAIN Kids(Arg)
  <2> DEFINE item == Kids(Arg)[i]
             break == /\ pr.formatEnabled /\ ~pr.atLineStart
                      /\ ~HasLeadingNewline(Tok(First(item)))
             p == IF break THEN ForceNewline(pr) ELSE pr
  <2>1. Continue(Primary(p), <<Do("visit", item), DoNth("constraintItem", Arg, i + 1)>>)
    BY <1>3 DEF NextConstraintItem
  <2>2. Silent(pr, Primary(p))
    BY <1>2, LaysSilent
  <2> HIDE DEF p
  <2> QED
    BY <1>1, <1>3, <2>1, <2>2, ItemPasses
<1>4. CASE i \notin DOMAIN Kids(Arg)
  <2>1. Continue(Primary(pr), <<Do("emitEndTokenTrivia", close), Do("dedent", 0),
                                Do("breakBeforeClose", close), Do("primary", 0),
                                Do("emitToken", close)>>)
    BY <1>4 DEF NextConstraintItem
  <2>2. ASSUME NEW a, NEW b, Spans(doc, Head(work), a, b)
        PROVE  Carries(doc, <<Do("emitEndTokenTrivia", close), Do("dedent", 0),
                              Do("breakBeforeClose", close), Do("primary", 0),
                              Do("emitToken", close)>>, a, b)
    <3>1. Arg \in DOMAIN doc.nodes /\ doc \in Documents /\ Suits(doc, "constraintItem", Arg)
      BY <1>1, <2>2, ItemLoopAt
    <3>2. Len(Tail1(Arg)) = 1
      BY <3>1, NodeTypes DEF Suits, IsWellShaped, Kind, Kids, Tail1
    <3>3. a = At(close) /\ b = At(close + 1)
      BY <1>1, <1>4, <2>2, <3>2, ItemsEnd
    <3>4. /\ Spans(doc, Do("emitEndTokenTrivia", close), At(close), Mid(close))
          /\ Spans(doc, Do("emitToken", close), Mid(close), At(close + 1))
      BY TokenSpans
    <3>5. /\ Spans(doc, Do("dedent", 0), Mid(close), Mid(close))
          /\ Spans(doc, Do("breakBeforeClose", close), Mid(close), Mid(close))
          /\ Spans(doc, Do("primary", 0), Mid(close), Mid(close))
      BY Idle
    <3> HIDE DEF close
    <3>6. Carries(doc, <<Do("emitEndTokenTrivia", close), Do("dedent", 0),
                         Do("breakBeforeClose", close), Do("primary", 0),
                         Do("emitToken", close)>>, At(close), At(close + 1))
      BY <3>4, <3>5, CarryFive, Zenon
    <3> QED
      BY <3>3, <3>6
  <2>3. Silent(pr, Primary(pr))
    BY <1>2, LaysSilent
  <2> QED
    BY <1>1, <2>1, <2>2, <2>3, PassesBy
<1> QED
  BY <1>3, <1>4

LEMMA CloseScopePasses ==
  ASSUME IInv, CloseScope
  PROVE  PassesOn
<1> DEFINE p == Dedent(pr)
           break == /\ IsBlock(Arg)
                    /\ pr.style.BreakBeforeEnd
                    /\ ~HasLeadingNewline(Tok(CloseToken(Arg)))
           q == Primary(IF break THEN ForceNewline(p) ELSE p)
<1>1. /\ work # <<>> /\ Head(work).op = "closeScope"
      /\ Continue(q, EmitNamed(Tail1(Arg)))
  BY DEF CloseScope, Calling
<1>2. doc \in Documents /\ Arg \in DOMAIN doc.nodes /\ Tail1(Arg) # <<>>
  BY <1>1, CallTypes DEF NodeOps, ClosingOps
<1>3. Lays(pr, p)
  BY SafeWriting DEF IInv, Lays, Silent, Writing, Dedent
<1>4. Lays(p, ForceNewline(p))
  BY <1>3, ForceNewlineLays DEF Lays
<1> HIDE DEF p
<1>5. Silent(pr, q)
  BY <1>3, <1>4, LaysTwice, LaysSilent
<1>6. ASSUME NEW a, NEW b, Spans(doc, Head(work), a, b)
      PROVE  Carries(doc, EmitNamed(Tail1(Arg)), a, b)
  <2>1. /\ a \in {At(CloseToken(Arg)), Mid(CloseToken(Arg))} /\ b = There(Arg)
        /\ Suits(doc, "closeScope", Arg)
    BY <1>1, <1>6, SpansRules DEF There, Arg, CloseToken, Tail1
  <2>2. HasPlainOrder(Arg)
    BY <2>1 DEF Suits, HasPlainOrder, Kind
  <2>3. Len(Kids(Arg)) + 1 \in Nat /\ Len(Kids(Arg)) + 1 \notin DOMAIN Kids(Arg)
    BY <1>2, NodeTypes
  <2>4. /\ Carries(doc, EmitNamed(Tail1(Arg)), At(CloseToken(Arg)), There(Arg))
        /\ Carries(doc, EmitNamed(Tail1(Arg)), Mid(CloseToken(Arg)), There(Arg))
    BY <1>2, <2>2, <2>3, TailCarries
  <2> QED
    BY <2>1, <2>4
<1> HIDE DEF q
<1> QED
  BY <1>1, <1>5, <1>6, PassesBy

\* The tokens whose trivia are left out, because the node that they begin or end is
\* put on one line: it has been asked for comments, but not for directives, and the
\* closing token has not been asked at all.
LeftOut(d, style) ==
  {x \in DOMAIN d.toks : \E n \in DOMAIN d.nodes :
     LET kids == d.nodes[n].kids
         first(k) == d.nodes[kids[k]].first
         plain(k) == HasFlatWidth(d.toks, first(k), d.nodes[kids[k]].last, TRUE)
         ends == {first(k) : k \in DOMAIN kids} \cup {d.nodes[n].tail[1]}
     IN  \/ /\ d.nodes[n].kind = "ConstraintBlock" /\ style.AllowShortConstraintBlocks
            /\ Len(kids) = 1 /\ plain(1) /\ x \in ends
         \/ /\ d.nodes[n].kind \in CoverKinds /\ style.AllowShortCoverpoints
            /\ kids # <<>> /\ \A k \in DOMAIN kids : plain(k)
            /\ x \in ends
         \/ \E k \in DOMAIN kids :
              /\ style.CompactTimeUnits /\ k > 1
              /\ d.nodes[kids[k - 1]].kind = "TimeUnitsDeclaration"
              /\ d.nodes[kids[k]].kind = "TimeUnitsDeclaration"
              /\ ~HasLeadingComment(d.toks[x]) /\ x = first(k)}

NothingLeftOut ==
  \A d \in Documents, style \in Styles : \A x \in LeftOut(d, style) : HoldsNothing(d, x)

\* A member of a module; its trivia may be skipped, if nothing is lost.
LEMMA ModuleMemberPasses ==
  ASSUME IInv, NothingLeftOut, NextModuleMember
  PROVE  PassesOn \/ PassesOver
<1> DEFINE i == Head(work).i
           kid == Kids(Arg)[i]
           tok == First(kid)
           p == BeforeModuleMember(Arg, i)
           calls == <<Do("visit", kid), DoNth("moduleMember", Arg, i + 1)>>
<1>1. /\ work # <<>> /\ Head(work).op = "moduleMember" /\ Head(work).op \in PlainLoops
      /\ Head(work).op \in ItemLoops
  BY DEF NextModuleMember, Calling, PlainLoops, ItemLoops
<1>2. /\ Tail1(Arg) # <<>> /\ doc \in Documents /\ Arg \in DOMAIN doc.nodes
      /\ pr.style \in Styles
  BY <1>1, CallTypes DEF ClosingOps, NodeOps, IInv, Safe, InOrder
<1>3. CASE i \in DOMAIN Kids(Arg)
  <2>1. Continue(Primary(p), calls)
    BY <1>3 DEF NextModuleMember
  <2>2. tok \in DOMAIN doc.toks
    BY <1>2, <1>3, KidTypes
  <2>3. \A a, b : Spans(doc, Head(work), a, b) => a = At(tok) /\ Carries(doc, calls, a, b)
    BY <1>1, <1>3, ItemCarries DEF Here
  <2>4. CASE Lays(pr, p)
    <3>1. Silent(pr, Primary(p))
      BY <2>4, LaysSilent
    <3> HIDE DEF p
    <3> QED
      BY <1>1, <1>3, <2>1, <3>1, ItemPasses
  <2>5. CASE ~Lays(pr, p)
    <3>1. Lays(pr, pr) /\ Lays(pr, ForceNewline(pr))
      BY SafeWriting, ForceNewlineLays DEF IInv
    <3>2. /\ ShouldCompactTimeUnits(Arg, i) /\ ~HasLeadingComment(Tok(tok))
          /\ p = [pr EXCEPT !.triviaSkip = Len(Tok(tok).trivia)]
      BY <2>5, <3>1 DEF BeforeModuleMember
    <3>3. HoldsNothing(doc, tok)
      <4>1. tok \in LeftOut(doc, pr.style)
        BY <1>2, <1>3, <2>2, <3>2
           DEF LeftOut, ShouldCompactTimeUnits, Kids, Kind, First, Tok
      <4> QED
        BY <1>2, <4>1 DEF NothingLeftOut
    <3> DEFINE q == Primary(p)
    <3>4. /\ Origins(q.output) = Origins(pr.output)
          /\ q.skipExpandedToken = pr.skipExpandedToken
          /\ q.triviaSkip = Len(Tok(tok).trivia)
      <4>1. Writing(pr)
        BY SafeWriting DEF IInv
      <4> QED
        BY <3>2, <4>1 DEF Writing, Primary
    <3>5. \A a, b : Spans(doc, Head(work), a, b) =>
            a = At(tok) /\ HoldsNothing(doc, tok) /\ Carries(doc, calls, a, b)
      BY <2>3, <3>3
    <3>6. Continue(q, calls)
      BY <2>1
    <3> HIDE DEF q, p, calls, tok
    <3> QED
      BY <2>2, <3>4, <3>5, <3>6 DEF PassesOver
  <2> QED
    BY <2>4, <2>5
<1>4. CASE i \notin DOMAIN Kids(Arg)
  <2>1. Silent(pr, Primary(pr))
    BY PrimarySilent DEF IInv
  <2> QED
    BY <1>1, <1>2, <1>4, <2>1, ScopeEndPasses DEF NextModuleMember
<1> QED
  BY <1>3, <1>4

\* Only trivia that hold nothing are skipped.
LEMMA SkipTriviaPasses ==
  ASSUME IInv, SkipTrivia
  PROVE  PassesOver
<1> DEFINE p == [pr EXCEPT !.triviaSkip = Len(Tok(Arg).trivia)]
<1>1. work # <<>> /\ Head(work).op = "skipTrivia" /\ Continue(p, <<>>)
  <2>1. work # <<>> /\ Head(work).op = "skipTrivia" /\ Return(p)
    BY DEF SkipTrivia, Calling
  <2>2. Tail(work) \in Seq(Calls)
    BY <2>1, CallTypes
  <2>3. <<>> \o Tail(work) = Tail(work)
    BY <2>2
  <2> QED
    BY <2>1, <2>3 DEF Return, Continue
<1>2. Arg \in DOMAIN doc.toks
  BY <1>1, CallTypes DEF TokenOps
<1>3. /\ Origins(p.output) = Origins(pr.output)
      /\ p.skipExpandedToken = pr.skipExpandedToken
      /\ p.triviaSkip = Len(Tok(Arg).trivia)
  BY SafeWriting DEF Writing, IInv
<1> HIDE DEF p
<1>4. \A a, b : Spans(doc, Head(work), a, b) =>
        a = At(Arg) /\ HoldsNothing(doc, Arg) /\ Carries(doc, <<>>, a, b)
  BY <1>1, SpansRules, CarryNone DEF Arg
<1> QED
  BY <1>1, <1>2, <1>3, <1>4 DEF PassesOver

-----------------------------------------------------------------------------
(* Members and scopes. *)

LEMMA TimeUnitsPasses ==
  ASSUME IInv, VisitTimeUnits
  PROVE  PassesOn
<1> DEFINE n == Arg
<1>1. /\ Calling("visit") /\ Kind(n) = "TimeUnitsDeclaration" /\ Kind(n) # "Header"
      /\ Continue(pr, <<Do("declarationLine", 0)>> \o EmitAll(Head1(n)))
  BY DEF VisitTimeUnits, Visiting
<1>2. doc \in Documents /\ n \in DOMAIN doc.nodes /\ IsWellShaped(doc.nodes[n], doc.nodes)
  BY <1>1, VisitedNode
<1>3. Label(n) = <<>> /\ Kids(n) = <<>> /\ Tail1(n) = <<>> /\ HasPlainOrder(n)
  BY <1>1, <1>2, PlainNode
     DEF IsWellShaped, ChildlessKinds, Kind, Kids, Tail1, Label, PlainKinds, StatementKinds
<1>4. Body(n) = There(n)
  BY <1>2, <1>3, KidPlaces DEF KidAt, StartOf, Kids, Tail1, There, EndAt
<1>5. Carries(doc, <<Do("declarationLine", 0)>>, Here(n), Here(n))
  BY Idle, CarryOne
<1>6. Carries(doc, EmitAll(Head1(n)), Here(n), There(n))
  BY <1>2, <1>3, <1>4, HeadCarries, LabelCarries
<1>7. Carries(doc, <<Do("declarationLine", 0)>> \o EmitAll(Head1(n)), Here(n), There(n))
  BY <1>5, <1>6, CarryOn
<1> QED
  BY <1>1, <1>2, <1>7, VisitPasses

\* A scope, from its label to its end, with a blank line in front of it or not.
LEMMA ScopeCarries ==
  ASSUME doc \in Documents, NEW n \in DOMAIN doc.nodes, Kind(n) \in PlainKinds,
         NEW cond
  PROVE  /\ Carries(doc, Scope(n), Here(n), There(n))
         /\ Label(n) = <<>> /\ (Head1(n) = <<>> => HasHeader(n)) =>
              Carries(doc, Scope(n), Mid(First(n)), There(n))
<1> DEFINE m == KidAt(doc, n, FirstMember(n))
<1>1. /\ Carries(doc, VisitHeaderOf(n), Body(n), m)
      /\ HasHeader(n) => Carries(doc, VisitHeaderOf(n), Mid(BodyOf(doc.nodes[n])), m)
      /\ Carries(doc, OpenMembers(n), m, There(n))
  BY MembersCarry DEF OpenMembers, PlainLoops
<1> HIDE DEF m
<1>2. Carries(doc, LabelCalls(n), Here(n), HeadAt(n))
  BY LabelCarries
<1>3. Carries(doc, EmitNamed(Head1(n)), HeadAt(n), Body(n))
  BY HeadCarries
<1>4. Scope(n) = LabelCalls(n) \o EmitNamed(Head1(n)) \o VisitHeaderOf(n) \o OpenMembers(n)
  BY DEF Scope
<1>5. Carries(doc, Scope(n), Here(n), There(n))
  BY <1>1, <1>2, <1>3, <1>4, CarryOnFour
<1>6. ASSUME Label(n) = <<>>, Head1(n) # <<>>
      PROVE  Carries(doc, Scope(n), Mid(First(n)), There(n))
  <2>1. Carries(doc, LabelCalls(n), Mid(First(n)), Mid(First(n)))
    BY <1>6, CarryNone DEF LabelCalls
  <2>2. Carries(doc, EmitNamed(Head1(n)), Mid(First(n)), Body(n))
    BY <1>6, HeadCarries
  <2> QED
    BY <1>1, <1>4, <2>1, <2>2, CarryOnFour
<1>7. ASSUME Label(n) = <<>>, Head1(n) = <<>>, HasHeader(n)
      PROVE  Carries(doc, Scope(n), Mid(First(n)), There(n))
  <2>1. Carries(doc, LabelCalls(n), Mid(First(n)), Mid(First(n)))
    BY <1>7, CarryNone DEF LabelCalls
  <2>2. Carries(doc, EmitNamed(Head1(n)), Mid(First(n)), Mid(First(n)))
    <3>1. EmitAll(<<>>) = <<>> /\ Len(<<>>) = 0
      BY DEF EmitAll
    <3>2. EmitNamed(<<>>) = <<>>
      BY <3>1 DEF EmitNamed
    <3> QED
      BY <1>7, <3>2, CarryNone
  <2>3. First(n) = BodyOf(doc.nodes[n])
    <3>1. HeadAt(n) = Here(n) /\ HeadAt(n) = Body(n)
      BY <1>7, LabelCarries, HeadCarries
    <3> QED
      BY <3>1 DEF Here, Body, At
  <2>4. Carries(doc, VisitHeaderOf(n), Mid(First(n)), m)
    BY <1>1, <1>7, <2>3
  <2> QED
    BY <1>1, <1>4, <2>1, <2>2, <2>4, CarryOnFour
<1> QED
  BY <1>5, <1>6, <1>7

LEMMA ScopePasses ==
  ASSUME IInv,
         \/ VisitClass \/ VisitChecker \/ VisitClocking \/ VisitConfig \/ VisitCovergroup
         \/ VisitProperty \/ VisitSequence \/ VisitGenerateBlock \/ VisitGenerateRegion
         \/ VisitStruct
  PROVE  PassesOn
<1>1. /\ Calling("visit") /\ Kind(Arg) \in ScopeKinds /\ Continue(pr, Scope(Arg))
  BY DEF VisitClass, VisitChecker, VisitClocking, VisitConfig, VisitCovergroup,
         VisitProperty, VisitSequence, VisitGenerateBlock, VisitGenerateRegion,
         VisitStruct, Visiting, ScopeKinds
<1>2. Kind(Arg) \in PlainKinds /\ Kind(Arg) # "Header"
  BY <1>1 DEF PlainKinds, ScopeKinds
<1>3. Carries(doc, Scope(Arg), Here(Arg), There(Arg))
  BY <1>1, <1>2, VisitedNode, ScopeCarries
<1> QED
  BY <1>1, <1>2, <1>3, VisitPasses

LEMMA FunctionPasses ==
  ASSUME IInv, VisitFunction \/ VisitSpecify
  PROVE  PassesOn
<1> DEFINE n == Arg
<1>1. PICK cond :
        /\ Calling("visit")
        /\ Kind(n) \in {"FunctionDeclaration", "TaskDeclaration", "SpecifyBlock"}
        /\ Continue(pr, When(cond, Do("insertBlankLineBefore", First(n))) \o Scope(n))
  BY DEF VisitFunction, VisitSpecify, Visiting
<1>2. Kind(n) \in PlainKinds /\ Kind(n) # "Header"
  BY <1>1 DEF PlainKinds, ScopeKinds
<1>3. doc \in Documents /\ n \in DOMAIN doc.nodes /\ IsWellShaped(doc.nodes[n], doc.nodes)
  BY <1>1, VisitedNode
<1>4. Label(n) = <<>> /\ (Head1(n) = <<>> => HasHeader(n))
  BY <1>1, <1>3 DEF IsWellShaped, Kind, Head1, Label, Kids, HasHeader, StatementKinds
<1>5. Carries(doc, Scope(n), Began(n, cond), There(n))
  BY <1>2, <1>3, <1>4, ScopeCarries DEF Began
<1>6. Carries(doc, When(cond, Do("insertBlankLineBefore", First(n))) \o Scope(n),
              Here(n), There(n))
  BY <1>5, BeganCarries, CarryOn
<1> QED
  BY <1>1, <1>2, <1>6, VisitPasses

LEMMA GeneratePasses ==
  ASSUME IInv, VisitCaseGenerate \/ VisitIfGenerate \/ VisitLoopGenerate
  PROVE  PassesOn
<1> DEFINE n == Arg
<1>1. Calling("visit") /\ Kind(n) \in {"CaseGenerate", "IfGenerate", "LoopGenerate"}
      /\ Kind(n) # "Header"
  BY DEF VisitCaseGenerate, VisitIfGenerate, VisitLoopGenerate, Visiting
<1>2. doc \in Documents /\ n \in DOMAIN doc.nodes /\ IsWellShaped(doc.nodes[n], doc.nodes)
  BY <1>1, VisitedNode
<1>3. Label(n) = <<>> /\ Len(Head1(n)) >= 2
  <2>1. Label(n) = <<>> /\ (Len(Head1(n)) >= 2 \/ Len(Head1(n)) >= 3)
    BY <1>1, <1>2 DEF IsWellShaped, Kind, Head1, Label, StatementKinds
  <2> QED
    BY <1>2, <2>1, NodeTypes
<1>4. Carries(doc, ControlHead(Head1(n)), Here(n), Body(n))
  BY <1>2, <1>3, HeadCarries, LabelCarries
<1>5. CASE VisitCaseGenerate
  <2>1. Kind(n) = "CaseGenerate" /\ Continue(pr, ControlHead(Head1(n)) \o OpenMembers(n))
    BY <1>5 DEF VisitCaseGenerate, Visiting
  <2>2. Kind(n) \in PlainKinds /\ ~HasHeader(n)
    BY <1>2, <2>1 DEF PlainKinds, ScopeKinds, IsWellShaped, HasHeader, Kind, Kids
  <2>3. Carries(doc, OpenMembers(n), Body(n), There(n))
    BY <1>2, <2>2, MembersCarry DEF OpenMembers, PlainLoops
  <2>4. Carries(doc, ControlHead(Head1(n)) \o OpenMembers(n), Here(n), There(n))
    BY <1>4, <2>3, CarryOn
  <2> QED
    BY <1>1, <2>1, <2>4, VisitPasses
<1>6. CASE VisitIfGenerate
  <2> DEFINE visit == <<Do("visit", Kids(n)[1])>>
             else == IF Len(Kids(n)) = 2
                     THEN <<Do("primary", 0), Do("emitToken", Tail1(n)[1]),
                            Do("visit", Kids(n)[2])>>
                     ELSE <<>>
  <2>1. Kind(n) = "IfGenerate" /\ Continue(pr, ControlHead(Head1(n)) \o visit \o else)
    BY <1>6 DEF VisitIfGenerate, Visiting
  <2>2. Here(Kids(n)[1]) = Body(n) /\ Len(Kids(n)) \in {1, 2}
    BY <1>2, <2>1, Branches
  <2>3. Carries(doc, visit, Body(n), There(Kids(n)[1]))
    BY <2>2, VisitSpans
  <2>4. Carries(doc, else, There(Kids(n)[1]), There(n))
    <3>1. CASE Len(Kids(n)) = 2
      BY <1>2, <2>1, <3>1, ElseCallsCarries
    <3>2. CASE Len(Kids(n)) # 2
      BY <1>2, <2>1, <3>2, Branches, CarryNone
    <3> QED
      BY <3>1, <3>2
  <2> HIDE DEF visit, else
  <2>5. Carries(doc, ControlHead(Head1(n)) \o visit \o else, Here(n), There(n))
    BY <1>4, <2>3, <2>4, CarryOnThree
  <2> QED
    BY <1>1, <2>1, <2>5, VisitPasses
<1>7. CASE VisitLoopGenerate
  <2>1. /\ Kind(n) = "LoopGenerate"
        /\ Continue(pr, ControlHead(Head1(n)) \o <<Do("visit", Kids(n)[1])>>)
    BY <1>7 DEF VisitLoopGenerate, Visiting
  <2>2. Here(Kids(n)[1]) = Body(n) /\ There(Kids(n)[1]) = There(n)
    BY <1>2, <2>1, OnlyKid DEF TaillessKinds
  <2>3. Carries(doc, <<Do("visit", Kids(n)[1])>>, Body(n), There(n))
    BY <2>2, VisitSpans
  <2>4. Carries(doc, ControlHead(Head1(n)) \o <<Do("visit", Kids(n)[1])>>, Here(n), There(n))
    BY <1>4, <2>3, CarryOn
  <2> QED
    BY <1>1, <2>1, <2>4, VisitPasses
<1> QED
  BY <1>5, <1>6, <1>7

LEMMA ModulePasses ==
  ASSUME IInv, VisitModule \/ VisitCompilationUnit
  PROVE  PassesOn
<1> DEFINE n == Arg
<1>1. Calling("visit") /\ Kind(n) # "Header" /\ Kind(n) \in PlainKinds
      /\ Kind(n) \in {"ModuleDeclaration", "CompilationUnit"}
  BY DEF VisitModule, VisitCompilationUnit, Visiting, PlainKinds
<1>2. doc \in Documents /\ n \in DOMAIN doc.nodes /\ IsWellShaped(doc.nodes[n], doc.nodes)
  BY <1>1, VisitedNode
<1>3. Label(n) = <<>>
  BY <1>1, <1>2 DEF IsWellShaped, Kind, Label, StatementKinds
<1>4. CASE VisitModule
  <2> DEFINE m == KidAt(doc, n, FirstMember(n))
             members == <<Do("indent", 0), DoNth("moduleMember", n, FirstMember(n))>>
  <2>1. Continue(Primary(pr), EmitAll(Head1(n)) \o VisitHeaderOf(n) \o members)
    BY <1>4 DEF VisitModule
  <2>2. Carries(doc, VisitHeaderOf(n), Body(n), m) /\ Carries(doc, members, m, There(n))
    BY <1>1, <1>2, MembersCarry DEF PlainLoops
  <2>3. Carries(doc, EmitAll(Head1(n)), Here(n), Body(n))
    BY <1>2, <1>3, HeadCarries, LabelCarries
  <2> HIDE DEF m, members
  <2>4. Carries(doc, EmitAll(Head1(n)) \o VisitHeaderOf(n) \o members, Here(n), There(n))
    BY <2>2, <2>3, CarryOnThree
  <2> QED
    BY <1>1, <2>1, <2>4, VisitPasses
<1>5. CASE VisitCompilationUnit
  <2>1. Kind(n) = "CompilationUnit" /\ Continue(pr, <<DoNth("member", n, 1)>>)
    BY <1>5 DEF VisitCompilationUnit, Visiting
  <2>2. Head1(n) = <<>>
    BY <1>2, <2>1 DEF IsWellShaped, Kind, Head1
  <2>3. Here(n) = Body(n) /\ KidAt(doc, n, 1) = Body(n)
    BY <1>1, <1>2, <1>3, <2>2, HeadCarries, LabelCarries, PlainNode, KidPlaces
  <2>4. Spans(doc, DoNth("member", n, 1), KidAt(doc, n, 1), There(n))
    <3>1. "member" \in PlainLoops /\ 1 \in Nat /\ 1 # 0
      BY DEF PlainLoops
    <3> QED
      BY <1>1, <3>1, LoopSpans, Zenon
  <2>5. Carries(doc, <<DoNth("member", n, 1)>>, Here(n), There(n))
    BY <2>3, <2>4, CarryOne
  <2> QED
    BY <1>1, <2>1, <2>5, VisitPasses
<1> QED
  BY <1>4, <1>5

-----------------------------------------------------------------------------
(* Constraints and coverpoints. *)

LEMMA ConstraintPasses ==
  ASSUME IInv, VisitConstraint
  PROVE  PassesOn
<1> DEFINE n == Arg
<1>1. /\ Calling("visit") /\ Kind(n) = "ConstraintDeclaration" /\ Kind(n) # "Header"
      /\ Continue(pr, EmitAll(Head1(n)) \o <<Do("visit", Kids(n)[1])>>)
  BY DEF VisitConstraint, Visiting
<1>2. doc \in Documents /\ n \in DOMAIN doc.nodes /\ IsWellShaped(doc.nodes[n], doc.nodes)
  BY <1>1, VisitedNode
<1>3. Label(n) = <<>>
  BY <1>1, <1>2 DEF IsWellShaped, Kind, Label, StatementKinds
<1>4. Here(Kids(n)[1]) = Body(n) /\ There(Kids(n)[1]) = There(n)
  BY <1>1, <1>2, OnlyKid DEF TaillessKinds
<1>5. Carries(doc, <<Do("visit", Kids(n)[1])>>, Body(n), There(n))
  BY <1>4, VisitSpans
<1>6. Carries(doc, EmitAll(Head1(n)), Here(n), Body(n))
  BY <1>2, <1>3, HeadCarries, LabelCarries
<1>7. Carries(doc, EmitAll(Head1(n)) \o <<Do("visit", Kids(n)[1])>>, Here(n), There(n))
  BY <1>5, <1>6, CarryOn
<1> QED
  BY <1>1, <1>7, VisitPasses

\* A block that is put on one line loses the trivia of two tokens.
LEMMA ConstraintBlockPasses ==
  ASSUME IInv, NothingLeftOut, VisitConstraintBlock
  PROVE  PassesOn
<1> DEFINE n == Arg
           item == Kids(n)[1]
           close == CloseToken(n)
           short == <<Do("skipTrivia", First(item)), Do("visit", item),
                      Do("skipTrivia", close), Do("emitToken", close)>>
           long == <<Do("indent", 0), DoNth("constraintItem", n, 1)>>
<1>1. PICK fits \in Fits :
        Continue(pr, EmitAll(Head1(n)) \o IF IsShortConstraintBlock(n, fits) THEN short ELSE long)
  BY DEF VisitConstraintBlock
<1>2. Calling("visit") /\ Kind(n) = "ConstraintBlock" /\ Kind(n) # "Header"
  BY DEF VisitConstraintBlock, Visiting
<1>3. /\ doc \in Documents /\ n \in DOMAIN doc.nodes /\ IsWellShaped(doc.nodes[n], doc.nodes)
      /\ pr.style \in Styles
  BY <1>2, VisitedNode DEF IInv, Safe, InOrder
<1>4. Label(n) = <<>> /\ Len(Tail1(n)) = 1
  BY <1>2, <1>3 DEF IsWellShaped, Kind, Label, Tail1, StatementKinds
<1>5. Tail1(n) # <<>> /\ Kind(n) \in PlainKinds
  BY <1>2, <1>4, NonEmpty DEF PlainKinds
<1>6. HasPlainOrder(n) /\ Unseparated(doc.nodes[n], doc.nodes) = 0 /\ KidAt(doc, n, 1) = Body(n)
  BY <1>3, <1>5, PlainNode, KidPlaces
<1>7. Carries(doc, EmitAll(Head1(n)), Here(n), Body(n))
  BY <1>3, <1>4, HeadCarries, LabelCarries
<1>8. CASE IsShortConstraintBlock(n, fits)
  <2>1. 1 \in DOMAIN Kids(n) /\ 1 + 1 \notin DOMAIN Kids(n) /\ 1 + 1 \in Nat
    BY <1>3, <1>8, NodeTypes DEF IsShortConstraintBlock
  <2>2. Here(item) = Body(n) /\ There(item) = KidAt(doc, n, 1 + 1)
    BY <1>3, <1>6, <2>1, KidPlaces
  <2>3. KidAt(doc, n, 1 + 1) = At(close) /\ There(n) = At(close + 1)
    BY <1>3, <1>4, <1>5, <1>6, <2>1, PlainEnd
  <2>4. First(item) \in DOMAIN doc.toks /\ close \in DOMAIN doc.toks
    BY <1>3, <1>5, <2>1, KidTypes, CloseTokenType
  <2>5. {First(item), close} \subseteq LeftOut(doc, pr.style)
    BY <1>2, <1>3, <1>8, <2>1, <2>4
       DEF LeftOut, IsShortConstraintBlock, Kids, Kind, First, CloseToken, Tail1
  <2>6. HoldsNothing(doc, First(item)) /\ HoldsNothing(doc, close)
    BY <1>3, <2>5 DEF NothingLeftOut
  <2>7. /\ Spans(doc, Do("skipTrivia", First(item)), Here(item), Here(item))
        /\ Spans(doc, Do("visit", item), Here(item), There(item))
        /\ Spans(doc, Do("skipTrivia", close), At(close), At(close))
        /\ Spans(doc, Do("emitToken", close), At(close), At(close + 1))
    BY <2>6, TokenSpans, VisitSpans DEF Here
  <2> HIDE DEF item, close
  <2>8. Carries(doc, short, Here(item), At(close + 1))
    BY <2>2, <2>3, <2>7, CarryFour, Zenon
  <2> HIDE DEF short
  <2>9. Carries(doc, EmitAll(Head1(n)) \o short, Here(n), There(n))
    BY <1>7, <2>2, <2>3, <2>8, CarryOn
  <2> QED
    BY <1>1, <1>2, <1>8, <2>9, VisitPasses
<1>9. CASE ~IsShortConstraintBlock(n, fits)
  <2>1. Suits(doc, "constraintItem", n)
    BY <1>2 DEF Suits, Kind
  <2>2. GoesOn(doc, "constraintItem", n, 1)
    BY <1>6, <2>1 DEF GoesOn
  <2>3. Spans(doc, DoNth("constraintItem", n, 1), KidAt(doc, n, 1), There(n))
    BY <2>2, NodeSpans DEF There, LoopOps
  <2>4. Carries(doc, long, Body(n), There(n))
    BY <1>6, <2>3, Idle, CarryTwo
  <2> HIDE DEF long
  <2>5. Carries(doc, EmitAll(Head1(n)) \o long, Here(n), There(n))
    BY <1>7, <2>4, CarryOn
  <2> QED
    BY <1>1, <1>2, <1>9, <2>5, VisitPasses
<1> QED
  BY <1>8, <1>9

\* A cover, from the head on.
LEMMA CoverCallsCarries ==
  ASSUME doc \in Documents, NEW n \in DOMAIN doc.nodes, Kind(n) \in CoverKinds
  PROVE  Carries(doc, CoverCalls(n), HeadAt(n), There(n))
<1>1. Head1(n) # <<>> /\ Kind(n) \in PlainKinds
  BY NodeTypes DEF IsWellShaped, Kind, Head1, BraceListKinds, PlainKinds
<1>2. HasPlainOrder(n)
  BY <1>1, PlainNode
<1>3. CASE Kids(n) = <<>>
  <2>1. 1 \notin DOMAIN Kids(n)
    BY <1>3
  <2>2. Carries(doc, EmitAll(Tail1(n)), KidAt(doc, n, 1), There(n))
    BY <1>2, <2>1, TailCarries
  <2>3. KidAt(doc, n, 1) = Body(n)
    BY <1>2, KidPlaces
  <2> QED
    BY <1>3, <2>2, <2>3, HeadCarries, CarryOn DEF CoverCalls
<1>4. CASE Kids(n) # <<>>
  <2> DEFINE last == Head1(n)[Len(Head1(n))]
             items == <<Do("coverItems", n)>>
  <2>1. Carries(doc, EmitAll(Pop(Head1(n))), HeadAt(n), At(last))
    BY <1>1, PopHead
  <2>2. Suits(doc, "coverItems", n)
    BY <1>4 DEF Suits, Kind, Kids
  <2>3. Carries(doc, items, At(last), There(n))
    BY <2>2, NodeSpans, CarryOne DEF There, Head1
  <2> HIDE DEF items, last
  <2>4. Carries(doc, EmitAll(Pop(Head1(n))) \o items, HeadAt(n), There(n))
    BY <2>1, <2>3, CarryOn
  <2> QED
    BY <1>4, <2>4 DEF CoverCalls, items
<1> QED
  BY <1>3, <1>4

LEMMA CoverPasses ==
  ASSUME IInv, VisitCoverpoint \/ VisitCoverCross
  PROVE  PassesOn
<1> DEFINE n == Arg
<1>1. Calling("visit") /\ Kind(n) # "Header" /\ Kind(n) \in CoverKinds
  BY DEF VisitCoverpoint, VisitCoverCross, Visiting, CoverKinds
<1>2. doc \in Documents /\ n \in DOMAIN doc.nodes /\ IsWellShaped(doc.nodes[n], doc.nodes)
  BY <1>1, VisitedNode
<1>3. Carries(doc, CoverCalls(n), HeadAt(n), There(n))
  BY <1>1, <1>2, CoverCallsCarries
<1>4. CASE VisitCoverpoint
  <2>1. Kind(n) = "Coverpoint" /\ Continue(pr, CoverCalls(n))
    BY <1>4 DEF VisitCoverpoint, Visiting
  <2>2. Label(n) = <<>>
    BY <1>2, <2>1 DEF IsWellShaped, Kind, Label, StatementKinds
  <2> QED
    BY <1>1, <1>2, <1>3, <2>1, <2>2, LabelCarries, VisitPasses
<1>5. CASE VisitCoverCross
  <2>1. Continue(pr, LabelCalls(n) \o CoverCalls(n))
    BY <1>5 DEF VisitCoverCross
  <2>2. Carries(doc, LabelCalls(n) \o CoverCalls(n), Here(n), There(n))
    BY <1>2, <1>3, LabelCarries, CarryOn
  <2> QED
    BY <1>1, <2>1, <2>2, VisitPasses
<1> QED
  BY <1>4, <1>5

\* So does the body of a coverpoint.
LEMMA CoverItemsPasses ==
  ASSUME IInv, NothingLeftOut, StartCoverItems
  PROVE  PassesOn
<1> DEFINE n == Arg
           last == Head1(n)[Len(Head1(n))]
           open == <<Do("emitToken", last)>>
           short == <<DoNth("inlineItem", n, 1)>>
           long == <<Do("indent", 0), DoNth("constraintItem", n, 1)>>
<1>1. PICK fits \in Fits :
        Continue(pr, open \o IF IsShortCover(n, fits) THEN short ELSE long)
  BY DEF StartCoverItems
<1>2. work # <<>> /\ Head(work).op = "coverItems"
  BY DEF StartCoverItems, Calling
<1>3. /\ doc \in Documents /\ n \in DOMAIN doc.nodes /\ IsWellShaped(doc.nodes[n], doc.nodes)
      /\ pr.style \in Styles /\ Kind(n) \in CoverKinds
  <2>1. doc \in Documents /\ n \in DOMAIN doc.nodes /\ Kind(n) \in CoverKinds
    BY <1>2, CallTypes DEF NodeOps, KindOps, KindsFor
  <2> QED
    BY <2>1, NodeTypes DEF IInv, Safe, InOrder
<1>4. Head1(n) # <<>> /\ Tail1(n) # <<>> /\ Kind(n) \in PlainKinds
  BY <1>3 DEF IsWellShaped, Kind, Head1, Tail1, BraceListKinds, PlainKinds
<1>5. HasPlainOrder(n) /\ Unseparated(doc.nodes[n], doc.nodes) = 0 /\ KidAt(doc, n, 1) = Body(n)
  BY <1>3, <1>4, PlainNode, KidPlaces
<1>6. At(last + 1) = Body(n)
  BY <1>3, <1>4, PopHead
<1>7. Carries(doc, open, At(last), Body(n))
  BY <1>6, TokenSpans, CarryOne
<1>8. ASSUME NEW a, NEW b, Spans(doc, Head(work), a, b)
      PROVE  Carries(doc, open \o IF IsShortCover(n, fits) THEN short ELSE long, a, b)
  <2>1. a = At(last) /\ b = There(n) /\ Suits(doc, "coverItems", n)
    BY <1>2, <1>8, SpansRules DEF There, Head1, Arg
  <2>2. Kids(n) # <<>>
    BY <1>3, <2>1 DEF Suits, Kind, Kids, CoverKinds
  <2>3. CASE IsShortCover(n, fits)
    <3>1. \A k \in DOMAIN Kids(n) : First(Kids(n)[k]) \in DOMAIN doc.toks
      BY <1>3, KidTypes
    <3>2. CloseToken(n) \in DOMAIN doc.toks
      BY <1>3, <1>4, CloseTokenType
    <3>3. {First(Kids(n)[k]) : k \in DOMAIN Kids(n)} \cup {CloseToken(n)}
            \subseteq LeftOut(doc, pr.style)
      BY <1>3, <2>2, <2>3, <3>1, <3>2
         DEF LeftOut, IsShortCover, Kids, Kind, First, CloseToken, Tail1
    <3>4. /\ HoldsNothing(doc, CloseToken(n))
          /\ \A k \in DOMAIN Kids(n) : HoldsNothing(doc, First(Kids(n)[k]))
      BY <1>3, <3>3 DEF NothingLeftOut
    <3>5. Suits(doc, "inlineItem", n)
      BY <1>3, <2>2, <3>4 DEF Suits, Kind, Kids, First, CloseToken, Tail1
    <3>6. GoesOn(doc, "inlineItem", n, 1)
      BY <1>5, <3>5 DEF GoesOn
    <3>7. Spans(doc, DoNth("inlineItem", n, 1), KidAt(doc, n, 1), There(n))
      BY <3>6, NodeSpans DEF There, LoopOps
    <3>8. Carries(doc, short, Body(n), There(n))
      BY <1>5, <3>7, CarryOne
    <3> HIDE DEF open, short
    <3>9. Carries(doc, open \o short, At(last), There(n))
      BY <1>7, <3>8, CarryOn
    <3> QED
      BY <2>1, <2>3, <3>9
  <2>4. CASE ~IsShortCover(n, fits)
    <3>1. Suits(doc, "constraintItem", n)
      BY <1>3, <2>2 DEF Suits, Kind, Kids
    <3>2. GoesOn(doc, "constraintItem", n, 1)
      BY <1>5, <3>1 DEF GoesOn
    <3>3. Spans(doc, DoNth("constraintItem", n, 1), KidAt(doc, n, 1), There(n))
      BY <3>2, NodeSpans DEF There, LoopOps
    <3>4. Carries(doc, long, Body(n), There(n))
      BY <1>5, <3>3, Idle, CarryTwo
    <3> HIDE DEF open, long
    <3>5. Carries(doc, open \o long, At(last), There(n))
      BY <1>7, <3>4, CarryOn
    <3> QED
      BY <2>1, <2>4, <3>5
  <2> QED
    BY <2>3, <2>4
<1>9. Silent(pr, pr)
  BY PrimarySilent DEF IInv
<1> DEFINE calls == open \o IF IsShortCover(n, fits) THEN short ELSE long
<1>10. Continue(pr, calls)
  BY <1>1
<1>11. \A a, b : Spans(doc, Head(work), a, b) => Carries(doc, calls, a, b)
  BY <1>8
<1> HIDE DEF calls
<1> QED
  BY <1>2, <1>9, <1>10, <1>11, PassesBy

LEMMA InlineItemPasses ==
  ASSUME IInv, NextInlineItem
  PROVE  PassesOn
<1> DEFINE i == Head(work).i
           item == Kids(Arg)[i]
           close == CloseToken(Arg)
<1>1. /\ work # <<>> /\ Head(work).op = "inlineItem" /\ Head(work).op \in ItemLoops
  BY DEF NextInlineItem, Calling, ItemLoops
<1>2. Silent(pr, pr)
  BY PrimarySilent DEF IInv
<1>3. ASSUME NEW a, NEW b, Spans(doc, Head(work), a, b)
      PROVE  /\ doc \in Documents /\ Arg \in DOMAIN doc.nodes
             /\ HoldsNothing(doc, close)
             /\ \A k \in DOMAIN Kids(Arg) : HoldsNothing(doc, First(Kids(Arg)[k]))
             /\ Len(Tail1(Arg)) = 1
  <2>1. doc \in Documents /\ Arg \in DOMAIN doc.nodes /\ Suits(doc, "inlineItem", Arg)
    BY <1>1, <1>3, ItemLoopAt
  <2>2. /\ Kind(Arg) = "ConstraintBlock" \/ (Kind(Arg) \in CoverKinds /\ Kids(Arg) # <<>>)
        /\ HoldsNothing(doc, close)
        /\ \A k \in DOMAIN Kids(Arg) : HoldsNothing(doc, First(Kids(Arg)[k]))
    BY <2>1 DEF Suits, Kind, Kids, First, CloseToken, Tail1
  <2>3. Len(Tail1(Arg)) = 1
    BY <2>1, <2>2, NodeTypes DEF IsWellShaped, Kind, Kids, Tail1
  <2> QED
    BY <2>1, <2>2, <2>3
<1>4. CASE i \in DOMAIN Kids(Arg)
  <2> DEFINE calls == <<Do("skipTrivia", First(item)), Do("primary", 0),
                        Do("visit", item), DoNth("inlineItem", Arg, i + 1)>>
  <2>1. Continue(pr, calls)
    BY <1>4 DEF NextInlineItem
  <2>2. ASSUME NEW a, NEW b, Spans(doc, Head(work), a, b)
        PROVE  Carries(doc, calls, a, b)
    <3> DEFINE next == KidAt(doc, Arg, i + 1)
    <3>1. /\ Spans(doc, Do("visit", item), a, next) /\ a = Here(item)
          /\ Spans(doc, DoNth("inlineItem", Arg, i + 1), next, b)
      BY <1>1, <1>4, <2>2, ItemCarries
    <3>2. HoldsNothing(doc, First(item))
      BY <1>3, <1>4, <2>2
    <3>3. Spans(doc, Do("skipTrivia", First(item)), a, a)
      BY <3>1, <3>2, TokenSpans DEF Here
    <3>4. Spans(doc, Do("primary", 0), a, a)
      BY Idle
    <3> HIDE DEF next
    <3> QED
      BY <3>1, <3>3, <3>4, CarryFour, Zenon
  <2> HIDE DEF calls
  <2> QED
    BY <1>1, <1>2, <2>1, <2>2, PassesBy
<1>5. CASE i \notin DOMAIN Kids(Arg)
  <2> DEFINE calls == <<Do("skipTrivia", close), Do("emitToken", close)>>
  <2>1. Continue(pr, calls)
    BY <1>5 DEF NextInlineItem
  <2>2. ASSUME NEW a, NEW b, Spans(doc, Head(work), a, b)
        PROVE  Carries(doc, calls, a, b)
    <3>1. a = At(close) /\ b = At(close + 1)
      BY <1>1, <1>3, <1>5, <2>2, ItemsEnd
    <3>2. /\ Spans(doc, Do("skipTrivia", close), At(close), At(close))
          /\ Spans(doc, Do("emitToken", close), At(close), At(close + 1))
      BY <1>3, <2>2, TokenSpans
    <3> HIDE DEF close
    <3> QED
      BY <3>1, <3>2, CarryTwo
  <2> HIDE DEF calls
  <2> QED
    BY <1>1, <1>2, <2>1, <2>2, PassesBy
<1> QED
  BY <1>4, <1>5

-----------------------------------------------------------------------------
(* Nodes that are visited, whatever the call. *)

\* A node that is visited, whatever the call, answered by calls for all of it.
LEMMA NodePasses ==
  ASSUME IInv, work # <<>>, Head(work).op \in VisitOps, Kind(Arg) # "Header",
         NEW calls, Carries(doc, calls, Here(Arg), There(Arg)),
         NEW p, Silent(pr, p), Continue(p, calls)
  PROVE  PassesOn
<1>1. \A a, b : Spans(doc, Head(work), a, b) => a = Here(Arg) /\ b = There(Arg)
  BY SpansRules DEF Here, There, Arg, First, Kind
<1> QED
  BY <1>1, PassesBy

LEMMA HeaderPasses ==
  ASSUME IInv, VisitHeader
  PROVE  PassesOn
<1> DEFINE n == Arg
           kids == [k \in DOMAIN Kids(n) |-> Do("visit", Kids(n)[k])]
           calls == EmitAll(Head1(n)) \o kids \o EmitAll(Tail1(n))
           m == Len(Kids(n)) + 1
<1>1. /\ Calling("visit") /\ Kind(n) = "Header" /\ Continue(pr, calls)
      /\ work # <<>> /\ Head(work).op = "visit" /\ Head(work).op \in VisitOps
  BY DEF VisitHeader, Visiting, Calling, VisitOps
<1>2. doc \in Documents /\ n \in DOMAIN doc.nodes /\ IsWellShaped(doc.nodes[n], doc.nodes)
  BY <1>1, VisitedNode
<1>3. Head1(n) # <<>> /\ Label(n) = <<>>
  BY <1>1, <1>2 DEF IsWellShaped, Kind, Head1, Label, StatementKinds
<1>4. HasPlainOrder(n) /\ "visit" \in VisitOps
  BY <1>1, PlainNode DEF PlainKinds, VisitOps
<1>5. m \in Nat /\ m \notin DOMAIN Kids(n)
  BY <1>2, NodeTypes
<1>6. /\ Carries(doc, EmitAll(Head1(n)), Here(n), Body(n))
      /\ Carries(doc, EmitAll(Head1(n)), Mid(First(n)), Body(n))
  BY <1>2, <1>3, HeadCarries, LabelCarries
<1>7. Carries(doc, kids, Body(n), KidAt(doc, n, m))
  BY <1>2, <1>4, VisitKidsCarries
<1>8. Carries(doc, EmitAll(Tail1(n)), KidAt(doc, n, m), There(n))
  BY <1>2, <1>4, <1>5, TailCarries
<1> HIDE DEF kids, m
<1>9. Carries(doc, calls, Here(n), There(n)) /\ Carries(doc, calls, Mid(First(n)), There(n))
  BY <1>6, <1>7, <1>8, CarryOnThree
<1> HIDE DEF calls
<1>10. \A a, b : Spans(doc, Head(work), a, b) => a \in {Here(n), Mid(First(n))} /\ b = There(n)
  BY <1>1, SpansRules DEF Here, There, Arg, First, Kind
<1>11. Silent(pr, pr)
  BY PrimarySilent DEF IInv
<1> QED
  BY <1>1, <1>9, <1>10, <1>11, PassesBy

\* Nodes that are nothing but their tokens.
LEMMA ChildlessCarries ==
  ASSUME doc \in Documents, NEW n \in DOMAIN doc.nodes,
         Kind(n) \in ChildlessKinds \ {"EmptyStatement", "Leaf"}
  PROVE  Carries(doc, EmitAll(Head1(n)), Here(n), There(n))
<1>1. IsWellShaped(doc.nodes[n], doc.nodes)
  BY NodeTypes
<1>2. Label(n) = <<>> /\ Kids(n) = <<>> /\ Tail1(n) = <<>> /\ HasPlainOrder(n)
  BY <1>1, PlainNode
     DEF IsWellShaped, ChildlessKinds, Kind, Kids, Tail1, Label, PlainKinds, StatementKinds
<1>3. Body(n) = There(n)
  BY <1>2, KidPlaces DEF KidAt, StartOf, Kids, Tail1, There, EndAt
<1> QED
  BY <1>2, <1>3, HeadCarries, LabelCarries

LEMMA ChildlessPasses ==
  ASSUME IInv, VisitConnection \/ VisitWildcard
  PROVE  PassesOn
<1> DEFINE n == Arg
<1>1. PICK op \in IdleOps : \E x :
        /\ Calling("visit") /\ Kind(n) \in {"NamedConnection", "WildcardPortList"}
        /\ Continue(pr, <<Do(op, x)>> \o EmitAll(Head1(n)))
  <2>1. {"connectionLine", "spaceBefore", "noSpaceBefore"} \subseteq IdleOps
    BY DEF IdleOps, PlainOps
  <2>2. CASE VisitConnection
    BY <2>1, <2>2 DEF VisitConnection, Visiting
  <2>3. CASE VisitWildcard
    BY <2>1, <2>3 DEF VisitWildcard, Visiting, SpaceBefore
  <2> QED
    BY <2>2, <2>3
<1>2. PICK x : Continue(pr, <<Do(op, x)>> \o EmitAll(Head1(n)))
  BY <1>1
<1>3. doc \in Documents /\ n \in DOMAIN doc.nodes /\ Kind(n) # "Header"
  BY <1>1, VisitedNode
<1>4. Carries(doc, <<Do(op, x)>>, Here(n), Here(n))
  BY IdleSpans, CarryOne
<1>5. Carries(doc, EmitAll(Head1(n)), Here(n), There(n))
  BY <1>1, <1>3, ChildlessCarries DEF ChildlessKinds
<1>6. Carries(doc, <<Do(op, x)>> \o EmitAll(Head1(n)), Here(n), There(n))
  BY <1>4, <1>5, CarryOn
<1> QED
  BY <1>1, <1>2, <1>3, <1>6, VisitPasses

LEMMA DistWeightPasses ==
  ASSUME IInv, VisitDistWeight
  PROVE  PassesOn
<1> DEFINE n == Arg
           front == <<Do("weightSpaces", Head1(n)[1])>>
           one == <<Do("oneSpace", 0)>>
<1>1. /\ Calling("visit") /\ Kind(n) = "DistWeight" /\ Kind(n) # "Header"
      /\ Continue(pr, front \o EmitAll(Head1(n)) \o one \o EmitAll(Tail1(n)))
  BY DEF VisitDistWeight, Visiting
<1>2. doc \in Documents /\ n \in DOMAIN doc.nodes /\ IsWellShaped(doc.nodes[n], doc.nodes)
  BY <1>1, VisitedNode
<1>3. Label(n) = <<>> /\ Kids(n) = <<>> /\ HasPlainOrder(n)
  BY <1>1, <1>2, PlainNode DEF IsWellShaped, Kind, Kids, Label, PlainKinds, StatementKinds
<1>4. 1 \in Nat /\ 1 \notin DOMAIN Kids(n)
  BY <1>3
<1>5. Carries(doc, EmitAll(Tail1(n)), Body(n), There(n))
  BY <1>2, <1>3, <1>4, KidPlaces, TailCarries
<1>6. Carries(doc, EmitAll(Head1(n)), Here(n), Body(n))
  BY <1>2, <1>3, HeadCarries, LabelCarries
<1>7. Carries(doc, front, Here(n), Here(n)) /\ Carries(doc, one, Body(n), Body(n))
  BY Idle, CarryOne
<1> HIDE DEF front, one
<1>8. Carries(doc, front \o EmitAll(Head1(n)) \o one \o EmitAll(Tail1(n)), Here(n), There(n))
  BY <1>5, <1>6, <1>7, CarryOnFour
<1> QED
  BY <1>1, <1>8, VisitPasses

-----------------------------------------------------------------------------
(* Nodes whose parts are visited in order. *)

\* Nodes that are walked through.
LEMMA WalkPasses ==
  ASSUME IInv,
         \/ VisitBind \/ VisitDpiExport \/ VisitDefaults \/ VisitNames \/ VisitParameters
         \/ VisitContinuousAssign \/ VisitTypedef \/ VisitExpression
  PROVE  PassesOn
<1> DEFINE n == Arg
<1>1. /\ Calling("visit") /\ Kind(n) \in PlainKinds /\ Kind(n) # "Header"
      /\ Kind(n) \notin StatementKinds \cup {"GenerateBlock", "CoverCross"}
      /\ \/ Continue(pr, <<Do("declarationLine", 0)>> \o Walk(n))
         \/ Continue(pr, <<Do("assignmentLine", 0)>> \o Walk(n))
         \/ Continue(pr, Walk(n))
         \/ Continue(Primary(pr), Walk(n))
  <2>1. CASE VisitBind \/ VisitDpiExport \/ VisitDefaults \/ VisitNames \/ VisitParameters
    BY <2>1 DEF VisitBind, VisitDpiExport, VisitDefaults, VisitNames, VisitParameters,
                Visiting, Announced, PlainKinds, PlainDeclarationKinds, StatementKinds
  <2>2. CASE VisitContinuousAssign \/ VisitTypedef \/ VisitExpression
    BY <2>2 DEF VisitContinuousAssign, VisitTypedef, VisitExpression, Visiting, PlainKinds,
                StatementKinds
  <2> QED
    BY <2>1, <2>2
<1>2. doc \in Documents /\ n \in DOMAIN doc.nodes /\ IsWellShaped(doc.nodes[n], doc.nodes)
  BY <1>1, VisitedNode
<1>3. Label(n) = <<>> /\ HasPlainOrder(n) /\ "visit" \in VisitOps
  BY <1>1, <1>2, PlainNode DEF IsWellShaped, Kind, Label, VisitOps
<1>4. Carries(doc, Walk(n), Here(n), There(n))
  BY <1>2, <1>3, WalkCarries DEF Walk
<1>5. \A op \in IdleOps : Carries(doc, <<Do(op, 0)>> \o Walk(n), Here(n), There(n))
  <2> SUFFICES ASSUME NEW op \in IdleOps
               PROVE  Carries(doc, <<Do(op, 0)>> \o Walk(n), Here(n), There(n))
    OBVIOUS
  <2>1. Carries(doc, <<Do(op, 0)>>, Here(n), Here(n))
    BY IdleSpans, CarryOne
  <2> QED
    BY <1>4, <2>1, CarryOn
<1>6. {"declarationLine", "assignmentLine"} \subseteq IdleOps
  BY DEF IdleOps, PlainOps
<1> QED
  BY <1>1, <1>4, <1>5, <1>6, VisitPasses

LEMMA DpiImportPasses ==
  ASSUME IInv, VisitDpiImport
  PROVE  PassesOn
<1> DEFINE n == Arg
           line == <<Do("declarationLine", 0)>>
           kids == [k \in DOMAIN Kids(n) |-> Do("importPorts", Kids(n)[k])]
           m == Len(Kids(n)) + 1
<1>1. /\ Calling("visit") /\ Kind(n) = "DPIImport" /\ Kind(n) # "Header"
      /\ Continue(pr, line \o EmitAll(Head1(n)) \o kids \o EmitAll(Tail1(n)))
  BY DEF VisitDpiImport, Visiting
<1>2. doc \in Documents /\ n \in DOMAIN doc.nodes /\ IsWellShaped(doc.nodes[n], doc.nodes)
  BY <1>1, VisitedNode
<1>3. Label(n) = <<>> /\ HasPlainOrder(n) /\ "importPorts" \in VisitOps
  BY <1>1, <1>2, PlainNode DEF IsWellShaped, Kind, Label, VisitOps, PlainKinds, StatementKinds
<1>4. m \in Nat /\ m \notin DOMAIN Kids(n)
  BY <1>2, NodeTypes
<1>5. Carries(doc, line, Here(n), Here(n))
  BY Idle, CarryOne
<1>6. Carries(doc, EmitAll(Head1(n)), Here(n), Body(n))
  BY <1>2, <1>3, HeadCarries, LabelCarries
<1>7. Carries(doc, kids, Body(n), KidAt(doc, n, m))
  BY <1>2, <1>3, VisitKidsCarries
<1>8. Carries(doc, EmitAll(Tail1(n)), KidAt(doc, n, m), There(n))
  BY <1>2, <1>3, <1>4, TailCarries
<1> HIDE DEF kids, m, line
<1>9. Carries(doc, line \o EmitAll(Head1(n)) \o kids \o EmitAll(Tail1(n)), Here(n), There(n))
  BY <1>5, <1>6, <1>7, <1>8, CarryOnFour
<1> QED
  BY <1>1, <1>9, VisitPasses

-----------------------------------------------------------------------------
(* Loops over the items of a list. *)

SeparatedLoops == ListLoops \cup {"instance", "declarator"}

\* Where such a loop has got to.
LEMMA ListLoopAt ==
  ASSUME IInv, work # <<>>, Head(work).op \in SeparatedLoops,
         NEW a, NEW b, Spans(doc, Head(work), a, b)
  PROVE  /\ doc \in Documents /\ Arg \in DOMAIN doc.nodes /\ Kind(Arg) \in SeparatedKinds
         /\ Tail1(Arg) # <<>>
         /\ Head(work).i \in Nat
         /\ a = KidAt(doc, Arg, Head(work).i) /\ b = There(Arg)
         /\ Suits(doc, Head(work).op, Arg)
         /\ Head(work).i > Unseparated(doc.nodes[Arg], doc.nodes)
         /\ GoesOn(doc, Head(work).op, Arg, Head(work).i + 1)
<1> DEFINE op == Head(work).op
           i == Head(work).i
<1>1. op \in LoopOps /\ op \in NodeOps /\ op \in ClosingOps
  BY DEF SeparatedLoops, ListLoops, LoopOps, NodeOps, ListOps, KindOps, ClosingOps
<1>2. doc \in Documents /\ Arg \in DOMAIN doc.nodes /\ i \in Nat /\ Tail1(Arg) # <<>>
  BY <1>1, CallTypes
<1>3. a = KidAt(doc, Arg, i) /\ b = There(Arg) /\ GoesOn(doc, op, Arg, i)
  BY <1>1, SpansRules DEF Arg, There
<1>4. Suits(doc, op, Arg) /\ i > Unseparated(doc.nodes[Arg], doc.nodes)
  BY <1>3 DEF GoesOn
<1>5. Unseparated(doc.nodes[Arg], doc.nodes) \in {0, 1}
  BY DEF Unseparated
<1>6. i + 1 > Unseparated(doc.nodes[Arg], doc.nodes) /\ i + 1 \in Nat
  BY <1>2, <1>4, <1>5
<1>7. GoesOn(doc, op, Arg, i + 1)
  BY <1>4, <1>6 DEF GoesOn
<1>8. Kind(Arg) \in SeparatedKinds
  BY <1>4 DEF Suits, SeparatedLoops, ListLoops, SeparatedKinds, Kind
<1> QED
  BY <1>2, <1>3, <1>4, <1>7, <1>8

\* An item, its comma and the rest of the list.
LEMMA ListItemCarries ==
  ASSUME IInv, work # <<>>, Head(work).op \in SeparatedLoops,
         NEW a, NEW b, Spans(doc, Head(work), a, b),
         Head(work).i \in DOMAIN Kids(Arg)
  PROVE  LET kid  == Kids(Arg)[Head(work).i]
             next == DoNth(Head(work).op, Arg, Head(work).i + 1)
         IN  /\ Carries(doc, <<Do("visit", kid)>> \o Commas(Arg, Head(work).i) \o <<next>>, a, b)
             /\ Carries(doc, <<Do("portItem", 0), Do("visit", kid), Do("portItemDone", 0)>>
                               \o Commas(Arg, Head(work).i) \o <<next>>, a, b)
<1> DEFINE i == Head(work).i
           kid == Kids(Arg)[i]
           next == DoNth(Head(work).op, Arg, i + 1)
           place == KidAt(doc, Arg, i + 1)
           item == <<Do("portItem", 0), Do("visit", kid), Do("portItemDone", 0)>>
<1>1. /\ doc \in Documents /\ Arg \in DOMAIN doc.nodes /\ Kind(Arg) \in SeparatedKinds
      /\ a = KidAt(doc, Arg, i) /\ b = There(Arg)
      /\ i > Unseparated(doc.nodes[Arg], doc.nodes)
      /\ GoesOn(doc, Head(work).op, Arg, i + 1)
  BY ListLoopAt
<1>2. a = Here(kid)
  BY <1>1, KidOrder
<1>3. Carries(doc, Commas(Arg, i), There(kid), place)
  BY <1>1, ListOrder
<1>4. Head(work).op \in LoopOps
  BY DEF SeparatedLoops, ListLoops, LoopOps
<1>5. Carries(doc, <<next>>, place, b)
  <2>1. Spans(doc, next, place, b)
    BY <1>1, <1>4, NodeSpans DEF There
  <2> QED
    BY <2>1, CarryOne
<1>6. Carries(doc, <<Do("visit", kid)>>, a, There(kid))
  BY <1>2, VisitSpans
<1>7. Carries(doc, item, a, There(kid))
  <2>1. /\ Spans(doc, Do("portItem", 0), Here(kid), Here(kid))
        /\ Spans(doc, Do("visit", kid), Here(kid), There(kid))
        /\ Spans(doc, Do("portItemDone", 0), There(kid), There(kid))
    BY Idle, VisitSpans
  <2> QED
    BY <1>2, <2>1, CarryThree, Zenon
<1> HIDE DEF kid, place, item, next
<1>8. /\ Carries(doc, <<Do("visit", kid)>> \o Commas(Arg, i) \o <<next>>, a, b)
      /\ Carries(doc, item \o Commas(Arg, i) \o <<next>>, a, b)
  BY <1>3, <1>5, <1>6, <1>7, CarryOnThree
<1> QED
  BY <1>8 DEF kid, item, next

\* No item is left.
LEMMA ListClosed ==
  ASSUME IInv, work # <<>>, Head(work).op \in SeparatedLoops,
         NEW a, NEW b, Spans(doc, Head(work), a, b),
         Head(work).i \notin DOMAIN Kids(Arg)
  PROVE  /\ Spans(doc, Do("emitToken", CloseToken(Arg)), a, b)
         /\ Spans(doc, Do("emitToken", CloseToken(Arg)), Mid(CloseToken(Arg)), b)
         /\ Spans(doc, Do("emitEndTokenTrivia", CloseToken(Arg)), a, Mid(CloseToken(Arg)))
         /\ Carries(doc, <<Do("emitToken", CloseToken(Arg))>>, a, b)
<1>1. /\ doc \in Documents /\ Arg \in DOMAIN doc.nodes /\ Kind(Arg) \in SeparatedKinds
      /\ Tail1(Arg) # <<>> /\ Head(work).i \in Nat
      /\ a = KidAt(doc, Arg, Head(work).i) /\ b = There(Arg)
  BY ListLoopAt
<1>2. /\ Spans(doc, Do("emitToken", CloseToken(Arg)), a, b)
      /\ Spans(doc, Do("emitToken", CloseToken(Arg)), Mid(CloseToken(Arg)), b)
      /\ Spans(doc, Do("emitEndTokenTrivia", CloseToken(Arg)), a, Mid(CloseToken(Arg)))
  BY <1>1, CloseList
<1> QED
  BY <1>2, CarryOne

\* Between items that all are separated stand the commas of the list.
LEMMA CommasOf ==
  ASSUME NEW n, NEW i \in Nat, Unseparated(doc.nodes[n], doc.nodes) = 0
  PROVE  Commas(n, i) = Comma(n, i)
<1>1. i - 0 = i
  OBVIOUS
<1> QED
  BY <1>1 DEF Commas

\* The loops over lists.
LEMMA ListUnseparated ==
  ASSUME NEW op \in ListLoops, NEW n, Suits(doc, op, n)
  PROVE  Unseparated(doc.nodes[n], doc.nodes) = 0 /\ Kind(n) \in ListKinds
<1>1. Kind(n) \in ListKinds
  BY DEF Suits, ListLoops, ListKinds, Kind
<1> QED
  BY <1>1, ListSpans

\* An item of a list all of whose items are separated.
LEMMA ListItemPasses ==
  ASSUME IInv, work # <<>>, Head(work).op \in ListLoops,
         Head(work).i \in DOMAIN Kids(Arg), NEW p, Silent(pr, p),
         LET kid  == Kids(Arg)[Head(work).i]
             next == DoNth(Head(work).op, Arg, Head(work).i + 1)
         IN  \/ Continue(p, <<Do("visit", kid)>> \o Comma(Arg, Head(work).i) \o <<next>>)
             \/ Continue(p, <<Do("portItem", 0), Do("visit", kid), Do("portItemDone", 0)>>
                              \o Comma(Arg, Head(work).i) \o <<next>>)
  PROVE  PassesOn
<1> DEFINE i == Head(work).i
           kid == Kids(Arg)[i]
           next == DoNth(Head(work).op, Arg, i + 1)
           one == <<Do("visit", kid)>> \o Comma(Arg, i) \o <<next>>
           two == <<Do("portItem", 0), Do("visit", kid), Do("portItemDone", 0)>>
                    \o Comma(Arg, i) \o <<next>>
<1>1. Head(work).op \in SeparatedLoops
  BY DEF SeparatedLoops
<1>2. ASSUME NEW a, NEW b, Spans(doc, Head(work), a, b)
      PROVE  Carries(doc, one, a, b) /\ Carries(doc, two, a, b)
  <2>1. Suits(doc, Head(work).op, Arg) /\ i \in Nat
    BY <1>1, <1>2, ListLoopAt
  <2>2. Commas(Arg, i) = Comma(Arg, i)
    BY <2>1, ListUnseparated, CommasOf
  <2> QED
    BY <1>1, <1>2, <2>2, ListItemCarries
<1>3. Continue(p, one) \/ Continue(p, two)
  OBVIOUS
<1> HIDE DEF one, two
<1> QED
  BY <1>2, <1>3, PassesBy

\* At its end a list is closed.
LEMMA ListEndPasses ==
  ASSUME IInv, work # <<>>, Head(work).op \in SeparatedLoops,
         Head(work).i \notin DOMAIN Kids(Arg),
         NEW p, Silent(pr, p), Continue(p, <<Do("emitToken", CloseToken(Arg))>>)
  PROVE  PassesOn
<1>1. \A a, b : Spans(doc, Head(work), a, b) =>
        Carries(doc, <<Do("emitToken", CloseToken(Arg))>>, a, b)
  BY ListClosed
<1> QED
  BY <1>1, PassesBy

LEMMA PlainPortPasses ==
  ASSUME IInv, NextPlainPort \/ NextListedItem
  PROVE  PassesOn
<1>1. Silent(pr, pr)
  BY PrimarySilent DEF IInv
<1>2. /\ work # <<>> /\ Head(work).op \in ListLoops /\ Head(work).op \in SeparatedLoops
  BY DEF NextPlainPort, NextListedItem, Calling, SeparatedLoops, ListLoops
<1>3. CASE Head(work).i \in DOMAIN Kids(Arg)
  BY <1>1, <1>2, <1>3, ListItemPasses DEF NextPlainPort, NextListedItem, Calling
<1>4. CASE Head(work).i \notin DOMAIN Kids(Arg)
  BY <1>1, <1>2, <1>4, ListEndPasses DEF NextPlainPort, NextListedItem
<1> QED
  BY <1>3, <1>4

LEMMA InstancePasses ==
  ASSUME IInv, NextInstance
  PROVE  PassesOn
<1> DEFINE i == Head(work).i
           params == Kind(Kids(Arg)[1]) = "ParameterValueAssignment"
           calls == <<Do("visit", Kids(Arg)[i])>>
                      \o Comma(Arg, IF params THEN i - 1 ELSE i)
                      \o <<DoNth("instance", Arg, i + 1)>>
<1>1. Silent(pr, pr)
  BY PrimarySilent DEF IInv
<1>2. work # <<>> /\ Head(work).op = "instance" /\ Head(work).op \in SeparatedLoops
  BY DEF NextInstance, Calling, SeparatedLoops
<1>3. CASE i \in DOMAIN Kids(Arg)
  <2>1. Continue(pr, calls)
    BY <1>3 DEF NextInstance
  <2>2. ASSUME NEW a, NEW b, Spans(doc, Head(work), a, b)
        PROVE  Carries(doc, calls, a, b)
    <3>1. /\ Suits(doc, "instance", Arg) /\ i \in Nat
          /\ doc \in Documents /\ Arg \in DOMAIN doc.nodes
      BY <1>2, <2>2, ListLoopAt
    <3>2. Kind(Arg) = "HierarchyInstantiation"
      BY <3>1 DEF Suits, Kind
    <3>3. Kids(Arg) # <<>>
      BY <1>3
    <3>4. Unseparated(doc.nodes[Arg], doc.nodes) = IF params THEN 1 ELSE 0
      BY <3>2, <3>3 DEF Unseparated, Kind, Kids, DeclaratorKinds
    <3>5. Commas(Arg, i) = Comma(Arg, IF params THEN i - 1 ELSE i)
      BY <3>1, <3>4 DEF Commas
    <3> QED
      BY <1>2, <1>3, <2>2, <3>5, ListItemCarries
  <2> HIDE DEF calls
  <2> QED
    BY <1>1, <1>2, <2>1, <2>2, PassesBy
<1>4. CASE i \notin DOMAIN Kids(Arg)
  BY <1>1, <1>2, <1>4, ListEndPasses DEF NextInstance
<1> QED
  BY <1>3, <1>4

LEMMA DeclaratorPasses ==
  ASSUME IInv, NextDeclarator
  PROVE  PassesOn
<1> DEFINE i == Head(work).i
           p == IF i > 2 /\ pr.atLineStart
                THEN [pr EXCEPT !.currentKind = "Continuation"] ELSE pr
           calls == <<Do("visit", Kids(Arg)[i])>> \o Comma(Arg, i - 1)
                      \o <<DoNth("declarator", Arg, i + 1)>>
<1>1. Silent(pr, pr) /\ Silent(pr, p)
  BY PrimarySilent DEF IInv, Silent, Safe, Printer
<1> HIDE DEF p
<1>2. work # <<>> /\ Head(work).op = "declarator" /\ Head(work).op \in SeparatedLoops
  BY DEF NextDeclarator, Calling, SeparatedLoops
<1>3. CASE i \in DOMAIN Kids(Arg)
  <2>1. Continue(p, calls)
    BY <1>3 DEF NextDeclarator, p
  <2>2. ASSUME NEW a, NEW b, Spans(doc, Head(work), a, b)
        PROVE  Carries(doc, calls, a, b)
    <3>1. Suits(doc, "declarator", Arg)
      BY <1>2, <2>2, ListLoopAt
    <3>2. Unseparated(doc.nodes[Arg], doc.nodes) = 1
      BY <3>1 DEF Suits, Unseparated
    <3>3. Commas(Arg, i) = Comma(Arg, i - 1)
      BY <3>2 DEF Commas
    <3> QED
      BY <1>2, <1>3, <2>2, <3>3, ListItemCarries
  <2> HIDE DEF calls
  <2> QED
    BY <1>1, <1>2, <2>1, <2>2, PassesBy
<1>4. CASE i \notin DOMAIN Kids(Arg)
  BY <1>1, <1>2, <1>4, ListEndPasses DEF NextDeclarator
<1> QED
  BY <1>3, <1>4

-----------------------------------------------------------------------------
(* Lists in parentheses and in braces. *)

\* The closing parenthesis, its trivia before or behind the end of the indentation.
LEMMA ClosePortListCarries ==
  ASSUME NEW n, NEW wrapped, NEW a, NEW b,
         Spans(doc, Do("emitToken", CloseToken(n)), a, b),
         Spans(doc, Do("emitToken", CloseToken(n)), Mid(CloseToken(n)), b),
         Spans(doc, Do("emitEndTokenTrivia", CloseToken(n)), a, Mid(CloseToken(n)))
  PROVE  Carries(doc, ClosePortList(n, wrapped), a, b)
<1> DEFINE close  == CloseToken(n)
           break  == When(wrapped, Do("breakBeforeClose", close))
           trivia == <<Do("portItem", 0), Do("emitEndTokenTrivia", close),
                       Do("portItemDone", 0)>>
           end    == <<Do("primary", 0), Do("boundaryLine", 0), Do("emitToken", close)>>
           short  == <<Do("primary", 0), Do("emitToken", close)>>
           dedent == <<Do("dedent", 0)>>
<1>1. \A x : /\ Spans(doc, Do("portItem", 0), x, x) /\ Spans(doc, Do("portItemDone", 0), x, x)
             /\ Spans(doc, Do("primary", 0), x, x) /\ Spans(doc, Do("boundaryLine", 0), x, x)
  BY Idle
<1>2. \A x : Carries(doc, dedent, x, x) /\ Carries(doc, break, x, x)
  BY Idle, CarryOne, CarryWhen
<1>3. Carries(doc, trivia, a, Mid(close))
  BY <1>1, CarryThree, Zenon
<1>4. Carries(doc, end, Mid(close), b)
  BY <1>1, CarryThree, Zenon
<1>5. Carries(doc, short, a, b)
  BY <1>1, CarryTwo, Zenon
<1>6. ClosePortList(n, wrapped) \in
        {dedent \o break \o short, dedent \o break \o trivia \o end,
         trivia \o dedent \o break \o end}
  BY DEF ClosePortList
<1> HIDE DEF close, break, trivia, end, short, dedent
<1>7. Carries(doc, dedent \o break \o short, a, b)
  BY <1>2, <1>5, CarryOnThree
<1>8. /\ Carries(doc, dedent \o break \o trivia \o end, a, b)
      /\ Carries(doc, trivia \o dedent \o break \o end, a, b)
  BY <1>2, <1>3, <1>4, CarryOnFour
<1> QED
  BY <1>6, <1>7, <1>8

LEMMA PortPasses ==
  ASSUME IInv, NextPort
  PROVE  PassesOn
<1> DEFINE i == Head(work).i
<1>1. PICK op \in {"port", "wrappedPort"} :
        /\ Calling(op)
        /\ LET break == /\ op = "wrappedPort"
                        /\ ~pr.atLineStart
                        /\ ~HasLeadingNewline(Tok(First(Kids(Arg)[i])))
           IN  IF i \in DOMAIN Kids(Arg)
               THEN Continue(IF break THEN ForceNewline(pr) ELSE pr,
                             <<Do("portItem", 0), Do("visit", Kids(Arg)[i]),
                               Do("portItemDone", 0)>>
                             \o Comma(Arg, i) \o <<DoNth(op, Arg, i + 1)>>)
               ELSE Continue(pr, ClosePortList(Arg, op = "wrappedPort"))
  BY DEF NextPort
<1>2. /\ work # <<>> /\ Head(work).op = op /\ op \in ListLoops
      /\ Head(work).op \in ListLoops /\ Head(work).op \in SeparatedLoops
  BY <1>1 DEF Calling, ListLoops, SeparatedLoops
<1>3. Silent(pr, pr) /\ Silent(pr, ForceNewline(pr))
  BY SafeWriting, ForceNewlineLays, LaysSilent DEF IInv
<1>4. CASE i \in DOMAIN Kids(Arg)
  BY <1>1, <1>2, <1>3, <1>4, ListItemPasses
<1>5. CASE i \notin DOMAIN Kids(Arg)
  <2>1. Continue(pr, ClosePortList(Arg, op = "wrappedPort"))
    BY <1>1, <1>5
  <2>2. ASSUME NEW a, NEW b, Spans(doc, Head(work), a, b)
        PROVE  Carries(doc, ClosePortList(Arg, op = "wrappedPort"), a, b)
    BY <1>2, <1>5, <2>2, ListClosed, ClosePortListCarries
  <2> QED
    BY <1>2, <1>3, <2>1, <2>2, PassesBy
<1> QED
  BY <1>4, <1>5

\* Breaking the line in front of an item copies nothing.
LEMMA ListItemStart ==
  ASSUME IInv, NEW n, NEW i
  PROVE  Silent(pr, StartListItem(n, i))
<1> DEFINE p == IF BreaksListItem(n, i) THEN ForceNewline(pr) ELSE pr
<1>1. Silent(pr, Primary(p)) /\ Writing(Primary(p))
  BY SafeWriting, ForceNewlineLays, LaysSilent DEF IInv
<1>2. StartListItem(n, i) \in {Primary(p), [Primary(p) EXCEPT !.nextLineKind = "DistItem"]}
  BY DEF StartListItem
<1> HIDE DEF p
<1> QED
  BY <1>1, <1>2 DEF Silent, Primary, Writing

LEMMA BraceItemPasses ==
  ASSUME IInv, NextListItem
  PROVE  PassesOn
<1> DEFINE i == Head(work).i
           close == CloseToken(Arg)
           first == <<Do("dedent", 0), Do("breakBeforeClose", close)>>
           trivia == When(Kind(Arg) # "FunctionPortList", Do("emitEndTokenTrivia", close))
           end == <<Do("primary", 0), Do("emitToken", close)>>
<1>1. /\ work # <<>> /\ Head(work).op = "listItem"
      /\ Head(work).op \in ListLoops /\ Head(work).op \in SeparatedLoops
  BY DEF NextListItem, Calling, ListLoops, SeparatedLoops
<1>2. CASE i \in DOMAIN Kids(Arg)
  <2>1. Silent(pr, StartListItem(Arg, i))
    BY ListItemStart
  <2>2. Continue(StartListItem(Arg, i),
                 <<Do("visit", Kids(Arg)[i])>> \o Comma(Arg, i)
                   \o <<DoNth("listItem", Arg, i + 1)>>)
    BY <1>2 DEF NextListItem
  <2> QED
    BY <1>1, <1>2, <2>1, <2>2, ListItemPasses
<1>3. CASE i \notin DOMAIN Kids(Arg)
  <2>1. Continue(pr, first \o trivia \o end)
    BY <1>3 DEF NextListItem
  <2>2. ASSUME NEW a, NEW b, Spans(doc, Head(work), a, b)
        PROVE  Carries(doc, first \o trivia \o end, a, b)
    <3> DEFINE m == IF Kind(Arg) # "FunctionPortList" THEN Mid(close) ELSE a
    <3>1. /\ Spans(doc, Do("emitToken", close), a, b)
          /\ Spans(doc, Do("emitToken", close), Mid(close), b)
          /\ Spans(doc, Do("emitEndTokenTrivia", close), a, Mid(close))
      BY <1>1, <1>3, <2>2, ListClosed
    <3>2. Carries(doc, first, a, a)
      BY Idle, CarryTwo
    <3>3. Carries(doc, trivia, a, m)
      BY <3>1, CarryNone, CarryOne DEF When
    <3>4. Carries(doc, end, m, b)
      <4>1. Spans(doc, Do("primary", 0), m, m)
        BY Idle
      <4>2. Spans(doc, Do("emitToken", close), m, b)
        BY <3>1
      <4> QED
        BY <4>1, <4>2, CarryTwo
    <3> HIDE DEF m, first, trivia, end
    <3> QED
      BY <3>2, <3>3, <3>4, CarryOnThree
  <2>3. Silent(pr, pr)
    BY PrimarySilent DEF IInv
  <2> HIDE DEF first, trivia, end
  <2> QED
    BY <1>1, <2>1, <2>2, <2>3, PassesBy
<1> QED
  BY <1>2, <1>3

-----------------------------------------------------------------------------
(* What opens the lists. *)

\* The tokens up to the opening parenthesis.
LEMMA OpenPortListCarries ==
  ASSUME doc \in Documents, NEW n \in DOMAIN doc.nodes, Kind(n) \in PortListKinds
  PROVE  Carries(doc, OpenPortList(n), Here(n), Body(n))
<1> DEFINE head == Head1(n)
<1>1. IsWellShaped(doc.nodes[n], doc.nodes) /\ head \in Seq(DOMAIN doc.toks)
  BY NodeTypes
<1>2. Label(n) = <<>> /\ head # <<>>
  BY <1>1 DEF IsWellShaped, Kind, Label, Head1, PortListKinds, StatementKinds
<1>3. /\ First(n) \in Nat /\ InRow(head, First(n))
      /\ Body(n) = At(First(n) + Len(head)) /\ Here(n) = At(First(n))
  BY <1>2, HeadOrder DEF Body, Here
<1>4. Carries(doc, EmitAll(head), Here(n), Body(n))
  BY <1>2, HeadCarries, LabelCarries
<1>5. head[1] = First(n) /\ Tail(head) \in Seq(DOMAIN doc.toks)
      /\ Len(Tail(head)) = Len(head) - 1 /\ InRow(Tail(head), First(n) + 1)
  BY <1>1, <1>2, <1>3, RowParts
<1>6. \A want, tok, a : Carries(doc, <<SpaceBefore(want, tok)>>, a, a)
  <2>1. {"spaceBefore", "noSpaceBefore"} \subseteq IdleOps
    BY DEF IdleOps
  <2> QED
    BY <2>1, IdleSpans, CarryOne DEF SpaceBefore
<1>7. CASE Kind(n) = "ModportItem"
  <2>1. Len(head) = 2
    BY <1>1, <1>7 DEF IsWellShaped, Kind, Head1
  <2>2. head[2] = First(n) + 1
    BY <1>3, <2>1 DEF InRow
  <2>3. OpenPortList(n) = <<Do("emitToken", head[1]), Do("stripSpaces", 0),
                            Do("emitToken", head[2])>>
    BY <1>7 DEF OpenPortList
  <2>4. /\ Spans(doc, Do("emitToken", First(n)), At(First(n)), At(First(n) + 1))
        /\ Spans(doc, Do("stripSpaces", 0), At(First(n) + 1), At(First(n) + 1))
        /\ Spans(doc, Do("emitToken", First(n) + 1), At(First(n) + 1),
                 At((First(n) + 1) + 1))
    BY TokenSpans, Idle
  <2>5. (First(n) + 1) + 1 = First(n) + Len(head)
    BY <1>3, <2>1
  <2> HIDE DEF head
  <2>6. Carries(doc, <<Do("emitToken", First(n)), Do("stripSpaces", 0),
                       Do("emitToken", First(n) + 1)>>, At(First(n)),
                At((First(n) + 1) + 1))
    BY <2>4, CarryThree, Zenon
  <2> QED
    BY <1>3, <1>5, <2>2, <2>3, <2>5, <2>6
<1>8. CASE Kind(n) \in {"ParameterPortList", "ParameterValueAssignment"}
  <2>1. OpenPortList(n) = <<SpaceBefore(pr.style.SpaceBeforeParameterList, head[1])>>
                            \o EmitAll(head)
    BY <1>8 DEF OpenPortList
  <2> QED
    BY <1>4, <1>6, <2>1, CarryOn
<1>9. CASE Kind(n) = "FunctionPortList"
  BY <1>4, <1>9 DEF OpenPortList
<1>10. CASE Kind(n) \in {"AnsiPortList", "NonAnsiPortList", "HierarchicalInstance"}
  <2> DEFINE named == Len(head) = 2 /\ Kind(n) = "HierarchicalInstance"
             rest == IF named THEN Tail(head) ELSE head
             name == IF rest = head THEN <<>>
                     ELSE <<Do("instanceSpace", head[1]), Do("emitToken", head[1])>>
             space == <<SpaceBefore(pr.style.SpaceBeforePortList, rest[1])>>
  <2>1. OpenPortList(n) = name \o space \o EmitAll(rest)
    BY <1>10 DEF OpenPortList
  <2>2. CASE named
    <3>1. rest # head
      <4>1. Len(head) \in Nat /\ rest = Tail(head)
        BY <1>1, <2>2
      <4>2. Len(rest) # Len(head)
        BY <1>5, <4>1
      <4> QED
        BY <4>2
    <3>2. name = <<Do("instanceSpace", First(n)), Do("emitToken", First(n))>>
      BY <1>5, <3>1
    <3>3. Carries(doc, name, At(First(n)), At(First(n) + 1))
      BY <3>2, Idle, TokenSpans, CarryTwo
    <3>4. First(n) + 1 \in Nat /\ (First(n) + 1) + Len(rest) = First(n) + Len(head)
      <4>1. Len(head) \in Nat /\ rest = Tail(head)
        BY <1>1, <2>2
      <4>2. Len(rest) = Len(head) - 1
        BY <1>5, <4>1
      <4>3. First(n) \in Nat
        BY <1>3
      <4>4. \A f, l, r \in Nat : r = l - 1 => f + 1 \in Nat /\ (f + 1) + r = f + l
        OBVIOUS
      <4>5. Len(rest) \in Nat
        BY <1>5, <2>2
      <4> HIDE DEF rest, head
      <4> QED
        BY <4>1, <4>2, <4>3, <4>4, <4>5
    <3>5. Carries(doc, EmitAll(rest), At(First(n) + 1), At((First(n) + 1) + Len(rest)))
      BY <1>5, <2>2, <3>4, EmitAllCarries
    <3> HIDE DEF name, space, rest
    <3>6. Carries(doc, space, At(First(n) + 1), At(First(n) + 1))
      BY <1>6 DEF space
    <3>7. Carries(doc, name \o space \o EmitAll(rest), At(First(n)),
                  At((First(n) + 1) + Len(rest)))
      BY <3>3, <3>5, <3>6, CarryOnThree
    <3> QED
      BY <1>3, <2>1, <3>4, <3>7
  <2>3. CASE ~named
    <3>1. rest = head /\ name = <<>>
      BY <2>3
    <3>2. Carries(doc, name, Here(n), Here(n))
      BY <3>1, CarryNone
    <3> HIDE DEF name, space, rest
    <3>3. Carries(doc, space, Here(n), Here(n))
      BY <1>6 DEF space
    <3>4. Carries(doc, EmitAll(rest), Here(n), Body(n))
      BY <1>4, <3>1
    <3>5. Carries(doc, name \o space \o EmitAll(rest), Here(n), Body(n))
      BY <3>2, <3>3, <3>4, CarryOnThree
    <3> QED
      BY <2>1, <3>5
  <2> QED
    BY <2>2, <2>3
<1> QED
  BY <1>7, <1>8, <1>9, <1>10 DEF PortListKinds

\* A list that is opened by its head and gone through item by item.
LEMMA OpenedListCarries ==
  ASSUME doc \in Documents, NEW n \in DOMAIN doc.nodes, Kind(n) \in ListKinds,
         NEW op \in ListLoops
  PROVE  /\ Carries(doc, <<DoNth(op, n, 1)>>, Body(n), There(n))
         /\ Carries(doc, <<Do("indent", 0), DoNth(op, n, 1)>>, Body(n), There(n))
         /\ Carries(doc, <<Do("indent", 0), Do("portList", n)>>, Body(n), There(n))
<1>1. Kind(n) \in SeparatedKinds
  BY DEF ListKinds
<1>2. KidAt(doc, n, 1) = Body(n)
  BY <1>1, ListOrder DEF Body
<1>3. 1 \in Nat /\ 1 # 0
  OBVIOUS
<1>4. Spans(doc, DoNth(op, n, 1), Body(n), There(n))
      /\ Spans(doc, Do("portList", n), Body(n), There(n))
  BY <1>2, <1>3, ListSpans
<1> QED
  BY <1>4, Idle, CarryOne, CarryTwo

LEMMA PortListPasses ==
  ASSUME IInv, VisitPortList
  PROVE  PassesOn
<1> DEFINE n == Arg
           list == <<Do("indent", 0), Do("portList", n)>>
           wrapped == <<Do("indent", 0), DoNth("wrappedPort", n, 1)>>
           Opens ==
             /\ work # <<>> /\ Head(work).op \in VisitOps /\ Kind(n) \in PortListKinds
             /\ \/ Continue(pr, OpenPortList(n) \o list)
                \/ Continue(pr, OpenPortList(n) \o wrapped)
<1>1. Opens
  <2>1. ASSUME NEW kind \in PortListKinds \ {"FunctionPortList"}, Visiting(kind),
               Continue(pr, OpenPortList(n) \o list)
        PROVE  Opens
    BY <2>1 DEF Visiting, Calling, VisitOps
  <2>2. ASSUME Calling("visitExpanded"), Continue(pr, OpenPortList(n) \o wrapped)
        PROVE  Opens
    <3>1. work # <<>> /\ Head(work).op = "visitExpanded" /\ Head(work).op \in KindOps
      BY <2>2 DEF Calling, KindOps
    <3>2. Kind(n) \in KindsFor("visitExpanded")
      BY <3>1, CallTypes
    <3> QED
      BY <2>2, <3>1, <3>2 DEF KindsFor, PortListKinds, VisitOps
  <2> QED
    BY <2>1, <2>2 DEF VisitPortList
<1>2. Head(work).op \in NodeOps /\ Kind(n) # "Header" /\ Kind(n) \in ListKinds
  BY <1>1 DEF VisitOps, NodeOps, KindOps, ListKinds, SeparatedKinds, PortListKinds,
              DeclaratorKinds
<1>3. doc \in Documents /\ n \in DOMAIN doc.nodes
  BY <1>1, <1>2, CallTypes
<1>4. Carries(doc, OpenPortList(n), Here(n), Body(n))
  BY <1>1, <1>3, OpenPortListCarries
<1>5. Carries(doc, list, Body(n), There(n)) /\ Carries(doc, wrapped, Body(n), There(n))
  <2>1. "wrappedPort" \in ListLoops
    BY DEF ListLoops
  <2> QED
    BY <1>2, <1>3, <2>1, OpenedListCarries
<1> HIDE DEF list, wrapped
<1>6. /\ Carries(doc, OpenPortList(n) \o list, Here(n), There(n))
      /\ Carries(doc, OpenPortList(n) \o wrapped, Here(n), There(n))
  BY <1>4, <1>5, CarryOn
<1>7. Silent(pr, pr)
  BY PrimarySilent DEF IInv
<1> QED
  BY <1>1, <1>2, <1>6, <1>7, NodePasses

-----------------------------------------------------------------------------
(* Instantiations, ports of functions, declarations. *)

LEMMA StartPortsPasses ==
  ASSUME IInv, StartPorts
  PROVE  PassesOn
<1> DEFINE n == Arg
<1>1. PICK op \in {"port", "wrappedPort"} : Continue(pr, <<DoNth(op, n, 1)>>)
  BY DEF StartPorts
<1>2. /\ work # <<>> /\ Head(work).op = "portList" /\ Head(work).op \in FirstOps
      /\ Head(work).op \in NodeOps /\ op \in ListLoops
  BY DEF StartPorts, Calling, FirstOps, NodeOps, ListOps, ListLoops
<1>3. doc \in Documents /\ n \in DOMAIN doc.nodes
  BY <1>2, CallTypes
<1>4. ASSUME NEW a, NEW b, Spans(doc, Head(work), a, b)
      PROVE  Carries(doc, <<DoNth(op, n, 1)>>, a, b)
  <2>1. a = KidAt(doc, n, 1) /\ b = There(n) /\ Suits(doc, "portList", n)
    BY <1>2, <1>4, SpansRules DEF Arg, There
  <2>2. Kind(n) \in ListKinds /\ Kind(n) \in SeparatedKinds
    BY <2>1 DEF Suits, ListKinds, Kind
  <2>3. KidAt(doc, n, 1) = Body(n)
    BY <1>3, <2>2, ListOrder DEF Body
  <2> QED
    BY <1>2, <1>3, <2>1, <2>2, <2>3, OpenedListCarries
<1>5. Silent(pr, pr)
  BY PrimarySilent DEF IInv
<1> QED
  BY <1>1, <1>2, <1>4, <1>5, PassesBy

LEMMA InstantiationPasses ==
  ASSUME IInv, VisitInstantiation
  PROVE  PassesOn
<1> DEFINE n == Arg
<1>1. /\ Calling("visit") /\ Kind(n) = "HierarchyInstantiation" /\ Kind(n) # "Header"
      /\ Continue(pr, EmitAll(Head1(n)) \o <<Do("instances", n)>>)
  BY DEF VisitInstantiation, Visiting
<1>2. doc \in Documents /\ n \in DOMAIN doc.nodes /\ IsWellShaped(doc.nodes[n], doc.nodes)
  BY <1>1, VisitedNode
<1>3. Label(n) = <<>> /\ Kind(n) \in SeparatedKinds /\ Suits(doc, "instances", n)
  BY <1>1, <1>2 DEF IsWellShaped, Kind, Label, SeparatedKinds, StatementKinds, Suits
<1>4. KidAt(doc, n, 1) = Body(n)
  BY <1>2, <1>3, ListOrder DEF Body
<1>5. Spans(doc, Do("instances", n), Body(n), There(n))
  BY <1>3, <1>4, NodeSpans DEF There, FirstOps
<1>6. Carries(doc, EmitAll(Head1(n)), Here(n), Body(n))
  BY <1>2, <1>3, HeadCarries, LabelCarries
<1>7. Carries(doc, EmitAll(Head1(n)) \o <<Do("instances", n)>>, Here(n), There(n))
  BY <1>5, <1>6, CarryOne, CarryOn
<1> QED
  BY <1>1, <1>7, VisitPasses

\* The parameters of an instantiation, if there are any, and then its instances.
LEMMA StartInstancesPasses ==
  ASSUME IInv, StartInstances
  PROVE  PassesOn
<1> DEFINE n == Arg
           params == Kids(n) # <<>> /\ Kind(Kids(n)[1]) = "ParameterValueAssignment"
           values(op) == IF params THEN <<Do(op, Kids(n)[1])>> ELSE <<>>
           calls(op) == values(op) \o <<DoNth("instance", n, IF params THEN 2 ELSE 1)>>
<1>1. PICK op \in {"visit", "visitExpanded"} : Continue(pr, calls(op))
  BY DEF StartInstances
<1>2. /\ work # <<>> /\ Head(work).op = "instances" /\ Head(work).op \in FirstOps
      /\ Head(work).op \in NodeOps
  BY DEF StartInstances, Calling, FirstOps, NodeOps, ListOps
<1>3. doc \in Documents /\ n \in DOMAIN doc.nodes
  BY <1>2, CallTypes
<1>4. ASSUME NEW a, NEW b, Spans(doc, Head(work), a, b)
      PROVE  Carries(doc, calls(op), a, b)
  <2> DEFINE k == IF params THEN 2 ELSE 1
  <2>1. a = KidAt(doc, n, 1) /\ b = There(n) /\ Suits(doc, "instances", n)
    BY <1>2, <1>4, SpansRules DEF Arg, There
  <2>2. Kind(n) = "HierarchyInstantiation" /\ Kind(n) \in SeparatedKinds
    BY <2>1 DEF Suits, Kind, SeparatedKinds
  <2>3. Unseparated(doc.nodes[n], doc.nodes) = IF params THEN 1 ELSE 0
    BY <2>2 DEF Unseparated, Kind, Kids, DeclaratorKinds
  <2>4. Carries(doc, <<DoNth("instance", n, k)>>, KidAt(doc, n, k), b)
    <3>1. k \in Nat /\ k > Unseparated(doc.nodes[n], doc.nodes)
      BY <2>3
    <3>2. GoesOn(doc, "instance", n, k)
      BY <2>2, <3>1 DEF GoesOn, Suits, Kind
    <3>3. Spans(doc, DoNth("instance", n, k), KidAt(doc, n, k), b)
      BY <2>1, <3>2, NodeSpans DEF There, LoopOps
    <3> QED
      BY <3>3, CarryOne
  <2>5. Carries(doc, values(op), a, KidAt(doc, n, k))
    <3>1. CASE params
      <4>1. Kids(n) \in Seq(DOMAIN doc.nodes) /\ Kids(n) # <<>>
        BY <1>3, <3>1, NodeTypes
      <4>2. 1 \in DOMAIN Kids(n)
        BY <4>1, EmptySeq
      <4>3. a = Here(Kids(n)[1])
        BY <1>3, <2>1, <4>2, KidOrder
      <4>4. There(Kids(n)[1]) = KidAt(doc, n, 2)
        BY <1>3, <2>2, <2>3, <3>1, <4>2, ListOrder
      <4>5. Spans(doc, Do(op, Kids(n)[1]), a, KidAt(doc, n, 2))
        BY <4>3, <4>4, VisitSpans
      <4> QED
        BY <3>1, <4>5, CarryOne
    <3>2. CASE ~params
      BY <2>1, <3>2, CarryNone
    <3> QED
      BY <3>1, <3>2
  <2>6. calls(op) = values(op) \o <<DoNth("instance", n, k)>>
    OBVIOUS
  <2> HIDE DEF values, calls, k, params
  <2> QED
    BY <2>4, <2>5, <2>6, CarryOn
<1>5. Silent(pr, pr)
  BY PrimarySilent DEF IInv
<1> HIDE DEF calls
<1> QED
  BY <1>1, <1>2, <1>4, <1>5, PassesBy

\* A list that is opened by its head.
LEMMA ListHeadCarries ==
  ASSUME doc \in Documents, NEW n \in DOMAIN doc.nodes, Kind(n) \in ListKinds,
         NEW op \in ListLoops
  PROVE  /\ Label(n) = <<>>
         /\ Carries(doc, EmitAll(Head1(n)) \o <<DoNth(op, n, 1)>>, Here(n), There(n))
         /\ Carries(doc, EmitAll(Head1(n)) \o <<Do("indent", 0), DoNth(op, n, 1)>>,
                    Here(n), There(n))
<1>1. Label(n) = <<>>
  BY NodeTypes
     DEF IsWellShaped, Kind, Label, ListKinds, SeparatedKinds, StatementKinds,
         PortListKinds, ItemListKinds, DeclaratorKinds
<1>2. Carries(doc, EmitAll(Head1(n)), Here(n), Body(n))
  BY <1>1, HeadCarries, LabelCarries
<1>3. /\ Carries(doc, <<DoNth(op, n, 1)>>, Body(n), There(n))
      /\ Carries(doc, <<Do("indent", 0), DoNth(op, n, 1)>>, Body(n), There(n))
  BY OpenedListCarries
<1> QED
  BY <1>1, <1>2, <1>3, CarryOn

LEMMA FunctionPortsPasses ==
  ASSUME IInv, VisitFunctionPorts
  PROVE  PassesOn
<1> DEFINE n == Arg
           wrapped == EmitAll(Head1(n)) \o <<Do("indent", 0), DoNth("wrappedPort", n, 1)>>
           plain == EmitAll(Head1(n)) \o <<DoNth("plainPort", n, 1)>>
<1>1. /\ Calling("visit") /\ Kind(n) = "FunctionPortList" /\ Kind(n) # "Header"
      /\ Continue(pr, wrapped) \/ Continue(pr, plain)
  BY DEF VisitFunctionPorts, Visiting
<1>2. doc \in Documents /\ n \in DOMAIN doc.nodes
  BY <1>1, VisitedNode
<1>3. Kind(n) \in ListKinds /\ {"wrappedPort", "plainPort"} \subseteq ListLoops
  BY <1>1 DEF ListKinds, SeparatedKinds, PortListKinds, DeclaratorKinds, ListLoops
<1>4. Carries(doc, wrapped, Here(n), There(n)) /\ Carries(doc, plain, Here(n), There(n))
  BY <1>2, <1>3, ListHeadCarries
<1> HIDE DEF wrapped, plain
<1> QED
  BY <1>1, <1>4, VisitPasses

LEMMA BraceListPasses ==
  ASSUME IInv, VisitEnum \/ VisitDist
  PROVE  PassesOn
<1> DEFINE n == Arg
<1>1. /\ Calling("visit") /\ Kind(n) \in {"EnumType", "DistConstraintList"}
      /\ Kind(n) # "Header" /\ Continue(pr, OpenList(n))
  BY DEF VisitEnum, VisitDist, Visiting
<1>2. doc \in Documents /\ n \in DOMAIN doc.nodes
  BY <1>1, VisitedNode
<1>3. Kind(n) \in ListKinds /\ "listItem" \in ListLoops
  BY <1>1 DEF ListKinds, SeparatedKinds, DeclaratorKinds, ListLoops
<1>4. Carries(doc, OpenList(n), Here(n), There(n))
  BY <1>2, <1>3, ListHeadCarries DEF OpenList
<1> QED
  BY <1>1, <1>4, VisitPasses

LEMMA ImportPortsPasses ==
  ASSUME IInv, StartImportPorts
  PROVE  PassesOn
<1> DEFINE n == Arg
           visit == <<Do("visit", n)>>
<1>1. /\ work # <<>> /\ Head(work).op = "importPorts" /\ Head(work).op \in VisitOps
      /\ Head(work).op \in NodeOps /\ Head(work).op \in KindOps
      /\ Continue(pr, OpenList(n)) \/ Continue(pr, visit)
  BY DEF StartImportPorts, Calling, VisitOps, NodeOps, KindOps
<1>2. doc \in Documents /\ n \in DOMAIN doc.nodes /\ Kind(n) \in KindsFor("importPorts")
  BY <1>1, CallTypes
<1>3. Kind(n) \in ListKinds /\ "listItem" \in ListLoops /\ Kind(n) # "Header"
  BY <1>2
     DEF KindsFor, ListKinds, SeparatedKinds, PortListKinds, DeclaratorKinds, ListLoops
<1>4. Carries(doc, OpenList(n), Here(n), There(n))
  BY <1>2, <1>3, ListHeadCarries DEF OpenList
<1>5. Carries(doc, visit, Here(n), There(n))
  BY VisitSpans
<1>6. Silent(pr, pr)
  BY PrimarySilent DEF IInv
<1> HIDE DEF visit
<1> QED
  BY <1>1, <1>3, <1>4, <1>5, <1>6, NodePasses

LEMMA ItemListPasses ==
  ASSUME IInv, VisitItems
  PROVE  PassesOn
<1> DEFINE n == Arg
           line == <<Do("declarationLine", 0)>>
           items == <<DoNth("listedItem", n, 1)>>
<1>1. /\ Calling("visit") /\ Kind(n) \in ItemListKinds
      /\ Continue(pr, line \o EmitAll(Head1(n)) \o items)
  BY DEF VisitItems, Visiting
<1>2. doc \in Documents /\ n \in DOMAIN doc.nodes
  BY <1>1, VisitedNode
<1>3. /\ Kind(n) \in ListKinds /\ "listedItem" \in ListLoops /\ Kind(n) # "Header"
  BY <1>1 DEF ListKinds, SeparatedKinds, ItemListKinds, DeclaratorKinds, ListLoops
<1>4. Carries(doc, line, Here(n), Here(n))
  BY Idle, CarryOne
<1>5. Carries(doc, EmitAll(Head1(n)), Here(n), Body(n))
  BY <1>2, <1>3, ListHeadCarries, HeadCarries, LabelCarries
<1>6. Carries(doc, items, Body(n), There(n))
  BY <1>2, <1>3, OpenedListCarries
<1> HIDE DEF line, items
<1>7. Carries(doc, line \o EmitAll(Head1(n)) \o items, Here(n), There(n))
  BY <1>4, <1>5, <1>6, CarryOnThree
<1> QED
  BY <1>1, <1>3, <1>7, VisitPasses

LEMMA DeclarationPasses ==
  ASSUME IInv, VisitDataDeclaration \/ VisitNetDeclaration \/ VisitPortDeclaration
  PROVE  PassesOn
<1> DEFINE n == Arg
           line == <<Do("declarationLine", 0)>>
           rest == <<Do("visit", Kids(n)[1]), DoNth("declarator", n, 2)>>
<1>1. Calling("visit") /\ Kind(n) \in DeclaratorKinds /\ Continue(pr, AnnouncedType(n))
  BY DEF VisitDataDeclaration, VisitNetDeclaration, VisitPortDeclaration, Visiting,
         DeclaratorKinds
<1>2. doc \in Documents /\ n \in DOMAIN doc.nodes /\ IsWellShaped(doc.nodes[n], doc.nodes)
  BY <1>1, VisitedNode
<1>3. Label(n) = <<>> /\ Kind(n) # "Header" /\ Kind(n) \in SeparatedKinds
      /\ Len(Kids(n)) >= 2
  BY <1>1, <1>2
     DEF IsWellShaped, Kind, Kids, Label, DeclaratorKinds, StatementKinds, SeparatedKinds
<1>4. Unseparated(doc.nodes[n], doc.nodes) = 1
  BY <1>1 DEF Unseparated, Kind
<1>5. 1 \in DOMAIN Kids(n)
  BY <1>2, <1>3, NodeTypes
<1>6. KidAt(doc, n, 1) = Body(n) /\ There(Kids(n)[1]) = KidAt(doc, n, 2)
  BY <1>2, <1>3, <1>4, <1>5, ListOrder DEF Body
<1>7. Here(Kids(n)[1]) = Body(n)
  BY <1>2, <1>5, <1>6, KidOrder
<1>8. Spans(doc, DoNth("declarator", n, 2), KidAt(doc, n, 2), There(n))
  <2>1. GoesOn(doc, "declarator", n, 2)
    BY <1>1, <1>4 DEF GoesOn, Suits, Kind
  <2> QED
    BY <2>1, NodeSpans DEF LoopOps, There
<1>9. Carries(doc, rest, Body(n), There(n))
  BY <1>6, <1>7, <1>8, VisitSpans, CarryTwo
<1>10. Carries(doc, line, Here(n), Here(n))
  BY Idle, CarryOne
<1>11. Carries(doc, EmitAll(Head1(n)), Here(n), Body(n))
  BY <1>2, <1>3, HeadCarries, LabelCarries
<1>12. AnnouncedType(n) = line \o EmitAll(Head1(n)) \o rest
  BY DEF AnnouncedType
<1> HIDE DEF line, rest
<1>13. Carries(doc, AnnouncedType(n), Here(n), There(n))
  BY <1>9, <1>10, <1>11, <1>12, CarryOnThree
<1> QED
  BY <1>1, <1>3, <1>13, VisitPasses

-----------------------------------------------------------------------------
(* Calls that change nothing but the layout. *)

\* A call for layout copies nothing.
LEMMA LayPasses ==
  ASSUME IInv, work # <<>>, Head(work).op \in IdleOps, NEW p, Silent(pr, p), Return(p)
  PROVE  PassesOn
<1>1. Continue(p, <<>>)
  <2>1. Tail(work) \in Seq(Calls)
    BY CallTypes
  <2>2. <<>> \o Tail(work) = Tail(work)
    BY <2>1
  <2> QED
    BY <2>2 DEF Return, Continue
<1>2. \A a, b : Spans(doc, Head(work), a, b) => Carries(doc, <<>>, a, b)
  BY SpansRules, CarryNone
<1> QED
  BY <1>1, <1>2, PassesBy

LEMMA LayoutPasses ==
  ASSUME IInv, Lay \/ FinishBlankLine
  PROVE  PassesOn \/ PassesOver
<1>1. Safe(pr) /\ Writing(pr) /\ Lays(pr, pr)
  BY SafeWriting DEF IInv
<1>2. CASE CallPrimary \/ CallForceNewline
  <2>1. Silent(pr, Primary(pr)) /\ Silent(pr, ForceNewline(pr))
    BY <1>1, ForceNewlineLays, LaysSilent
  <2> QED
    BY <1>2, <2>1, LayPasses
       DEF CallPrimary, CallForceNewline, Calling, IdleOps, PlainOps
<1>3. CASE CallIndent \/ CallDedent
  <2>1. Silent(pr, Indent(pr)) /\ Silent(pr, Dedent(pr))
    BY <1>1 DEF Silent, Indent, Dedent, Writing
  <2> QED
    BY <1>3, <2>1, LayPasses DEF CallIndent, CallDedent, Calling, IdleOps, PlainOps
<1>4. CASE CallLineKind
  <2>1. \A kind : Silent(pr, [pr EXCEPT !.nextLineKind = kind])
    BY <1>1 DEF Silent, Writing
  <2> QED
    BY <1>4, <2>1, LayPasses DEF CallLineKind, Calling, IdleOps, PlainOps
<1>5. CASE CallNormalizeSpaceBefore
  <2>1. \A next, want, suppress : Silent(pr, NormalizeSpaceBefore(pr, next, want, suppress))
    BY <1>1, SpaceBeforeLays, LaysSilent
  <2> QED
    BY <1>5, <2>1, LayPasses DEF CallNormalizeSpaceBefore, Calling, IdleOps
<1>6. CASE CallEnsureSpace
  <2>1. Silent(pr, EnsureSpace(pr)) /\ Silent(pr, EnsureSingleSpace(pr))
    BY <1>1, EnsureLays, LaysSilent
  <2> QED
    BY <1>6, <2>1, LayPasses DEF CallEnsureSpace, Calling, IdleOps, PlainOps
<1>7. CASE CallFreshLine
  <2>1. Silent(pr, Primary(ForceNewline(pr))) /\ Silent(pr, pr)
    BY <1>1, ForceNewlineLays, LaysSilent
  <2> QED
    BY <1>7, <2>1, LayPasses DEF CallFreshLine, Calling, IdleOps, PlainOps
<1>8. CASE ForceStatementBreak \/ BreakConditionalBody
  <2>1. \A tok : Silent(pr, BreakStatement(tok)) /\ Silent(pr, pr)
    BY <1>1, ForceNewlineLays, LaysSilent DEF BreakStatement
  <2> QED
    BY <1>8, <2>1, LayPasses
       DEF ForceStatementBreak, BreakConditionalBody, Calling, IdleOps
<1>9. CASE SkipTrivia
  BY <1>9, SkipTriviaPasses
<1>10. CASE CallBreakBeforeClose
  <2>1. \A close : Silent(pr, BreakBeforeClose(pr, close))
    BY <1>1, BreakBeforeCloseLays, LaysSilent
  <2> QED
    BY <1>10, <2>1, LayPasses DEF CallBreakBeforeClose, Calling, IdleOps
<1>11. CASE CallInstanceSpace \/ CallStripSpaces
  <2>1. Silent(pr, AppendSpaces(pr, 1)) /\ Silent(pr, StripTrailingSpaces(pr)) /\ Silent(pr, pr)
    <3>1. 1 \in Nat
      OBVIOUS
    <3> QED
      BY <1>1, <3>1, AppendSpacesLays, StripLays, LaysSilent
  <2> QED
    BY <1>11, <2>1, LayPasses
       DEF CallInstanceSpace, CallStripSpaces, Calling, IdleOps, PlainOps
<1>12. CASE CallPortItem
  <2>1. /\ Silent(pr, [Primary(pr) EXCEPT !.portItemNextIndent = TRUE])
        /\ Silent(pr, [pr EXCEPT !.portItemNextIndent = FALSE])
    BY <1>1 DEF Silent, Writing, Primary
  <2> QED
    BY <1>12, <2>1, LayPasses DEF CallPortItem, Calling, IdleOps, PlainOps
<1>13. CASE CallWeightSpaces
  <2> DEFINE source == LeadingWhitespaceLength(Tok(Arg))
             n == IF source > 1 THEN source ELSE 1
  <2>1. Silent(pr, AppendSpaces(pr, 1)) /\ Silent(pr, pr)
    <3>1. 1 \in Nat
      OBVIOUS
    <3> QED
      BY <1>1, <3>1, AppendSpacesLays, LaysSilent
  <2>2. Calling("weightSpaces") => Silent(pr, AppendSpaces(StripTrailingSpaces(pr), n))
    <3> SUFFICES ASSUME Calling("weightSpaces")
                 PROVE  Silent(pr, AppendSpaces(StripTrailingSpaces(pr), n))
      OBVIOUS
    <3>1. Arg \in DOMAIN doc.toks /\ doc \in Documents
      BY CallTypes DEF TokenOps, Calling
    <3>2. n \in Nat
      BY <3>1, LeadingWhitespaceLengthType, TokenTypes
    <3> HIDE DEF n
    <3> QED
      BY <1>1, <3>2, StripLays, LaysSilent
  <2> HIDE DEF n, source
  <2> QED
    BY <1>13, <2>1, <2>2, LayPasses
       DEF CallWeightSpaces, Calling, IdleOps, PlainOps, n, source
<1>14. CASE FinishBlankLine
  <2> DEFINE p == IF pr.atLineStart THEN pr ELSE ForceNewline(pr)
             q == [p EXCEPT !.currentKind = "Empty"]
             r == EndLine(q)
             s == [r EXCEPT !.emptyLineCount = pr.style.MaxEmptyLinesToKeep]
  <2>1. Lays(pr, p)
    BY <1>1, ForceNewlineLays
  <2>2. Lays(p, q)
    BY <2>1 DEF Lays, Silent, Writing
  <2>3. Lays(q, r)
    BY <2>2, EndLineLays DEF Lays
  <2>4. Lays(r, s)
    BY <2>3 DEF Lays, Silent, Writing
  <2>5. Return(s) /\ work # <<>> /\ Head(work).op \in IdleOps
    BY <1>14 DEF FinishBlankLine, Calling, IdleOps
  <2> HIDE DEF p, q, r, s
  <2>6. Silent(pr, s)
    BY <2>1, <2>2, <2>3, <2>4, LaysTwice, LaysSilent
  <2> QED
    BY <2>5, <2>6, LayPasses
<1> QED
  BY <1>2, <1>3, <1>4, <1>5, <1>6, <1>7, <1>8, <1>9, <1>10, <1>11, <1>12, <1>13, <1>14
     DEF Lay

-----------------------------------------------------------------------------
(* Handlers and loops. *)

\* Every visit and every loop passes its part of the copy on.
LEMMA VisitPassesOn ==
  ASSUME IInv, NothingLeftOut, Visit
  PROVE  PassesOn \/ PassesOver
BY LeafPasses, BlockPasses, LoopPasses, DoWhilePasses, ConditionalPasses, CasePasses,
   CaseItemPasses, AssertionPasses, TimingPasses, ProductionPasses, RsCasePasses,
   ProceduralPasses, TimeUnitsPasses, FunctionPasses, ScopePasses, GeneratePasses,
   ModulePasses, ConstraintPasses, ConstraintBlockPasses, HeaderPasses, ChildlessPasses,
   PortListPasses, InstantiationPasses, FunctionPortsPasses, WalkPasses, ItemListPasses,
   DeclarationPasses, BraceListPasses, DistWeightPasses, DpiImportPasses, CoverPasses
   DEF Visit

LEMMA LoopPassesOn ==
  ASSUME IInv, NothingLeftOut, Loop
  PROVE  PassesOn \/ PassesOver
BY BlockItemPasses, MemberPasses, ModuleMemberPasses, ConstraintItemPasses, RsItemPasses,
   StartPortsPasses, PortPasses, PlainPortPasses, StartInstancesPasses, InstancePasses,
   DeclaratorPasses, ImportPortsPasses, BraceItemPasses, CoverItemsPasses, InlineItemPasses,
   CloseScopePasses
   DEF Loop

-----------------------------------------------------------------------------
(* What has been copied in front of a trivia or a token. *)

Places == Nat \X Nat

Size(i) == Len(Tok(i).trivia)

\* The content in front of token i and among the first j of its trivia.
UpTo(i, j) == FirstContents(doc, i - 1) \o TriviaTexts(doc, i, j)

\* There is more to come.
Starts(s) == \E rest \in Seq(Places) : Contents(doc) = s \o rest

\* Facts about sequences of places that the provers need told.
LEMMA PlaceSequences ==
  /\ <<>> \in Seq(Places)
  /\ \A s \in Seq(Places) : s \o <<>> = s /\ <<>> \o s = s
  /\ \A s, t \in Seq(Places) : s \o t \in Seq(Places)
  /\ \A s, t, u \in Seq(Places) : (s \o t) \o u = s \o (t \o u)
  /\ \A i, j \in Nat : <<i, j>> \in Places
  /\ \A e \in Places : <<e>> \in Seq(Places)
  /\ \A s \in Seq(Places) : \A e \in Places :
       Append(s, e) = s \o <<e>> /\ Append(s, e) \in Seq(Places)
<1>1. \A i, j \in Nat : <<i, j>> \in Places
  BY DEF Places
<1> HIDE DEF Places
<1>2. /\ <<>> \in Seq(Places)
      /\ \A s \in Seq(Places) : s \o <<>> = s /\ <<>> \o s = s
  OBVIOUS
<1>3. \A s, t \in Seq(Places) : s \o t \in Seq(Places)
  OBVIOUS
<1>4. \A s, t, u \in Seq(Places) : (s \o t) \o u = s \o (t \o u)
  OBVIOUS
<1>5. \A e \in Places : <<e>> \in Seq(Places)
  OBVIOUS
<1>6. \A s \in Seq(Places) : \A e \in Places :
        Append(s, e) = s \o <<e>> /\ Append(s, e) \in Seq(Places)
  OBVIOUS
<1> QED
  BY <1>1, <1>2, <1>3, <1>4, <1>5, <1>6

\* Tokens and their trivia have numbers.
LEMMA SizeTypes ==
  ASSUME doc \in Documents
  PROVE  /\ doc.toks \in Seq(Token) /\ Len(doc.toks) \in Nat /\ Len(doc.toks) >= 1
         /\ DOMAIN doc.toks = 1..Len(doc.toks)
         /\ \A i \in 1..Len(doc.toks) :
              /\ Len(doc.toks[i].trivia) \in Nat /\ Size(i) \in Nat
              /\ Size(i) = Len(doc.toks[i].trivia)
              /\ DOMAIN Tok(i).trivia = 1..Size(i)
              /\ i - 1 \in Nat /\ i \in Nat
<1>1. doc.toks \in Seq(Token) /\ doc.toks # <<>>
  BY DocumentTypes, DocumentsAssumption DEF IsDocument
<1>2. Len(doc.toks) \in Nat /\ Len(doc.toks) >= 1 /\ DOMAIN doc.toks = 1..Len(doc.toks)
  BY <1>1, EmptySeq
<1>3. \A i \in DOMAIN doc.toks : Tok(i).trivia \in Seq(Trivia)
  BY TokenTypes
<1>4. \A i \in 1..Len(doc.toks) : Size(i) \in Nat /\ DOMAIN Tok(i).trivia = 1..Size(i)
  BY <1>2, <1>3 DEF Size
<1> QED
  BY <1>1, <1>2, <1>4 DEF Size, Tok

\* One more token.
LEMMA ContentsNext ==
  ASSUME doc \in Documents, NEW i \in 1..Len(doc.toks)
  PROVE  /\ FirstContents(doc, i - 1) \in Seq(Places)
         /\ FirstContents(doc, i) \in Seq(Places)
         /\ FirstContents(doc, i) = FirstContents(doc, i - 1) \o Whole(doc, i)
         /\ TriviaTexts(doc, i, Size(i)) \in Seq(Places)
         /\ TokenText(doc, i) \in Seq(Places)
         /\ Whole(doc, i) = TriviaTexts(doc, i, Size(i)) \o TokenText(doc, i)
         /\ Whole(doc, i) \in Seq(Places)
<1> DEFINE n == i - 1
<1>1. n \in Nat /\ i \in Nat /\ n + 1 = i /\ i \in 1..Len(doc.toks) /\ Size(i) \in Nat
      /\ \A k \in 1..(n + 1) : Len(doc.toks[k].trivia) \in Nat
  BY SizeTypes
<1>2. /\ TriviaTexts(doc, i, Size(i)) \in Seq(Places)
      /\ TokenText(doc, i) \in Seq(Places)
      /\ Whole(doc, i) = TriviaTexts(doc, i, Size(i)) \o TokenText(doc, i)
  BY <1>1, TriviaTextsNext, TriviaTextType DEF Places, Whole, Size, Tok
<1> HIDE DEF n
<1>3. /\ FirstContents(doc, n) \in Seq(Places)
      /\ FirstContents(doc, n + 1) = FirstContents(doc, n) \o Whole(doc, n + 1)
  BY <1>1, FirstContentsNext DEF Places
<1>4. Whole(doc, i) \in Seq(Places)
  BY <1>2, PlaceSequences
<1>5. FirstContents(doc, n + 1) \in Seq(Places)
  <2>1. Whole(doc, n + 1) \in Seq(Places)
    BY <1>1, <1>4
  <2> QED
    BY <1>3, <2>1, PlaceSequences
<1> QED
  BY <1>1, <1>2, <1>3, <1>4, <1>5 DEF n

\* The steps of the copy.
LEMMA UpToRules ==
  ASSUME doc \in Documents
  PROVE  /\ UpTo(1, 0) = <<>>
         /\ \A i \in 1..Len(doc.toks) : \A j \in 0..Size(i) : UpTo(i, j) \in Seq(Places)
         /\ \A i \in 1..Len(doc.toks) : \A j \in 1..Size(i) :
              UpTo(i, j) = IF HasText(Tok(i).trivia[j]) THEN Append(UpTo(i, j - 1), <<i, j>>)
                           ELSE UpTo(i, j - 1)
         /\ \A i \in 1..Len(doc.toks) :
              UpTo(i + 1, 0) = IF Tok(i).kind = "EndOfFile" \/ IsExpanded(Tok(i))
                               THEN UpTo(i, Size(i))
                               ELSE Append(UpTo(i, Size(i)), <<i, 0>>)
<1>1. Len(doc.toks) \in Nat /\ Len(doc.toks) >= 1 /\ 0 \in Nat /\ 1 \in 1..Len(doc.toks)
  BY SizeTypes
<1>2. UpTo(1, 0) = <<>>
  <2>1. \A k \in 1..1 : Len(doc.toks[k].trivia) \in Nat
    BY <1>1, SizeTypes
  <2>2. FirstContents(doc, 0) = <<>> /\ TriviaTexts(doc, 1, 0) = <<>>
    <3>1. 1 \in Nat /\ 0 + 1 = 1
      OBVIOUS
    <3> QED
      BY <1>1, <2>1, <3>1, FirstContentsNext, TriviaTextsNext
  <2> QED
    BY <2>2 DEF UpTo
<1>3. ASSUME NEW i \in 1..Len(doc.toks), NEW j \in 0..Size(i)
      PROVE  /\ UpTo(i, j) \in Seq(Places) /\ TriviaTexts(doc, i, j) \in Seq(Places)
  <2>1. i \in Nat /\ j \in Nat /\ FirstContents(doc, i - 1) \in Seq(Places)
    BY SizeTypes, ContentsNext
  <2>2. TriviaTexts(doc, i, j) \in Seq(Places)
    BY <2>1, TriviaTextsNext DEF Places
  <2> QED
    BY <2>1, <2>2 DEF UpTo
<1>4. ASSUME NEW i \in 1..Len(doc.toks), NEW j \in 1..Size(i)
      PROVE  UpTo(i, j) = IF HasText(Tok(i).trivia[j]) THEN Append(UpTo(i, j - 1), <<i, j>>)
                          ELSE UpTo(i, j - 1)
  <2> DEFINE k == j - 1
  <2>1. i \in Nat /\ k \in Nat /\ k + 1 = j /\ k \in 0..Size(i)
    BY SizeTypes
  <2>2. TriviaTexts(doc, i, k + 1) = TriviaTexts(doc, i, k) \o TriviaText(doc, i, k + 1)
    BY <2>1, TriviaTextsNext
  <2>3. /\ FirstContents(doc, i - 1) \in Seq(Places) /\ TriviaTexts(doc, i, k) \in Seq(Places)
        /\ UpTo(i, k) \in Seq(Places)
    BY <1>3, <2>1, ContentsNext
  <2>4. TriviaText(doc, i, j) = IF HasText(Tok(i).trivia[j]) THEN <<<<i, j>>>> ELSE <<>>
    BY DEF TriviaText, Tok
  <2> HIDE DEF k
  <2>5. TriviaTexts(doc, i, j) = TriviaTexts(doc, i, k) \o TriviaText(doc, i, j)
    BY <2>1, <2>2
  <2>6. TriviaText(doc, i, j) \in Seq(Places)
    <3>1. i \in Nat /\ j \in Nat
      BY <2>1
    <3> QED
      BY <3>1, TriviaTextType DEF Places
  <2>7. UpTo(i, j) = UpTo(i, k) \o TriviaText(doc, i, j)
    BY <2>3, <2>5, <2>6 DEF UpTo
  <2>8. <<i, j>> \in Places
    BY <2>1, PlaceSequences
  <2>9. CASE HasText(Tok(i).trivia[j])
    <3>1. UpTo(i, j) = UpTo(i, k) \o <<<<i, j>>>>
      BY <2>4, <2>7, <2>9
    <3> QED
      BY <2>3, <2>8, <2>9, <3>1, PlaceSequences DEF k
  <2>10. CASE ~HasText(Tok(i).trivia[j])
    <3>1. UpTo(i, j) = UpTo(i, k) \o <<>>
      BY <2>4, <2>7, <2>10
    <3> QED
      BY <2>3, <2>10, <3>1, PlaceSequences DEF k
  <2> QED
    BY <2>9, <2>10
<1>5. ASSUME NEW i \in 1..Len(doc.toks)
      PROVE  UpTo(i + 1, 0) = IF Tok(i).kind = "EndOfFile" \/ IsExpanded(Tok(i))
                              THEN UpTo(i, Size(i))
                              ELSE Append(UpTo(i, Size(i)), <<i, 0>>)
  <2>1. /\ i \in Nat /\ i + 1 \in Nat /\ (i + 1) - 1 = i /\ Size(i) \in 0..Size(i)
    BY SizeTypes
  <2>2. /\ FirstContents(doc, i - 1) \in Seq(Places)
        /\ FirstContents(doc, i) \in Seq(Places)
        /\ FirstContents(doc, i) = FirstContents(doc, i - 1) \o Whole(doc, i)
        /\ TriviaTexts(doc, i, Size(i)) \in Seq(Places)
        /\ TokenText(doc, i) \in Seq(Places)
        /\ Whole(doc, i) = TriviaTexts(doc, i, Size(i)) \o TokenText(doc, i)
    BY ContentsNext
  <2>3. TriviaTexts(doc, i + 1, 0) = <<>>
    BY <1>1, <2>1, TriviaTextsNext
  <2>4. UpTo(i + 1, 0) = FirstContents(doc, i)
    <3>1. UpTo(i + 1, 0) = FirstContents(doc, (i + 1) - 1) \o <<>>
      BY <2>3 DEF UpTo
    <3>2. UpTo(i + 1, 0) = FirstContents(doc, i) \o <<>>
      BY <2>1, <3>1
    <3> QED
      BY <2>2, <3>2, PlaceSequences
  <2>5. UpTo(i + 1, 0) = UpTo(i, Size(i)) \o TokenText(doc, i)
    <3> DEFINE A == FirstContents(doc, i - 1)
               B == TriviaTexts(doc, i, Size(i))
               C == TokenText(doc, i)
    <3>1. A \in Seq(Places) /\ B \in Seq(Places) /\ C \in Seq(Places)
          /\ UpTo(i + 1, 0) = A \o (B \o C)
      BY <2>2, <2>4
    <3>2. UpTo(i, Size(i)) = A \o B
      BY DEF UpTo
    <3> HIDE DEF A, B, C
    <3>3. UpTo(i + 1, 0) = (A \o B) \o C
      BY <3>1, PlaceSequences
    <3> QED
      BY <3>2, <3>3 DEF C
  <2>6. UpTo(i, Size(i)) \in Seq(Places)
    BY <1>3, <2>1
  <2>7. TokenText(doc, i) = IF Tok(i).kind = "EndOfFile" \/ IsExpanded(Tok(i)) THEN <<>>
                            ELSE <<<<i, 0>>>>
    BY DEF TokenText, Tok
  <2>8. <<i, 0>> \in Places
    BY <1>1, <2>1, PlaceSequences
  <2>9. CASE Tok(i).kind = "EndOfFile" \/ IsExpanded(Tok(i))
    <3>1. UpTo(i + 1, 0) = UpTo(i, Size(i)) \o <<>>
      BY <2>5, <2>7, <2>9
    <3> QED
      BY <2>6, <2>9, <3>1, PlaceSequences
  <2>10. CASE ~(Tok(i).kind = "EndOfFile" \/ IsExpanded(Tok(i)))
    <3>1. UpTo(i + 1, 0) = UpTo(i, Size(i)) \o <<<<i, 0>>>>
      BY <2>5, <2>7, <2>10
    <3> QED
      BY <2>6, <2>8, <2>10, <3>1, PlaceSequences
  <2> QED
    BY <2>9, <2>10
<1> QED
  BY <1>2, <1>3, <1>4, <1>5

-----------------------------------------------------------------------------
(* What has been copied is how the content starts. *)

\* A beginning of a beginning is a beginning.
LEMMA StartsLess ==
  ASSUME NEW s \in Seq(Places), NEW t \in Seq(Places), Starts(s \o t)
  PROVE  Starts(s)
<1>1. PICK rest \in Seq(Places) : Contents(doc) = (s \o t) \o rest
  BY DEF Starts
<1>2. t \o rest \in Seq(Places) /\ Contents(doc) = s \o (t \o rest)
  BY <1>1
<1> QED
  BY <1>2 DEF Starts

\* The content of the first tokens is one, by induction from the last.
LEMMA FirstStarts ==
  ASSUME doc \in Documents
  PROVE  \A n \in 0..Len(doc.toks) :
           FirstContents(doc, n) \in Seq(Places) /\ Starts(FirstContents(doc, n))
<1> DEFINE N == Len(doc.toks)
           T == {k \in Nat : k <= N => /\ FirstContents(doc, N - k) \in Seq(Places)
                                       /\ Starts(FirstContents(doc, N - k))}
<1>1. N \in Nat /\ N >= 1 /\ N \in 1..N
  BY SizeTypes
<1>2. 0 \in T
  <2>1. FirstContents(doc, N) \in Seq(Places) /\ N - 0 = N
    BY <1>1, ContentsNext
  <2>2. <<>> \in Seq(Places) /\ Contents(doc) = FirstContents(doc, N) \o <<>>
    BY <2>1 DEF Contents
  <2>3. Starts(FirstContents(doc, N))
    BY <2>2 DEF Starts
  <2> QED
    BY <2>1, <2>3
<1>3. ASSUME NEW k \in Nat, k \in T
      PROVE  k + 1 \in T
  <2>1. k + 1 \in Nat
    OBVIOUS
  <2>2. CASE k + 1 <= N
    <3> DEFINE i == N - k
    <3>1. i \in 1..N /\ i - 1 = N - (k + 1) /\ k <= N
      BY <1>1, <2>2
    <3>2. Starts(FirstContents(doc, i))
      BY <1>3, <3>1
    <3> HIDE DEF i
    <3>3. /\ FirstContents(doc, i - 1) \in Seq(Places)
          /\ FirstContents(doc, i) = FirstContents(doc, i - 1) \o Whole(doc, i)
          /\ Whole(doc, i) \in Seq(Places)
      BY <3>1, ContentsNext
    <3>4. Starts(FirstContents(doc, i - 1))
      BY <3>2, <3>3, StartsLess
    <3> QED
      BY <2>1, <3>1, <3>3, <3>4
  <2>3. CASE ~(k + 1 <= N)
    BY <2>1, <2>3
  <2> QED
    BY <2>2, <2>3
<1>4. Nat \subseteq T
  <2> HIDE DEF T
  <2> QED
    BY <1>2, <1>3, Induction
<1>5. ASSUME NEW n \in 0..N
      PROVE  FirstContents(doc, n) \in Seq(Places) /\ Starts(FirstContents(doc, n))
  <2> DEFINE k == N - n
  <2>1. k \in Nat /\ k <= N /\ N - k = n
    BY <1>1
  <2>2. k \in T
    BY <1>4, <2>1
  <2> QED
    BY <2>1, <2>2
<1> QED
  BY <1>5

\* And so is that of the first tokens with some trivia of the next.
LEMMA UpToStarts ==
  ASSUME doc \in Documents
  PROVE  /\ \A i \in 1..Len(doc.toks) : \A j \in 0..Size(i) : Starts(UpTo(i, j))
         /\ \A i \in 1..(Len(doc.toks) + 1) : Starts(UpTo(i, 0)) /\ UpTo(i, 0) \in Seq(Places)
<1>1. Len(doc.toks) \in Nat /\ Len(doc.toks) >= 1
  BY SizeTypes
<1>2. ASSUME NEW i \in 1..Len(doc.toks)
      PROVE  \A j \in 0..Size(i) : Starts(UpTo(i, j))
  <2> DEFINE T == {k \in Nat : k <= Size(i) => Starts(UpTo(i, Size(i) - k))}
  <2>1. Size(i) \in Nat /\ Size(i) \in 0..Size(i)
    BY SizeTypes
  <2>2. 0 \in T
    <3>1. /\ FirstContents(doc, i) = FirstContents(doc, i - 1) \o Whole(doc, i)
          /\ FirstContents(doc, i - 1) \in Seq(Places)
          /\ TriviaTexts(doc, i, Size(i)) \in Seq(Places) /\ TokenText(doc, i) \in Seq(Places)
          /\ Whole(doc, i) = TriviaTexts(doc, i, Size(i)) \o TokenText(doc, i)
      BY ContentsNext
    <3>2. FirstContents(doc, i) = UpTo(i, Size(i)) \o TokenText(doc, i)
      BY <3>1 DEF UpTo
    <3>3. Starts(FirstContents(doc, i))
      BY FirstStarts
    <3>4. UpTo(i, Size(i)) \in Seq(Places)
      BY <2>1, UpToRules
    <3>5. Starts(UpTo(i, Size(i)))
      BY <3>1, <3>2, <3>3, <3>4, StartsLess
    <3>6. Size(i) - 0 = Size(i)
      BY <2>1
    <3> QED
      BY <3>5, <3>6
  <2>3. ASSUME NEW k \in Nat, k \in T
        PROVE  k + 1 \in T
    <3>1. CASE k + 1 <= Size(i)
      <4> DEFINE j == Size(i) - k
      <4>1. j \in 1..Size(i) /\ j - 1 = Size(i) - (k + 1) /\ k <= Size(i)
            /\ j - 1 \in 0..Size(i)
        BY <2>1, <3>1
      <4>2. Starts(UpTo(i, j))
        BY <2>3, <4>1
      <4> HIDE DEF j
      <4>3. UpTo(i, j - 1) \in Seq(Places)
        BY <4>1, UpToRules
      <4>4. UpTo(i, j) = UpTo(i, j - 1) \/ UpTo(i, j) = Append(UpTo(i, j - 1), <<i, j>>)
        BY <4>1, UpToRules
      <4>5. i \in Nat /\ j \in Nat
        BY <4>1, SizeTypes
      <4>6. /\ <<i, j>> \in Places /\ <<<<i, j>>>> \in Seq(Places)
            /\ Append(UpTo(i, j - 1), <<i, j>>) = UpTo(i, j - 1) \o <<<<i, j>>>>
        BY <4>3, <4>5, PlaceSequences
      <4>7. Starts(UpTo(i, j - 1))
        <5>1. CASE UpTo(i, j) = UpTo(i, j - 1)
          BY <4>2, <5>1
        <5>2. CASE UpTo(i, j) = UpTo(i, j - 1) \o <<<<i, j>>>>
          BY <4>2, <4>3, <4>6, <5>2, StartsLess
        <5> QED
          BY <4>4, <4>6, <5>1, <5>2
      <4> QED
        BY <4>1, <4>7
    <3>2. CASE ~(k + 1 <= Size(i))
      BY <3>2
    <3> QED
      BY <3>1, <3>2
  <2>4. Nat \subseteq T
    <3> HIDE DEF T
    <3> QED
      BY <2>2, <2>3, Induction
  <2>5. ASSUME NEW j \in 0..Size(i)
        PROVE  Starts(UpTo(i, j))
    <3> DEFINE k == Size(i) - j
    <3>1. k \in Nat /\ k <= Size(i) /\ Size(i) - k = j
      BY <2>1
    <3>2. k \in T
      BY <2>4, <3>1
    <3> QED
      BY <3>1, <3>2
  <2> QED
    BY <2>5
<1>3. ASSUME NEW i \in 1..(Len(doc.toks) + 1)
      PROVE  Starts(UpTo(i, 0)) /\ UpTo(i, 0) \in Seq(Places)
  <2>1. i - 1 \in 0..Len(doc.toks) /\ i \in Nat /\ 0 \in Nat
    BY <1>1
  <2>2. TriviaTexts(doc, i, 0) = <<>>
    BY <2>1, TriviaTextsNext
  <2>3. FirstContents(doc, i - 1) \in Seq(Places) /\ Starts(FirstContents(doc, i - 1))
    BY <2>1, FirstStarts
  <2>4. UpTo(i, 0) = FirstContents(doc, i - 1)
    BY <2>2, <2>3 DEF UpTo
  <2> QED
    BY <2>3, <2>4
<1> QED
  BY <1>2, <1>3

-----------------------------------------------------------------------------
(* How far the copy is. *)

End == At(Len(doc.toks) + 1)

\* A macro among the first j trivia of token i takes its place.
Expanding(i, j) == \E k \in 1..j : Tok(i).trivia[k].kind = "MacroUsage"

\* What is in front of token i and among the first j of its trivia is copied.
Reads(p, i, j) ==
  /\ Origins(p.output) = UpTo(i, j)
  /\ p.skipExpandedToken <=> Expanding(i, j)

\* Trivia are skipped of the token that comes next.
Skips(p, i) ==
  /\ p.triviaSkip \in Nat
  /\ p.triviaSkip # 0 => i \in DOMAIN doc.toks /\ p.triviaSkip <= Size(i)

\* None of the first n trivia of token i is to be copied.
Blank(i, n) ==
  \A k \in 1..n : ~HasText(Tok(i).trivia[k]) /\ Tok(i).trivia[k].kind # "MacroUsage"

TriviaRow(i, from, to) == [k \in 1..(to - from) |-> DoNth("emitTrivia", i, from + k)]

\* Calls for the trivia from + 1 to to of token i, and then others.
IsRow(w, i, from, to, calls) == w = TriviaRow(i, from, to) \o calls

IsSeq(s) == \E S : s \in Seq(S)

\* In front of token i; what is skipped of it, if anything, needs no copy.
Before(p, w, i) ==
  /\ Carries(doc, w, At(i), End)
  /\ Reads(p, i, 0) /\ Skips(p, i) /\ Blank(i, p.triviaSkip)

\* Among the trivia of token i that are emitted early and then skipped.
Early(p, w, i, j) ==
  \E calls :
    /\ IsRow(w, i, j, p.triviaSkip, calls)
    /\ Carries(doc, calls, Mid(i), End)
    /\ Reads(p, i, j) /\ Skips(p, i) /\ j <= p.triviaSkip

\* Among the trivia that emitToken emits in front of token i.
Finishing(p, w, i, j) ==
  \E calls :
    /\ IsRow(w, i, j, Size(i), <<Do("finishToken", i)>> \o calls)
    /\ Carries(doc, calls, At(i + 1), End)
    /\ Reads(p, i, j) /\ p.triviaSkip = 0
    /\ i \in DOMAIN doc.toks /\ j <= Size(i)

\* Of every document some tokens and trivia, from the first on, are copied, and
\* the calls still to be made copy the others.
CopyInv(p, w) ==
  \E i \in 1..(Len(doc.toks) + 1), j \in Nat :
    \/ j = 0 /\ Before(p, w, i)
    \/ Early(p, w, i, j)
    \/ Finishing(p, w, i, j)

-----------------------------------------------------------------------------
(* Rows of trivia. *)

\* A row that is at its end, and one that is not.
LEMMA RowOver ==
  ASSUME NEW i, NEW n \in Nat, NEW S, NEW t \in Seq(S)
  PROVE  TriviaRow(i, n, n) \o t = t
<1>1. n - n = 0
  OBVIOUS
<1>2. TriviaRow(i, n, n) = <<>>
  BY <1>1 DEF TriviaRow
<1> QED
  BY <1>2

LEMMA RowHead ==
  ASSUME NEW w, NEW i, NEW j \in Nat, NEW n \in Nat, NEW S, NEW t \in Seq(S),
         IsRow(w, i, j, n, t), j < n
  PROVE  /\ Head(w) = DoNth("emitTrivia", i, j + 1)
         /\ IsRow(Tail(w), i, j + 1, n, t)
<1> DEFINE U == [op : {"emitTrivia"}, x : {i}, i : Nat] \cup S
           r == TriviaRow(i, j, n)
           m == n - j
           q == TriviaRow(i, j + 1, n)
<1>1. m \in Nat /\ m >= 1 /\ n - (j + 1) = m - 1 /\ j + 1 \in Nat
  OBVIOUS
<1>2. \A k \in Nat : DoNth("emitTrivia", i, k) \in U
  BY DEF DoNth
<1>3. r = [k \in 1..m |-> DoNth("emitTrivia", i, j + k)]
  BY DEF TriviaRow
<1>4. q = [k \in 1..(m - 1) |-> DoNth("emitTrivia", i, (j + 1) + k)]
  BY <1>1 DEF TriviaRow
<1>5. t \in Seq(U)
  OBVIOUS
<1> HIDE DEF U, r, q, m
<1>6. r \in Seq(U) /\ Len(r) = m /\ \A k \in 1..m : r[k] = DoNth("emitTrivia", i, j + k)
  <2>1. \A k \in 1..m : j + k \in Nat
    BY <1>1
  <2> QED
    BY <1>1, <1>2, <1>3, <2>1
<1>7. /\ q \in Seq(U) /\ Len(q) = m - 1
      /\ \A k \in 1..(m - 1) : q[k] = DoNth("emitTrivia", i, (j + 1) + k)
  <2>1. \A k \in 1..(m - 1) : (j + 1) + k \in Nat
    BY <1>1
  <2> QED
    BY <1>1, <1>2, <1>4, <2>1
<1>8. r # <<>> /\ Head(r) = DoNth("emitTrivia", i, j + 1) /\ Tail(r) = q
  <2>1. r # <<>> /\ Head(r) = r[1] /\ 1 \in 1..m
    BY <1>1, <1>6
  <2>2. Tail(r) \in Seq(U) /\ Len(Tail(r)) = m - 1
        /\ \A k \in 1..(m - 1) : Tail(r)[k] = r[k + 1]
    BY <1>1, <1>6, <2>1
  <2>3. \A k \in 1..(m - 1) : k + 1 \in 1..m /\ j + (k + 1) = (j + 1) + k
    BY <1>1
  <2>4. \A k \in 1..(m - 1) : Tail(r)[k] = q[k]
    BY <1>6, <1>7, <2>2, <2>3
  <2>5. Tail(r) = q
    BY <1>1, <1>7, <2>2, <2>4
  <2> QED
    BY <1>6, <2>1, <2>5
<1>9. r \o t # <<>> /\ Head(r \o t) = Head(r) /\ Tail(r \o t) = Tail(r) \o t
  BY <1>5, <1>6, <1>8
<1>10. /\ r \o t # <<>> /\ Head(r \o t) = DoNth("emitTrivia", i, j + 1)
       /\ Tail(r \o t) = q \o t
  BY <1>8, <1>9
<1>11. w = r \o t
  BY DEF IsRow, r
<1>12. Tail(w) = q \o t
  BY <1>10, <1>11
<1>13. IsRow(Tail(w), i, j + 1, n, t)
  BY <1>12 DEF IsRow, q
<1> QED
  BY <1>10, <1>11, <1>13

\* The next call is for the trivia behind the first j, or the others come next.
LEMMA NextInRow ==
  ASSUME NEW w, NEW i, NEW j \in Nat, NEW n \in Nat, NEW t, IsSeq(t),
         IsRow(w, i, j, n, t), j < n
  PROVE  Head(w) = DoNth("emitTrivia", i, j + 1) /\ IsRow(Tail(w), i, j + 1, n, t)
<1>1. PICK S : t \in Seq(S)
  BY DEF IsSeq
<1> QED
  BY <1>1, RowHead

LEMMA NextAfterRow ==
  ASSUME NEW w, NEW i, NEW n \in Nat, NEW t, IsSeq(t), IsRow(w, i, n, n, t)
  PROVE  w = t
<1>1. PICK S : t \in Seq(S)
  BY DEF IsSeq
<1>2. TriviaRow(i, n, n) \o t = t
  BY <1>1, RowOver
<1> QED
  BY <1>2 DEF IsRow

\* Trivia that need no copy may be passed.
LEMMA ReadsSkipped ==
  ASSUME doc \in Documents, NEW p, NEW i, Reads(p, i, 0), Skips(p, i),
         Blank(i, p.triviaSkip)
  PROVE  Reads(p, i, p.triviaSkip)
<1> DEFINE n == p.triviaSkip
<1>1. CASE n = 0
  BY <1>1
<1>2. CASE n # 0
  <2>1. n \in Nat /\ i \in 1..Len(doc.toks) /\ n <= Size(i) /\ Size(i) \in Nat
    BY <1>2, SizeTypes DEF Skips
  <2> DEFINE T == {k \in Nat : k <= n => UpTo(i, k) = UpTo(i, 0)}
  <2>2. 0 \in T
    OBVIOUS
  <2>3. ASSUME NEW k \in Nat, k \in T
        PROVE  k + 1 \in T
    <3>1. CASE k + 1 <= n
      <4>1. k + 1 \in 1..n /\ k + 1 \in 1..Size(i) /\ (k + 1) - 1 = k /\ k <= n
        BY <2>1, <3>1
      <4>2. ~HasText(Tok(i).trivia[k + 1])
        BY <4>1 DEF Blank
      <4>3. UpTo(i, k + 1) = UpTo(i, (k + 1) - 1)
        BY <2>1, <4>1, <4>2, UpToRules
      <4>4. UpTo(i, k + 1) = UpTo(i, 0)
        BY <2>3, <4>1, <4>3
      <4> QED
        BY <4>4
    <3>2. CASE ~(k + 1 <= n)
      BY <3>2
    <3> QED
      BY <3>1, <3>2
  <2>4. Nat \subseteq T
    <3> HIDE DEF T
    <3> QED
      BY <2>2, <2>3, Induction
  <2>5. UpTo(i, n) = UpTo(i, 0)
    BY <2>1, <2>4
  <2>6. ~Expanding(i, 0) /\ ~Expanding(i, n)
    BY DEF Expanding, Blank
  <2> QED
    BY <2>5, <2>6 DEF Reads
<1> QED
  BY <1>1, <1>2

-----------------------------------------------------------------------------
(* The steps of the copy. *)

\* No comment stands among the later tokens of a directive.
DirectivesHoldNoComments ==
  \A d \in Documents : \A i \in DOMAIN d.toks : \A j \in DOMAIN d.toks[i].trivia :
    ~(IsComment(d.toks[i].trivia[j]) /\ IsInDirective(d.toks[i].trivia[j]))

\* Two places are the same only if they are.
LEMMA PlacesDiffer ==
  \A x, y : (At(x) = At(y) <=> x = y) /\ (Mid(x) = Mid(y) <=> x = y) /\ At(x) # Mid(y)
BY DEF At, Mid

\* What the invariant says of the calls still to be made.
LEMMA WorkTypes ==
  ASSUME IInv, work # <<>>
  PROVE  /\ work \in Seq(Calls) /\ Tail(work) \in Seq(Calls) /\ doc \in Documents
         /\ Safe(pr) /\ Writing(pr) /\ Origins(pr.output) \in Seq(Places)
         /\ pr.triviaSkip \in Nat
         /\ \A a, b : Carries(doc, work, a, b) =>
              \E m : Spans(doc, Head(work), a, m) /\ Carries(doc, Tail(work), m, b)
<1>1. /\ work \in Seq(Calls) /\ Tail(work) \in Seq(Calls) /\ doc \in Documents
      /\ Safe(pr) /\ Writing(pr)
  BY CallTypes, SafeWriting DEF IInv
<1>2. Origins(pr.output) \in Seq(Places)
  <2>1. pr.output \in Seq(Item)
    BY <1>1 DEF Writing
  <2>2. [kind |-> "newline", size |-> 0, at |-> <<0, 0>>] \in Item
    BY DEF Item
  <2> QED
    BY <2>1, <2>2, OriginsAppend DEF Places
<1>3. pr.triviaSkip \in Nat
  BY <1>1, Zenon DEF Safe, InOrder, Printer
<1>4. \A a, b : Carries(doc, work, a, b) =>
        \E m : Spans(doc, Head(work), a, m) /\ Carries(doc, Tail(work), m, b)
  BY <1>1, CarryFirst
<1> QED
  BY <1>1, <1>2, <1>3, <1>4

\* Where the copy is when the next call neither emits a trivia nor ends a token.
LEMMA NextCallAt ==
  ASSUME IInv, CopyInv(pr, work), work # <<>>,
         Head(work).op \notin {"emitTrivia", "finishToken"}
  PROVE  \E i \in 1..(Len(doc.toks) + 1) : \E a, m :
           /\ Spans(doc, Head(work), a, m) /\ Carries(doc, Tail(work), m, End)
           /\ Skips(pr, i) /\ Reads(pr, i, pr.triviaSkip)
           /\ \/ a = At(i) /\ Reads(pr, i, 0) /\ Blank(i, pr.triviaSkip)
              \/ a = Mid(i)
<1>1. PICK i \in 1..(Len(doc.toks) + 1), j \in Nat :
        \/ j = 0 /\ Before(pr, work, i)
        \/ Early(pr, work, i, j)
        \/ Finishing(pr, work, i, j)
  BY DEF CopyInv
<1>2. CASE Before(pr, work, i)
  <2>1. Reads(pr, i, pr.triviaSkip)
    BY <1>2, WorkTypes, ReadsSkipped DEF Before
  <2>2. PICK m : Spans(doc, Head(work), At(i), m) /\ Carries(doc, Tail(work), m, End)
    BY <1>2, WorkTypes DEF Before
  <2> QED
    BY <1>2, <2>1, <2>2 DEF Before
<1>3. CASE Early(pr, work, i, j)
  <2>1. PICK calls :
          /\ IsRow(work, i, j, pr.triviaSkip, calls)
          /\ Carries(doc, calls, Mid(i), End)
          /\ Reads(pr, i, j) /\ Skips(pr, i) /\ j <= pr.triviaSkip
    BY <1>3 DEF Early
  <2>2. IsSeq(calls)
    BY <2>1, Zenon DEF Carries, IsSeq
  <2>3. pr.triviaSkip \in Nat
    BY WorkTypes
  <2>4. ~(j < pr.triviaSkip)
    <3> SUFFICES ASSUME j < pr.triviaSkip PROVE FALSE
      OBVIOUS
    <3>1. Head(work) = DoNth("emitTrivia", i, j + 1)
      BY <2>1, <2>2, <2>3, NextInRow
    <3> QED
      BY <3>1 DEF DoNth
  <2>5. j = pr.triviaSkip
    BY <2>1, <2>3, <2>4
  <2>6. work = calls
    <3>1. IsRow(work, i, pr.triviaSkip, pr.triviaSkip, calls)
      BY <2>1, <2>5
    <3> QED
      BY <2>2, <2>3, <3>1, NextAfterRow, Zenon
  <2>7. PICK m : Spans(doc, Head(work), Mid(i), m) /\ Carries(doc, Tail(work), m, End)
    BY <2>1, <2>6, WorkTypes
  <2> QED
    BY <2>1, <2>5, <2>7
<1>4. CASE Finishing(pr, work, i, j)
  <2>1. PICK calls :
          /\ IsRow(work, i, j, Size(i), <<Do("finishToken", i)>> \o calls)
          /\ Carries(doc, calls, At(i + 1), End)
          /\ i \in DOMAIN doc.toks /\ j <= Size(i)
    BY <1>4 DEF Finishing
  <2>2. PICK S : calls \in Seq(S)
    BY <2>1, Zenon DEF Carries
  <2> DEFINE f == Do("finishToken", i)
             U == S \cup {f}
             rest == <<f>> \o calls
  <2>3. IsSeq(rest) /\ rest # <<>> /\ Head(rest) = f
    <3>1. calls \in Seq(U) /\ f \in U
      BY <2>2
    <3> HIDE DEF f, U
    <3>2. rest \in Seq(U) /\ rest # <<>> /\ Head(rest) = f
      BY <3>1
    <3> QED
      BY <3>2 DEF IsSeq
  <2>4. Size(i) \in Nat
    BY <2>1, WorkTypes, SizeTypes
  <2> HIDE DEF rest, U, f
  <2>5. IsRow(work, i, j, Size(i), rest)
    BY <2>1 DEF rest, f
  <2>6. CASE j < Size(i)
    <3>1. Head(work) = DoNth("emitTrivia", i, j + 1)
      BY <2>3, <2>4, <2>5, <2>6, NextInRow
    <3> QED
      BY <3>1 DEF DoNth
  <2>7. CASE j = Size(i)
    <3>1. work = rest
      <4>1. IsRow(work, i, Size(i), Size(i), rest)
        BY <2>5, <2>7
      <4> QED
        BY <2>3, <2>4, <4>1, NextAfterRow, Zenon
    <3> QED
      BY <2>3, <3>1 DEF f, Do
  <2>8. j < Size(i) \/ j = Size(i)
    BY <2>1, <2>4
  <2> QED
    BY <2>6, <2>7, <2>8
<1> QED
  BY <1>1, <1>2, <1>3, <1>4

\* What a step of the copy does: nothing, or it writes what comes next.
Copied ==
  /\ CopyInv(pr', work') /\ doc' = doc
  /\ \/ Origins(pr'.output) = Origins(pr.output)
     \/ \E e \in Places : Origins(pr'.output) = Append(Origins(pr.output), e)

\* A call that is answered by calls that go as far.
LEMMA PassesOnCopied ==
  ASSUME IInv, CopyInv(pr, work), work # <<>>,
         Head(work).op \notin {"emitTrivia", "finishToken"}, PassesOn
  PROVE  Copied
<1>1. PICK p, calls : Silent(pr, p) /\ Copies(calls) /\ Continue(p, calls)
  BY DEF PassesOn
<1>2. pr' = p /\ work' = calls \o Tail(work) /\ doc' = doc
  BY <1>1 DEF Continue
<1>3. PICK i \in 1..(Len(doc.toks) + 1) : \E a, m :
        /\ Spans(doc, Head(work), a, m) /\ Carries(doc, Tail(work), m, End)
        /\ Skips(pr, i) /\ Reads(pr, i, pr.triviaSkip)
        /\ \/ a = At(i) /\ Reads(pr, i, 0) /\ Blank(i, pr.triviaSkip)
           \/ a = Mid(i)
  BY NextCallAt
<1>4. PICK a, m :
        /\ Spans(doc, Head(work), a, m) /\ Carries(doc, Tail(work), m, End)
        /\ Skips(pr, i) /\ Reads(pr, i, pr.triviaSkip)
        /\ \/ a = At(i) /\ Reads(pr, i, 0) /\ Blank(i, pr.triviaSkip)
           \/ a = Mid(i)
  BY <1>3
<1>5. Carries(doc, calls \o Tail(work), a, End)
  BY <1>1, <1>4, CarryOn DEF Copies
<1>6. /\ p.triviaSkip = pr.triviaSkip /\ p.triviaSkip \in Nat
      /\ Origins(p.output) = Origins(pr.output)
      /\ p.skipExpandedToken = pr.skipExpandedToken
  BY <1>1, WorkTypes DEF Silent
<1>7. Skips(p, i) /\ Reads(p, i, p.triviaSkip)
      /\ (Reads(pr, i, 0) => Reads(p, i, 0))
  BY <1>4, <1>6 DEF Skips, Reads
<1>8. CopyInv(p, calls \o Tail(work))
  <2>1. CASE a = At(i) /\ Reads(pr, i, 0) /\ Blank(i, pr.triviaSkip)
    <3>1. Before(p, calls \o Tail(work), i)
      BY <1>5, <1>6, <1>7, <2>1 DEF Before
    <3>2. 0 \in Nat
      OBVIOUS
    <3> QED
      BY <3>1, <3>2 DEF CopyInv
  <2>2. CASE a = Mid(i)
    <3> DEFINE w == calls \o Tail(work)
               n == p.triviaSkip
    <3>1. PICK S : w \in Seq(S)
      BY <1>5, Zenon DEF Carries
    <3>2. Carries(doc, w, Mid(i), End)
      BY <1>5, <2>2
    <3> HIDE DEF w
    <3>3. IsRow(w, i, n, n, w)
      BY <1>6, <3>1, RowOver DEF IsRow
    <3>4. n <= n
      BY <1>6
    <3>5. Early(p, w, i, n)
      BY <1>7, <3>2, <3>3, <3>4 DEF Early
    <3> QED
      BY <1>6, <3>5 DEF CopyInv, w
  <2> QED
    BY <1>4, <2>1, <2>2
<1> QED
  BY <1>2, <1>6, <1>8 DEF Copied

\* A call that skips all of a token's trivia, none of which needs a copy.
LEMMA PassesOverCopied ==
  ASSUME IInv, CopyInv(pr, work), work # <<>>,
         Head(work).op \notin {"emitTrivia", "finishToken"}, PassesOver
  PROVE  Copied
<1>1. PICK p, calls : \E x \in DOMAIN doc.toks :
        /\ Origins(p.output) = Origins(pr.output)
        /\ p.skipExpandedToken = pr.skipExpandedToken
        /\ p.triviaSkip = Len(Tok(x).trivia)
        /\ \A a, b : Spans(doc, Head(work), a, b) =>
             a = At(x) /\ HoldsNothing(doc, x) /\ Carries(doc, calls, a, b)
        /\ Continue(p, calls)
  BY DEF PassesOver
<1>2. PICK x \in DOMAIN doc.toks :
        /\ Origins(p.output) = Origins(pr.output)
        /\ p.skipExpandedToken = pr.skipExpandedToken
        /\ p.triviaSkip = Len(Tok(x).trivia)
        /\ \A a, b : Spans(doc, Head(work), a, b) =>
             a = At(x) /\ HoldsNothing(doc, x) /\ Carries(doc, calls, a, b)
        /\ Continue(p, calls)
  BY <1>1
<1>3. pr' = p /\ work' = calls \o Tail(work) /\ doc' = doc
  BY <1>2 DEF Continue
<1>4. PICK i \in 1..(Len(doc.toks) + 1) : \E a, m :
        /\ Spans(doc, Head(work), a, m) /\ Carries(doc, Tail(work), m, End)
        /\ Skips(pr, i) /\ Reads(pr, i, pr.triviaSkip)
        /\ \/ a = At(i) /\ Reads(pr, i, 0) /\ Blank(i, pr.triviaSkip)
           \/ a = Mid(i)
  BY NextCallAt
<1>5. PICK a, m :
        /\ Spans(doc, Head(work), a, m) /\ Carries(doc, Tail(work), m, End)
        /\ \/ a = At(i) /\ Reads(pr, i, 0) /\ Blank(i, pr.triviaSkip)
           \/ a = Mid(i)
  BY <1>4
<1>6. a = At(x) /\ HoldsNothing(doc, x) /\ Carries(doc, calls, a, m)
  BY <1>2, <1>5
<1>7. i = x /\ Reads(pr, i, 0)
  BY <1>5, <1>6, PlacesDiffer
<1>8. Carries(doc, calls \o Tail(work), At(i), End)
  BY <1>5, <1>6, <1>7, CarryOn
<1>9. p.triviaSkip \in Nat /\ p.triviaSkip = Size(i) /\ Skips(p, i)
  <2>1. Size(i) \in Nat /\ p.triviaSkip = Size(i) /\ Size(i) <= Size(i)
    BY <1>2, <1>7, WorkTypes, SizeTypes DEF Size
  <2> QED
    BY <1>2, <1>7, <2>1 DEF Skips
<1>10. Blank(i, p.triviaSkip)
  BY <1>6, <1>7, <1>9, WorkTypes, SizeTypes DEF Blank, HoldsNothing, Tok
<1>11. Before(p, calls \o Tail(work), i)
  BY <1>2, <1>7, <1>8, <1>9, <1>10 DEF Before, Reads
<1>12. CopyInv(p, calls \o Tail(work))
  <2>1. 0 \in Nat
    OBVIOUS
  <2> QED
    BY <1>11, <2>1 DEF CopyInv
<1> QED
  BY <1>2, <1>3, <1>12 DEF Copied

-----------------------------------------------------------------------------
(* emitToken, emitTrivia and what they are called by. *)

\* The trivia that emitToken still has to emit, and the token.
LEMMA EmitTokenCopied ==
  ASSUME IInv, CopyInv(pr, work), EmitToken
  PROVE  Copied
<1> DEFINE x == Arg
           from == pr.triviaSkip
           size == Len(Tok(x).trivia)
           n == IF from < size THEN size - from ELSE 0
           p == [pr EXCEPT !.triviaSkip = 0]
           some == [j \in 1..n |-> DoNth("emitTrivia", x, from + j)]
           calls == some \o <<Do("finishToken", x)>>
<1>1. work # <<>> /\ Head(work).op = "emitToken" /\ Continue(p, calls)
  BY DEF EmitToken, Calling
<1>2. pr' = p /\ work' = calls \o Tail(work) /\ doc' = doc
  BY <1>1 DEF Continue
<1>3. /\ doc \in Documents /\ x \in DOMAIN doc.toks /\ from \in Nat
      /\ Tail(work) \in Seq(Calls) /\ Writing(pr)
  BY <1>1, CallTypes, WorkTypes DEF TokenOps
<1>4. x \in 1..Len(doc.toks) /\ x \in Nat /\ size \in Nat /\ size = Size(x) /\ Size(x) \in Nat
  BY <1>3, SizeTypes DEF Size
<1>5. PICK i \in 1..(Len(doc.toks) + 1) : \E a, m :
        /\ Spans(doc, Head(work), a, m) /\ Carries(doc, Tail(work), m, End)
        /\ Skips(pr, i) /\ Reads(pr, i, from)
        /\ a = At(i) \/ a = Mid(i)
  BY <1>1, NextCallAt
<1>6. PICK a, m :
        /\ Spans(doc, Head(work), a, m) /\ Carries(doc, Tail(work), m, End)
        /\ a = At(i) \/ a = Mid(i)
  BY <1>5
<1>7. a \in {At(x), Mid(x)} /\ m = At(x + 1)
  BY <1>1, <1>6, SpansRules DEF Arg
<1>8. i = x /\ Carries(doc, Tail(work), At(x + 1), End)
  BY <1>6, <1>7, PlacesDiffer
<1>9. from <= Size(x)
  BY <1>3, <1>4, <1>5, <1>8 DEF Skips
<1>10. n = Size(x) - from
  BY <1>3, <1>4, <1>9
<1>11. some = TriviaRow(x, from, Size(x))
  BY <1>10 DEF TriviaRow
<1> DEFINE last == Do("finishToken", x)
           U == Calls \cup {last} \cup [op : {"emitTrivia"}, x : {x}, i : Nat]
<1>12. calls \o Tail(work) = some \o (<<last>> \o Tail(work))
  <2>1. Tail(work) \in Seq(U) /\ last \in U /\ \A k \in Nat : DoNth("emitTrivia", x, k) \in U
    BY <1>3 DEF DoNth
  <2>2. n \in Nat
    BY <1>3, <1>4
  <2> HIDE DEF U, last, n, x, from
  <2>3. some \in Seq(U)
    <3>1. \A j \in 1..n : from + j \in Nat
      BY <1>3
    <3> QED
      BY <2>1, <2>2, <3>1
  <2> HIDE DEF some
  <2>4. calls = some \o <<last>>
    BY DEF last
  <2> QED
    BY <2>1, <2>3, <2>4
<1> HIDE DEF some, calls, U, n
<1>13. Reads(p, x, from) /\ p.triviaSkip = 0
  <2>1. Reads(pr, x, from)
    BY <1>5, <1>8
  <2>2. /\ p.output = pr.output /\ p.skipExpandedToken = pr.skipExpandedToken
        /\ p.triviaSkip = 0
    BY <1>3 DEF Writing
  <2> QED
    BY <2>1, <2>2 DEF Reads
<1>14. Finishing(p, calls \o Tail(work), x, from)
  BY <1>3, <1>8, <1>9, <1>11, <1>12, <1>13 DEF Finishing, IsRow
<1>15. CopyInv(p, calls \o Tail(work))
  BY <1>3, <1>8, <1>14 DEF CopyInv
<1>16. Origins(p.output) = Origins(pr.output)
  BY <1>3 DEF Writing
<1> QED
  BY <1>2, <1>15, <1>16 DEF Copied

\* A closing token's trivia, emitted before emitToken is called for it.
LEMMA EarlyCopied ==
  ASSUME IInv, CopyInv(pr, work), work # <<>>,
         Head(work).op \in {"emitEndTokenTrivia", "insertBlankLineBefore"},
         NEW n \in Nat, NEW m \in Nat, NEW p, NEW calls,
         p.output = pr.output, p.skipExpandedToken = pr.skipExpandedToken,
         p.triviaSkip = n,
         \/ n = pr.triviaSkip /\ m = n
         \/ n <= Size(Arg) /\ m = 0,
         \A a : Carries(doc, calls, a, a),
         pr' = p, doc' = doc,
         work' = TriviaRow(Arg, m, n) \o (calls \o Tail(work))
  PROVE  Copied
<1> DEFINE x == Arg
           w == calls \o Tail(work)
<1>1. doc \in Documents /\ x \in DOMAIN doc.toks
  BY CallTypes DEF TokenOps
<1>2. PICK i \in 1..(Len(doc.toks) + 1) : \E a, b :
        /\ Spans(doc, Head(work), a, b) /\ Carries(doc, Tail(work), b, End)
        /\ Skips(pr, i) /\ Reads(pr, i, pr.triviaSkip)
        /\ a = At(i) => Reads(pr, i, 0)
        /\ a = At(i) \/ a = Mid(i)
  <2>1. Head(work).op \notin {"emitTrivia", "finishToken"}
    OBVIOUS
  <2> QED
    BY <2>1, NextCallAt, PlacesDiffer
<1>3. PICK a, b :
        /\ Spans(doc, Head(work), a, b) /\ Carries(doc, Tail(work), b, End)
        /\ a = At(i) => Reads(pr, i, 0)
        /\ a = At(i) \/ a = Mid(i)
  BY <1>2
<1>4. a = At(x) /\ b = Mid(x)
  BY <1>3, SpansRules DEF Arg
<1>5. i = x /\ Reads(pr, x, 0) /\ Carries(doc, Tail(work), Mid(x), End)
  BY <1>3, <1>4, PlacesDiffer
<1>6. Carries(doc, w, Mid(x), End)
  BY <1>5, CarryOn
<1>7. Skips(p, x) /\ Reads(p, x, m) /\ m <= n
  <2>1. Skips(pr, x) /\ Reads(pr, x, pr.triviaSkip)
    BY <1>2, <1>5
  <2>2. m <= n
    OBVIOUS
  <2>3. Skips(p, x)
    BY <1>1, <2>1 DEF Skips
  <2>4. Reads(pr, x, m)
    BY <1>5, <2>1
  <2> QED
    BY <2>2, <2>3, <2>4 DEF Reads
<1> HIDE DEF w, x
<1>8. Early(p, TriviaRow(x, m, n) \o w, x, m)
  BY <1>6, <1>7 DEF Early, IsRow
<1>9. CopyInv(pr', work')
  <2>1. CopyInv(p, TriviaRow(x, m, n) \o w)
    BY <1>5, <1>8 DEF CopyInv
  <2> QED
    BY <2>1 DEF w, x
<1> QED
  BY <1>9 DEF Copied

\* emitEndTokenTrivia
LEMMA EndTokenTriviaCopied ==
  ASSUME IInv, CopyInv(pr, work), EmitEndTokenTrivia
  PROVE  Copied
<1> DEFINE x == Arg
           n == Len(Tok(x).trivia)
           p == [pr EXCEPT !.triviaSkip = n]
           row == TriviaRow(x, 0, n)
<1>1. work # <<>> /\ Head(work).op = "emitEndTokenTrivia"
  BY DEF EmitEndTokenTrivia, Calling
<1>2. /\ doc \in Documents /\ x \in DOMAIN doc.toks /\ pr.triviaSkip \in Nat
      /\ Tail(work) \in Seq(Calls) /\ Writing(pr)
  BY <1>1, CallTypes, WorkTypes DEF TokenOps
<1>3. n \in Nat /\ n = Size(x) /\ n <= n /\ 0 \in Nat
  BY <1>2, SizeTypes DEF Size
<1>4. Tail(work) = <<>> \o Tail(work) /\ \A a : Carries(doc, <<>>, a, a)
  BY <1>2, CarryNone
<1>5. CASE HasLeadingNewline(Tok(x))
  <2>1. pr' = p /\ work' = EmitTriviaUpTo(x, n) \o Tail(work) /\ doc' = doc
    BY <1>5 DEF EmitEndTokenTrivia, Continue
  <2>2. EmitTriviaUpTo(x, n) = row
    <3>1. n - 0 = n /\ \A j \in 1..n : 0 + j = j
      BY <1>3
    <3> QED
      BY <3>1 DEF EmitTriviaUpTo, TriviaRow
  <2>3. /\ p.output = pr.output /\ p.skipExpandedToken = pr.skipExpandedToken
        /\ p.triviaSkip = n
    BY <1>2 DEF Writing
  <2> HIDE DEF p, row, n
  <2>4. work' = row \o (<<>> \o Tail(work))
    BY <1>4, <2>1, <2>2
  <2>5. n <= Size(x)
    BY <1>3
  <2> QED
    BY <1>1, <1>3, <1>4, <2>1, <2>3, <2>4, <2>5, EarlyCopied DEF row
<1>6. CASE ~HasLeadingNewline(Tok(x))
  <2> DEFINE s == pr.triviaSkip
  <2>1. pr' = pr /\ work' = Tail(work) /\ doc' = doc
    BY <1>6 DEF EmitEndTokenTrivia, Return
  <2>2. work' = TriviaRow(x, s, s) \o (<<>> \o Tail(work))
    <3>1. TriviaRow(x, s, s) \o Tail(work) = Tail(work)
      BY <1>2, RowOver, Zenon
    <3> QED
      BY <1>4, <2>1, <3>1
  <2> QED
    BY <1>1, <1>2, <1>4, <2>1, <2>2, EarlyCopied
<1> QED
  BY <1>5, <1>6

\* insertBlankLineBefore
LEMMA BlankLineCopied ==
  ASSUME IInv, CopyInv(pr, work), InsertBlankLineBefore
  PROVE  Copied
<1> DEFINE x == Arg
           n == IF HasLeadingTrailingComment(Tok(x)) THEN LeadingTrailingLength(Tok(x)) ELSE 0
           p == [pr EXCEPT !.triviaSkip = IF n = 0 THEN @ ELSE n]
           s == pr.triviaSkip
           finish == <<Do("finishBlankLine", x)>>
<1>1. work # <<>> /\ Head(work).op = "insertBlankLineBefore"
  BY DEF InsertBlankLineBefore, Calling
<1>2. /\ doc \in Documents /\ x \in DOMAIN doc.toks /\ s \in Nat
      /\ Tail(work) \in Seq(Calls) /\ Writing(pr)
  BY <1>1, CallTypes, WorkTypes DEF TokenOps
<1>3. Tail(work) = <<>> \o Tail(work) /\ \A a : Carries(doc, <<>>, a, a)
  BY <1>2, CarryNone
<1>4. n \in Nat /\ n <= Size(x) /\ 0 \in Nat
  <2>1. Size(x) \in Nat /\ Size(x) = Len(Tok(x).trivia)
    BY <1>2, SizeTypes DEF Size
  <2>2. /\ LeadingTrailingLength(Tok(x)) \in Nat
        /\ LeadingTrailingLength(Tok(x)) <= Len(Tok(x).trivia)
    BY <1>2, TokenTypes, LeadingTrailingLengthType
  <2> QED
    BY <2>1, <2>2
<1>5. \A a : Carries(doc, finish, a, a)
  BY Idle, CarryOne
<1>6. CASE HasLeadingBlankLine(Tok(x)) \/ OutputHasBlankLine(pr)
  <2>1. pr' = pr /\ work' = Tail(work) /\ doc' = doc
    BY <1>6 DEF InsertBlankLineBefore, Return
  <2>2. work' = TriviaRow(x, s, s) \o (<<>> \o Tail(work))
    <3>1. TriviaRow(x, s, s) \o Tail(work) = Tail(work)
      BY <1>2, RowOver, Zenon
    <3> QED
      BY <1>3, <2>1, <3>1
  <2> QED
    BY <1>1, <1>2, <1>3, <2>1, <2>2, EarlyCopied
<1>7. CASE ~(HasLeadingBlankLine(Tok(x)) \/ OutputHasBlankLine(pr))
  <2>1. /\ pr' = p /\ doc' = doc
        /\ work' = (EmitTriviaUpTo(x, n) \o finish) \o Tail(work)
    BY <1>7 DEF InsertBlankLineBefore, Continue
  <2>2. /\ p.output = pr.output /\ p.skipExpandedToken = pr.skipExpandedToken
        /\ p.triviaSkip = IF n = 0 THEN s ELSE n
    BY <1>2 DEF Writing
  <2> DEFINE row == EmitTriviaUpTo(x, n)
             rest == finish \o Tail(work)
             f == Do("finishBlankLine", x)
             U == Calls \cup {f} \cup [op : {"emitTrivia"}, x : {x}, i : Nat]
  <2>3. rest \in Seq(U) /\ row \in Seq(U) /\ work' = row \o rest
    <3>1. /\ Tail(work) \in Seq(U) /\ f \in U
          /\ \A j \in 1..n : DoNth("emitTrivia", x, j) \in U
      BY <1>2, <1>4 DEF DoNth
    <3> HIDE DEF U, n, f
    <3>2. row \in Seq(U)
      BY <1>4, <3>1 DEF EmitTriviaUpTo
    <3>3. finish = <<f>>
      BY DEF f
    <3> HIDE DEF row, finish
    <3> QED
      BY <2>1, <3>1, <3>2, <3>3 DEF row
  <2>4. row = TriviaRow(x, 0, n)
    <3>1. n - 0 = n /\ \A j \in 1..n : 0 + j = j
      BY <1>4
    <3> HIDE DEF n
    <3> QED
      BY <3>1 DEF EmitTriviaUpTo, TriviaRow
  <2> HIDE DEF row, p, finish, U, n, f
  <2>5. CASE n = 0
    <3>1. work' = TriviaRow(x, s, s) \o rest
      <4>1. TriviaRow(x, s, s) \o rest = rest /\ TriviaRow(x, n, n) \o rest = rest
        BY <1>2, <1>4, <2>3, RowOver, Zenon
      <4> QED
        BY <2>3, <2>4, <2>5, <4>1
    <3>2. p.triviaSkip = s
      BY <2>2, <2>5
    <3> QED
      BY <1>1, <1>2, <1>5, <2>1, <2>2, <3>1, <3>2, EarlyCopied
  <2>6. CASE n # 0
    <3>1. work' = TriviaRow(x, 0, n) \o rest /\ p.triviaSkip = n
      BY <2>2, <2>3, <2>4, <2>6
    <3> QED
      BY <1>1, <1>4, <1>5, <2>1, <2>2, <3>1, EarlyCopied
  <2> QED
    BY <2>5, <2>6
<1> QED
  BY <1>6, <1>7

\* emitTrivia reads one trivia further.
LEMMA ReadsNext ==
  ASSUME IInv, DirectivesHoldNoComments, NEW i \in 1..Len(doc.toks),
         NEW j \in Nat, j < Size(i), Reads(pr, i, j)
  PROVE  LET q == EmitTrivia(pr, Tok(i).trivia[j + 1], <<i, j + 1>>)
         IN  /\ Reads(q, i, j + 1) /\ q.triviaSkip = pr.triviaSkip
             /\ \/ Origins(q.output) = Origins(pr.output)
                \/ Origins(q.output) = Append(Origins(pr.output), <<i, j + 1>>)
<1> DEFINE k == j + 1
           t == Tok(i).trivia[k]
           q == EmitTrivia(pr, t, <<i, k>>)
<1>1. /\ doc \in Documents /\ Safe(pr) /\ Size(i) \in Nat /\ i \in DOMAIN doc.toks
      /\ DOMAIN Tok(i).trivia = 1..Size(i) /\ i \in Nat
  BY SizeTypes DEF IInv
<1>2. k \in 1..Size(i) /\ k \in DOMAIN Tok(i).trivia /\ k \in Nat /\ k - 1 = j
  BY <1>1
<1>3. t \in Trivia
  BY <1>1, <1>2, TokenTypes, ElementOfSeq
<1>4. <<i, k>> \in Nat \X Nat
  BY <1>1, <1>2
<1>5. ~(IsComment(t) /\ IsInDirective(t))
  BY <1>1, <1>2 DEF DirectivesHoldNoComments, Tok
<1>6. StartsDirective(t) => t.place = "token"
  <2>1. IsDocument(doc)
    BY <1>1, DocumentsAssumption
  <2>2. WellFormedTrivia(doc.toks[i].trivia)
    BY <1>1, <2>1 DEF IsDocument
  <2> QED
    BY <1>2, <2>2 DEF WellFormedTrivia, Tok
<1> HIDE DEF t
<1>7. /\ Origins(q.output) = IF HasText(t) THEN Append(Origins(pr.output), <<i, k>>)
                             ELSE Origins(pr.output)
      /\ q.triviaSkip = pr.triviaSkip
      /\ q.skipExpandedToken <=> pr.skipExpandedToken \/ t.kind = "MacroUsage"
  BY <1>1, <1>3, <1>4, <1>5, <1>6, TriviaCopied
<1> HIDE DEF q
<1>8. UpTo(i, k) = IF HasText(t) THEN Append(UpTo(i, j), <<i, k>>) ELSE UpTo(i, j)
  BY <1>1, <1>2, UpToRules DEF t
<1>9. Expanding(i, k) <=> Expanding(i, j) \/ t.kind = "MacroUsage"
  <2>1. 1..k = (1..j) \cup {k}
    BY <1>2
  <2> HIDE DEF k
  <2> QED
    BY <2>1 DEF Expanding, t
<1>10. Reads(q, i, k)
  BY <1>7, <1>8, <1>9 DEF Reads
<1> QED
  BY <1>7, <1>10 DEF q, t

\* emitTrivia copies a comment or a directive, and passes other trivia.
LEMMA EmitTriviaCopied ==
  ASSUME IInv, DirectivesHoldNoComments, CopyInv(pr, work), CallEmitTrivia
  PROVE  Copied
<1> DEFINE x == Arg
           k == Head(work).i
           p == EmitTrivia(pr, Tok(x).trivia[k], <<x, k>>)
<1>1. /\ work # <<>> /\ Head(work).op = "emitTrivia"
      /\ pr' = p /\ work' = Tail(work) /\ doc' = doc
  BY DEF CallEmitTrivia, Calling, Return
<1>2. \A a, b : ~Spans(doc, Head(work), a, b)
  BY <1>1, SpansRules
<1>3. doc \in Documents /\ pr.triviaSkip \in Nat
  BY <1>1, WorkTypes
<1>4. PICK i \in 1..(Len(doc.toks) + 1), j \in Nat :
        \/ j = 0 /\ Before(pr, work, i)
        \/ Early(pr, work, i, j)
        \/ Finishing(pr, work, i, j)
  BY DEF CopyInv
<1>5. ~Before(pr, work, i)
  BY <1>1, <1>2, WorkTypes DEF Before
\* What happens when the next trivia is that of token i behind the first j.
<1>6. ASSUME Head(work) = DoNth("emitTrivia", i, j + 1), i \in 1..Len(doc.toks),
             j < Size(i), Reads(pr, i, j)
      PROVE  /\ Reads(p, i, j + 1) /\ p.triviaSkip = pr.triviaSkip
             /\ <<i, j + 1>> \in Places
             /\ \/ Origins(p.output) = Origins(pr.output)
                \/ Origins(p.output) = Append(Origins(pr.output), <<i, j + 1>>)
  <2>1. x = i /\ k = j + 1
    BY <1>6 DEF Arg, DoNth
  <2>2. <<i, j + 1>> \in Places
    <3>1. i \in Nat /\ j + 1 \in Nat
      BY <1>3, <1>6, SizeTypes
    <3> QED
      BY <3>1, PlaceSequences
  <2> QED
    BY <1>6, <2>1, <2>2, ReadsNext
<1> HIDE DEF p
<1>7. CASE Early(pr, work, i, j)
  <2> DEFINE n == pr.triviaSkip
  <2>1. PICK calls :
          /\ IsRow(work, i, j, n, calls)
          /\ Carries(doc, calls, Mid(i), End)
          /\ Reads(pr, i, j) /\ Skips(pr, i) /\ j <= n
    BY <1>7 DEF Early
  <2>2. IsSeq(calls)
    BY <2>1, Zenon DEF Carries, IsSeq
  <2>3. j < n
    <3> SUFFICES ASSUME ~(j < n) PROVE FALSE
      OBVIOUS
    <3>1. j = n
      BY <1>3, <2>1
    <3>2. work = calls
      <4>1. IsRow(work, i, n, n, calls)
        BY <2>1, <3>1
      <4> QED
        BY <1>3, <2>2, <4>1, NextAfterRow, Zenon
    <3>3. Carries(doc, work, Mid(i), End)
      BY <2>1, <3>2
    <3> QED
      BY <1>1, <1>2, <3>3, WorkTypes
  <2>4. Head(work) = DoNth("emitTrivia", i, j + 1)
        /\ IsRow(Tail(work), i, j + 1, n, calls)
    BY <1>3, <2>1, <2>2, <2>3, NextInRow
  <2>5. i \in 1..Len(doc.toks) /\ j < Size(i) /\ n <= Size(i) /\ j + 1 <= n
    <3>1. n # 0
      BY <1>3, <2>3
    <3>2. i \in 1..Len(doc.toks) /\ n <= Size(i)
      BY <1>3, <2>1, <3>1, SizeTypes DEF Skips
    <3>3. Size(i) \in Nat
      BY <1>3, <3>2, SizeTypes
    <3> QED
      BY <1>3, <2>3, <3>2, <3>3
  <2>6. /\ Reads(p, i, j + 1) /\ p.triviaSkip = n
        /\ <<i, j + 1>> \in Places
        /\ \/ Origins(p.output) = Origins(pr.output)
           \/ Origins(p.output) = Append(Origins(pr.output), <<i, j + 1>>)
    BY <1>6, <2>1, <2>4, <2>5
  <2>7. Early(p, Tail(work), i, j + 1)
    <3>1. Skips(p, i)
      BY <2>1, <2>6 DEF Skips
    <3> QED
      BY <2>1, <2>4, <2>5, <2>6, <3>1 DEF Early
  <2>8. CopyInv(p, Tail(work))
    <3>1. j + 1 \in Nat
      OBVIOUS
    <3> QED
      BY <2>7, <3>1 DEF CopyInv
  <2> QED
    BY <1>1, <2>6, <2>8 DEF Copied
<1>8. CASE Finishing(pr, work, i, j)
  <2> DEFINE f == Do("finishToken", i)
             n == Size(i)
  <2>1. PICK calls :
          /\ IsRow(work, i, j, n, <<f>> \o calls)
          /\ Carries(doc, calls, At(i + 1), End)
          /\ Reads(pr, i, j) /\ pr.triviaSkip = 0
          /\ i \in DOMAIN doc.toks /\ j <= n
    BY <1>8 DEF Finishing
  <2>2. PICK S : calls \in Seq(S)
    BY <2>1, Zenon DEF Carries
  <2> DEFINE U == S \cup {f}
             rest == <<f>> \o calls
  <2>3. IsSeq(rest) /\ Head(rest) = f
    <3>1. calls \in Seq(U) /\ f \in U
      BY <2>2
    <3> HIDE DEF f, U
    <3>2. rest \in Seq(U) /\ Head(rest) = f
      BY <3>1
    <3> QED
      BY <3>2 DEF IsSeq
  <2>4. n \in Nat /\ i \in 1..Len(doc.toks)
    BY <1>3, <2>1, SizeTypes
  <2> HIDE DEF U, n
  <2>5. j < n
    <3> SUFFICES ASSUME ~(j < n) PROVE FALSE
      OBVIOUS
    <3>1. j = n
      BY <2>1, <2>4
    <3>2. work = rest
      <4>1. IsRow(work, i, n, n, rest)
        BY <2>1, <3>1
      <4> QED
        BY <2>3, <2>4, <4>1, NextAfterRow, Zenon
    <3>3. Head(work) = f
      BY <2>3, <3>2
    <3> QED
      BY <1>1, <3>3 DEF Do
  <2>6. Head(work) = DoNth("emitTrivia", i, j + 1)
        /\ IsRow(Tail(work), i, j + 1, n, rest)
    BY <2>1, <2>3, <2>4, <2>5, NextInRow, Zenon
  <2>7. /\ Reads(p, i, j + 1) /\ p.triviaSkip = pr.triviaSkip
        /\ <<i, j + 1>> \in Places
        /\ \/ Origins(p.output) = Origins(pr.output)
           \/ Origins(p.output) = Append(Origins(pr.output), <<i, j + 1>>)
    BY <1>6, <2>1, <2>4, <2>5, <2>6 DEF n
  <2>8. j + 1 <= n /\ j + 1 \in Nat
    BY <2>4, <2>5
  <2>9. Finishing(p, Tail(work), i, j + 1)
    BY <2>1, <2>6, <2>7, <2>8 DEF Finishing, n
  <2>10. CopyInv(p, Tail(work))
    BY <2>8, <2>9 DEF CopyInv
  <2> QED
    BY <1>1, <2>7, <2>10 DEF Copied
<1> QED
  BY <1>4, <1>5, <1>7, <1>8

\* The token is copied, unless a macro has taken its place.
LEMMA FinishTokenCopied ==
  ASSUME IInv, CopyInv(pr, work), CallFinishToken
  PROVE  Copied
<1> DEFINE x == Arg
           p == FinishToken(pr, Tok(x).kind, <<x, 0>>)
<1>1. /\ work # <<>> /\ Head(work).op = "finishToken"
      /\ pr' = p /\ work' = Tail(work) /\ doc' = doc
  BY DEF CallFinishToken, Calling, Return
<1>2. \A a, b : ~Spans(doc, Head(work), a, b)
  BY <1>1, SpansRules
<1>3. doc \in Documents /\ pr.triviaSkip \in Nat /\ Safe(pr) /\ Origins(pr.output) \in Seq(Places)
  BY <1>1, WorkTypes
<1>4. PICK i \in 1..(Len(doc.toks) + 1), j \in Nat :
        \/ j = 0 /\ Before(pr, work, i)
        \/ Early(pr, work, i, j)
        \/ Finishing(pr, work, i, j)
  BY DEF CopyInv
<1>5. ~Before(pr, work, i)
  BY <1>1, <1>2, WorkTypes DEF Before
<1> HIDE DEF p
<1>6. ~Early(pr, work, i, j)
  <2> SUFFICES ASSUME Early(pr, work, i, j) PROVE FALSE
    OBVIOUS
  <2> DEFINE n == pr.triviaSkip
  <2>1. PICK calls :
          /\ IsRow(work, i, j, n, calls)
          /\ Carries(doc, calls, Mid(i), End) /\ j <= n
    BY DEF Early
  <2>2. IsSeq(calls)
    BY <2>1, Zenon DEF Carries, IsSeq
  <2>3. CASE j < n
    <3>1. Head(work) = DoNth("emitTrivia", i, j + 1)
      BY <1>3, <2>1, <2>2, <2>3, NextInRow
    <3> QED
      BY <1>1, <3>1 DEF DoNth
  <2>4. CASE ~(j < n)
    <3>1. j = n
      BY <1>3, <2>1, <2>4
    <3>2. work = calls
      <4>1. IsRow(work, i, n, n, calls)
        BY <2>1, <3>1
      <4> QED
        BY <1>3, <2>2, <4>1, NextAfterRow, Zenon
    <3>3. Carries(doc, work, Mid(i), End)
      BY <2>1, <3>2
    <3> QED
      BY <1>1, <1>2, <3>3, WorkTypes
  <2> QED
    BY <2>3, <2>4
<1>7. Finishing(pr, work, i, j)
  BY <1>4, <1>5, <1>6
<1> DEFINE f == Do("finishToken", i)
           n == Size(i)
<1>8. PICK calls :
        /\ IsRow(work, i, j, n, <<f>> \o calls)
        /\ Carries(doc, calls, At(i + 1), End)
        /\ Reads(pr, i, j) /\ pr.triviaSkip = 0
        /\ i \in DOMAIN doc.toks /\ j <= n
  BY <1>7 DEF Finishing
<1>9. PICK S : calls \in Seq(S)
  BY <1>8, Zenon DEF Carries
<1> DEFINE U == S \cup {f}
           rest == <<f>> \o calls
<1>10. IsSeq(rest) /\ Head(rest) = f /\ Tail(rest) = calls
  <2>1. calls \in Seq(U) /\ f \in U
    BY <1>9
  <2> HIDE DEF f, U
  <2>2. rest \in Seq(U) /\ Head(rest) = f /\ Tail(rest) = calls
    BY <2>1
  <2> QED
    BY <2>2 DEF IsSeq
<1>11. /\ n \in Nat /\ i \in 1..Len(doc.toks) /\ i \in Nat /\ i + 1 \in 1..(Len(doc.toks) + 1)
       /\ DOMAIN Tok(i).trivia = 1..n
  BY <1>3, <1>8, SizeTypes
<1> HIDE DEF U, n
<1>12. j = n
  <2> SUFFICES ASSUME j < n PROVE FALSE
    BY <1>8, <1>11
  <2>1. Head(work) = DoNth("emitTrivia", i, j + 1)
    BY <1>8, <1>10, <1>11, NextInRow
  <2> QED
    BY <1>1, <2>1 DEF DoNth
<1>13. work = rest
  <2>1. IsRow(work, i, n, n, rest)
    BY <1>8, <1>12
  <2> QED
    BY <1>10, <1>11, <2>1, NextAfterRow, Zenon
<1>14. Tail(work) = calls /\ x = i
  BY <1>10, <1>13 DEF Arg, Do
<1> DEFINE skipped == Tok(i).kind = "EndOfFile" \/ pr.skipExpandedToken
<1>15. /\ Origins(p.output) = IF skipped THEN Origins(pr.output)
                              ELSE Append(Origins(pr.output), <<i, 0>>)
       /\ p.triviaSkip = 0 /\ p.skipExpandedToken = FALSE
  <2>1. Tok(i).kind \in TokenKinds
    BY <1>3, <1>8, TokenTypes
  <2>2. <<i, 0>> \in Nat \X Nat
    BY <1>11
  <2>3. p = FinishToken(pr, Tok(i).kind, <<i, 0>>)
    BY <1>14 DEF p
  <2>4. /\ Origins(p.output) = IF Tok(i).kind = "EndOfFile" \/ pr.skipExpandedToken
                                THEN Origins(pr.output)
                                ELSE Append(Origins(pr.output), <<i, 0>>)
        /\ p.triviaSkip = pr.triviaSkip /\ p.skipExpandedToken = FALSE
    BY <1>3, <2>1, <2>2, <2>3, TokenCopied
  <2> QED
    BY <1>8, <2>4
<1>16. pr.skipExpandedToken <=> IsExpanded(Tok(i))
  BY <1>8, <1>11, <1>12 DEF Reads, Expanding, IsExpanded
<1>17. UpTo(i + 1, 0) = IF skipped THEN UpTo(i, n) ELSE Append(UpTo(i, n), <<i, 0>>)
  BY <1>3, <1>11, <1>16, UpToRules DEF n
<1>18. Origins(pr.output) = UpTo(i, n)
  BY <1>8, <1>12 DEF Reads
<1>19. Before(p, calls, i + 1)
  <2>1. ~Expanding(i + 1, 0) /\ Blank(i + 1, 0)
    BY DEF Expanding, Blank
  <2>2. Origins(p.output) = UpTo(i + 1, 0)
    BY <1>15, <1>17, <1>18
  <2>3. Reads(p, i + 1, 0)
    BY <1>15, <2>1, <2>2 DEF Reads
  <2>4. Skips(p, i + 1)
    BY <1>15 DEF Skips
  <2> QED
    BY <1>8, <1>15, <2>1, <2>3, <2>4 DEF Before
<1>20. CopyInv(p, calls)
  <2>1. 0 \in Nat
    OBVIOUS
  <2> QED
    BY <1>11, <1>19, <2>1 DEF CopyInv
<1>21. <<i, 0>> \in Places
  BY <1>11 DEF Places
<1> QED
  BY <1>1, <1>14, <1>15, <1>20, <1>21 DEF Copied

\* A call is made that neither emits a trivia nor ends a token.
OtherCall == work # <<>> /\ Head(work).op \notin {"emitTrivia", "finishToken"}

\* None of the other actions answers one of these two calls.
LEMMA VisitCalls ==
  ASSUME Visit
  PROVE  OtherCall
<1>1. \A kind : Visiting(kind) => OtherCall
  BY DEF Visiting, Calling, OtherCall
<1>2. \A op \in Ops \ {"emitTrivia", "finishToken"} : Calling(op) => OtherCall
  BY DEF Calling, OtherCall
<1>3. CASE \/ VisitLeaf \/ VisitBlock \/ VisitLoop \/ VisitForLoop \/ VisitForever
           \/ VisitDoWhile \/ VisitConditional \/ VisitCase \/ VisitRandCase
           \/ VisitCaseItem \/ VisitDefaultCaseItem \/ VisitRandCaseItem
           \/ VisitAssertion \/ VisitTimingControl
           \/ VisitRandSequence \/ VisitProduction \/ VisitRsCase
  BY <1>1, <1>3, Zenon
     DEF VisitLeaf, VisitBlock, VisitLoop, VisitForLoop, VisitForever, VisitDoWhile,
         VisitConditional, VisitCase, VisitRandCase, VisitCaseItem, VisitDefaultCaseItem,
         VisitRandCaseItem, VisitAssertion, VisitTimingControl, VisitRandSequence,
         VisitProduction, VisitRsCase
<1>4. CASE \/ VisitProceduralBlock \/ VisitInitialBlock \/ VisitTimeUnits
           \/ VisitFunction \/ VisitSpecify \/ VisitClass \/ VisitChecker
           \/ VisitClocking \/ VisitConfig \/ VisitCovergroup \/ VisitProperty
           \/ VisitSequence \/ VisitGenerateBlock \/ VisitGenerateRegion
           \/ VisitCaseGenerate \/ VisitIfGenerate \/ VisitLoopGenerate
           \/ VisitCompilationUnit \/ VisitModule
           \/ VisitConstraint \/ VisitConstraintBlock
  BY <1>1, <1>4, Zenon
     DEF VisitProceduralBlock, VisitInitialBlock, VisitTimeUnits, VisitFunction,
         VisitSpecify, VisitClass, VisitChecker, VisitClocking, VisitConfig,
         VisitCovergroup, VisitProperty, VisitSequence, VisitGenerateBlock,
         VisitGenerateRegion, VisitCaseGenerate, VisitIfGenerate, VisitLoopGenerate,
         VisitCompilationUnit, VisitModule, VisitConstraint, VisitConstraintBlock
<1>5. CASE \/ VisitHeader \/ VisitConnection \/ VisitWildcard \/ VisitPortList
           \/ VisitInstantiation \/ VisitFunctionPorts
  <2>1. VisitPortList => OtherCall
    <3>1. Calling("visitExpanded") => OtherCall
      BY <1>2 DEF Ops
    <3> QED
      BY <1>1, <3>1, Zenon DEF VisitPortList
  <2> QED
    BY <1>1, <1>5, <2>1, Zenon
       DEF VisitHeader, VisitConnection, VisitWildcard, VisitInstantiation, VisitFunctionPorts
<1>6. CASE \/ VisitBind \/ VisitDpiExport \/ VisitDefaults \/ VisitNames
           \/ VisitParameters \/ VisitItems
           \/ VisitContinuousAssign \/ VisitTypedef \/ VisitExpression
           \/ VisitDataDeclaration \/ VisitNetDeclaration \/ VisitPortDeclaration
           \/ VisitStruct \/ VisitEnum \/ VisitDist \/ VisitDistWeight \/ VisitDpiImport
           \/ VisitCoverpoint \/ VisitCoverCross
  BY <1>1, <1>6, Zenon
     DEF VisitBind, VisitDpiExport, VisitDefaults, VisitNames, VisitParameters, VisitItems,
         VisitContinuousAssign, VisitTypedef, VisitExpression, VisitDataDeclaration,
         VisitNetDeclaration, VisitPortDeclaration, VisitStruct, VisitEnum, VisitDist,
         VisitDistWeight, VisitDpiImport, VisitCoverpoint, VisitCoverCross
<1> QED
  BY <1>3, <1>4, <1>5, <1>6 DEF Visit

LEMMA LoopCalls ==
  ASSUME Loop
  PROVE  OtherCall
BY DEF Loop, OtherCall, Calling, NextBlockItem, NextMember, NextModuleMember,
       NextConstraintItem, NextRsItem, StartPorts, NextPort, NextPlainPort,
       StartInstances, NextInstance, NextListedItem, NextDeclarator, StartImportPorts,
       NextListItem, StartCoverItems, NextInlineItem, CloseScope

LEMMA LayCalls ==
  ASSUME Lay \/ FinishBlankLine \/ EmitOperator
  PROVE  OtherCall
BY DEF Lay, OtherCall, Calling, CallPrimary, CallIndent, CallDedent, CallForceNewline,
       CallLineKind, CallNormalizeSpaceBefore, CallEnsureSpace, CallFreshLine,
       ForceStatementBreak, BreakConditionalBody, SkipTrivia, CallBreakBeforeClose,
       CallInstanceSpace, CallStripSpaces, CallPortItem, CallWeightSpaces,
       FinishBlankLine, EmitOperator

\* An operator is announced, and then emitted like any other token.
LEMMA OperatorPasses ==
  ASSUME IInv, EmitOperator
  PROVE  PassesOn
<1> DEFINE p == [pr EXCEPT !.beforeOperator = pr.formatEnabled]
           calls == <<Do("emitToken", Arg)>>
<1>1. work # <<>> /\ Head(work).op = "emitOperator" /\ Continue(p, calls)
  BY DEF EmitOperator, Calling
<1>2. Silent(pr, p)
  <2>1. Writing(pr)
    BY <1>1, WorkTypes
  <2> QED
    BY <2>1 DEF Silent, Writing
<1>3. ASSUME NEW a, NEW b, Spans(doc, Head(work), a, b)
      PROVE  Carries(doc, calls, a, b)
  <2>1. a \in {At(Arg), Mid(Arg)} /\ b = At(Arg + 1)
    BY <1>1, <1>3, SpansRules DEF Arg
  <2>2. Spans(doc, Do("emitToken", Arg), a, b)
    BY <2>1, TokenSpans
  <2> QED
    BY <2>2, CarryOne
<1> QED
  BY <1>1, <1>2, <1>3 DEF PassesOn, Copies

\* Every step of the printer is a step of the copy.
LEMMA CopyNextStep ==
  ASSUME IInv, DirectivesHoldNoComments, NothingLeftOut, CopyInv(pr, work), [Next]_vars
  PROVE  Copied
<1>1. CASE Visit
  BY <1>1, VisitCalls, VisitPassesOn, PassesOnCopied, PassesOverCopied DEF OtherCall
<1>2. CASE Loop
  BY <1>2, LoopCalls, LoopPassesOn, PassesOnCopied, PassesOverCopied DEF OtherCall
<1>3. CASE Lay \/ FinishBlankLine
  BY <1>3, LayCalls, LayoutPasses, PassesOnCopied, PassesOverCopied DEF OtherCall
<1>4. CASE EmitOperator
  BY <1>4, LayCalls, OperatorPasses, PassesOnCopied DEF OtherCall
<1>5. CASE Emit /\ ~FinishBlankLine /\ ~EmitOperator
  BY <1>5, EmitTokenCopied, EmitTriviaCopied, FinishTokenCopied, EndTokenTriviaCopied,
     BlankLineCopied
     DEF Emit
<1>6. CASE Done \/ UNCHANGED vars
  <2>1. pr' = pr /\ work' = work /\ doc' = doc
    BY <1>6 DEF Done, vars
  <2>2. CopyInv(pr', work')
    BY <2>1
  <2> QED
    BY <2>1, <2>2 DEF Copied
<1> QED
  BY <1>1, <1>2, <1>3, <1>4, <1>5, <1>6 DEF Next, Emit

\* Where nothing is written nothing is copied.
LEMMA OriginsNone == Origins(<<>>) = <<>>
<1>1. <<>> \in Seq(Item) /\ Len(<<>>) = 0
  OBVIOUS
<1>2. PICK f : AddsPlaces(f, <<>>)
  BY <1>1, PlacesDefined
<1>3. f[0] = <<>>
  BY <1>2 DEF AddsPlaces
<1> QED
  BY <1>1, <1>2, <1>3, PlacesAdded

\* At first nothing is copied, and the root is visited.
LEMMA CopyInit ==
  ASSUME Init
  PROVE  CopyInv(pr, work)
<1>1. doc \in Documents /\ \E style \in Styles : pr = NewPrinter(style)
  BY DEF Init
<1>2. /\ Len(doc.toks) \in Nat /\ Len(doc.toks) >= 1 /\ 0 \in Nat
      /\ 1 \in 1..(Len(doc.toks) + 1)
  BY <1>1, SizeTypes
<1>3. /\ pr.triviaSkip = 0 /\ pr.skipExpandedToken = FALSE /\ pr.output = <<>>
  BY <1>1 DEF NewPrinter
<1>4. Origins(pr.output) = <<>>
  <2>1. Origins(<<>>) = <<>>
    BY OriginsNone
  <2> QED
    BY <1>3, <2>1
<1>5. Reads(pr, 1, 0) /\ Skips(pr, 1) /\ Blank(1, pr.triviaSkip)
  <2>1. UpTo(1, 0) = <<>>
    BY <1>1, UpToRules
  <2>2. ~Expanding(1, 0) /\ Blank(1, 0)
    BY DEF Expanding, Blank
  <2> QED
    BY <1>3, <1>4, <2>1, <2>2 DEF Reads, Skips
<1>6. Carries(doc, work, At(1), End)
  <2> DEFINE r == doc.root
             first == <<Do("visit", r)>>
             rest == When(Kind(r) # "CompilationUnit", Do("emitToken", Len(doc.toks)))
  <2>1. IsDocument(doc)
    BY <1>1, DocumentsAssumption
  <2>2. /\ doc.nodes[r].first = 1
        /\ IF doc.nodes[r].kind = "CompilationUnit"
           THEN doc.nodes[r].last = Len(doc.toks)
           ELSE doc.nodes[r].last + 1 = Len(doc.toks)
    BY <2>1 DEF IsDocument
  <2>3. Carries(doc, first, At(1), EndAt(doc, r))
    <3>1. Spans(doc, Do("visit", r), At(doc.nodes[r].first), EndAt(doc, r))
      BY NodeSpans DEF VisitOps
    <3> QED
      BY <2>2, <3>1, CarryOne
  <2>4. Carries(doc, rest, EndAt(doc, r), End)
    <3>1. CASE Kind(r) = "CompilationUnit"
      <4>1. EndAt(doc, r) = End /\ rest = <<>>
        BY <2>2, <3>1 DEF Kind, EndAt, End, When
      <4> QED
        BY <4>1, CarryNone
    <3>2. CASE Kind(r) # "CompilationUnit"
      <4>1. EndAt(doc, r) = At(Len(doc.toks)) /\ rest = <<Do("emitToken", Len(doc.toks))>>
        BY <2>2, <3>2 DEF Kind, EndAt, When
      <4>2. Spans(doc, Do("emitToken", Len(doc.toks)), At(Len(doc.toks)), End)
        BY TokenSpans DEF End
      <4> QED
        BY <4>1, <4>2, CarryOne
    <3> QED
      BY <3>1, <3>2
  <2>5. work = first \o rest
    BY DEF Init
  <2> HIDE DEF first, rest
  <2> QED
    BY <2>3, <2>4, <2>5, CarryOn
<1>7. Before(pr, work, 1)
  BY <1>5, <1>6 DEF Before
<1> QED
  BY <1>2, <1>7 DEF CopyInv

-----------------------------------------------------------------------------
(* The copy. *)

CopyKept == CopyInv(pr, work)

\* The invariant speaks of the document, which no step changes.
LEMMA SameCopyInv ==
  ASSUME doc' = doc, CopyInv(pr', work')
  PROVE  CopyKept'
<1>1. \A i, j : (UpTo(i, j))' = UpTo(i, j) /\ (Expanding(i, j))' = Expanding(i, j)
  BY DEF UpTo, Expanding, Tok
<1>2. \A i : (Size(i))' = Size(i) /\ (Tok(i))' = Tok(i)
  BY DEF Size, Tok
<1>3. End' = End
  BY DEF End
<1>4. \A i : /\ (Before(pr, work, i))' = Before(pr', work', i)
  BY <1>1, <1>2, <1>3 DEF Before, Reads, Skips, Blank
<1>5. \A i, j : (Early(pr, work, i, j))' = Early(pr', work', i, j)
  BY <1>1, <1>2, <1>3 DEF Early, Reads, Skips
<1>6. \A i, j : (Finishing(pr, work, i, j))' = Finishing(pr', work', i, j)
  BY <1>1, <1>2, <1>3 DEF Finishing, Reads
<1> QED
  BY <1>4, <1>5, <1>6 DEF CopyKept, CopyInv

\* What has been copied is how the content starts.
LEMMA CopiedStarts ==
  ASSUME doc \in Documents, NEW p, NEW w, CopyInv(p, w)
  PROVE  Starts(Origins(p.output)) /\ Origins(p.output) \in Seq(Places)
<1>1. PICK i \in 1..(Len(doc.toks) + 1), j \in Nat :
        \/ j = 0 /\ Before(p, w, i)
        \/ Early(p, w, i, j)
        \/ Finishing(p, w, i, j)
  BY DEF CopyInv
<1>2. Origins(p.output) = UpTo(i, j)
  BY <1>1 DEF Before, Early, Finishing, Reads
<1>3. CASE j = 0
  BY <1>2, <1>3, UpToStarts
<1>4. CASE j # 0
  <2>1. i \in DOMAIN doc.toks /\ j <= Size(i)
    <3>1. CASE Early(p, w, i, j)
      <4>1. Skips(p, i) /\ j <= p.triviaSkip
        BY <3>1 DEF Early
      <4>2. p.triviaSkip \in Nat /\ p.triviaSkip # 0
        BY <1>4, <4>1 DEF Skips
      <4>3. i \in DOMAIN doc.toks /\ p.triviaSkip <= Size(i)
        BY <4>1, <4>2 DEF Skips
      <4>4. Size(i) \in Nat
        BY <4>3, SizeTypes
      <4> QED
        BY <4>1, <4>2, <4>3, <4>4
    <3>2. CASE Finishing(p, w, i, j)
      BY <3>2 DEF Finishing
    <3> QED
      BY <1>1, <1>4, <3>1, <3>2
  <2>2. i \in 1..Len(doc.toks) /\ j \in 0..Size(i)
    <3>1. i \in 1..Len(doc.toks)
      BY <2>1, SizeTypes
    <3>2. Size(i) \in Nat
      BY <3>1, SizeTypes
    <3> QED
      BY <2>1, <3>1, <3>2
  <2> QED
    BY <1>2, <2>2, UpToRules, UpToStarts
<1> QED
  BY <1>3, <1>4

\* A sequence that starts another is its first members.
LEMMA StartIsFirstMembers ==
  ASSUME NEW S, NEW s \in Seq(S), NEW t \in Seq(S)
  PROVE  Len(s) \in 0..Len(s \o t) /\ SubSeq(s \o t, 1, Len(s)) = s
OBVIOUS

\* What is appended and is still a beginning is what comes next.
LEMMA NextIsCopied ==
  ASSUME NEW s \in Seq(Places), NEW e \in Places, Starts(Append(s, e))
  PROVE  \E n \in (Len(s) + 1)..Len(Contents(doc)) :
           Append(s, e) = SubSeq(Contents(doc), 1, n)
<1> DEFINE t == Append(s, e)
           n == Len(t)
<1>1. t \in Seq(Places) /\ n = Len(s) + 1 /\ Len(s) \in Nat
  OBVIOUS
<1>2. PICK rest \in Seq(Places) : Contents(doc) = t \o rest
  BY DEF Starts
<1> DEFINE all == t \o rest
<1>3. n \in 0..Len(all) /\ SubSeq(all, 1, n) = t
  <2> HIDE DEF t
  <2> QED
    BY <1>1, StartIsFirstMembers
<1>4. Len(all) \in Nat
  <2> HIDE DEF t
  <2> QED
    BY <1>1
<1> HIDE DEF t, n, all
<1>5. n \in (Len(s) + 1)..Len(all)
  BY <1>1, <1>3, <1>4
<1>6. Contents(doc) = all
  BY <1>2 DEF all
<1> QED
  BY <1>3, <1>5, <1>6 DEF t

\* Every step writes what comes next or leaves what has been written alone.
LEMMA StepCopies ==
  ASSUME IInv, CopyKept, Copied
  PROVE  [Copy!CopyNext]_<<Contents(doc), Origins(pr.output)>>
<1>1. doc' = doc /\ doc \in Documents /\ CopyInv(pr', work') /\ CopyInv(pr, work)
  BY DEF Copied, IInv, CopyKept
<1>2. Contents(doc') = Contents(doc)
  BY <1>1
<1>3. CASE Origins(pr'.output) = Origins(pr.output)
  BY <1>2, <1>3
<1>4. CASE \E e \in Places : Origins(pr'.output) = Append(Origins(pr.output), e)
  <2>1. PICK e \in Places : Origins(pr'.output) = Append(Origins(pr.output), e)
    BY <1>4
  <2>2. Starts(Origins(pr'.output))
    BY <1>1, CopiedStarts
  <2>3. Origins(pr.output) \in Seq(Places)
    BY <1>1, CopiedStarts
  <2>4. \E n \in (Len(Origins(pr.output)) + 1)..Len(Contents(doc)) :
          Origins(pr'.output) = SubSeq(Contents(doc), 1, n)
    BY <2>1, <2>2, <2>3, NextIsCopied
  <2>5. Copy!CopyNext
    BY <1>2, <2>4 DEF Copy!CopyNext
  <2> QED
    BY <2>5
<1> QED
  BY <1>3, <1>4 DEF Copied

\* The printer copies the content of its document.
THEOREM ContentCopiedCorrect ==
  ASSUME DirectivesHoldNoComments, NothingLeftOut
  PROVE  Spec => ContentCopied
<1>1. Init => CopyKept
  BY CopyInit DEF CopyKept
<1>2. IInv /\ CopyKept /\ [Next]_vars => Copied /\ CopyKept'
  <2> SUFFICES ASSUME IInv, CopyKept, [Next]_vars
               PROVE  Copied /\ CopyKept'
    OBVIOUS
  <2>1. Copied
    BY CopyNextStep DEF CopyKept
  <2>2. doc' = doc /\ CopyInv(pr', work')
    BY <2>1 DEF Copied
  <2> QED
    BY <2>1, <2>2, SameCopyInv
<1>3. Init => Copy!Init
  <2> SUFFICES ASSUME Init PROVE Copy!Init
    OBVIOUS
  <2>1. doc \in Documents /\ pr.output = <<>>
    BY DEF Init, NewPrinter
  <2>2. Contents(doc) \in DocumentContents
    BY <2>1 DEF DocumentContents
  <2>3. Origins(pr.output) = <<>>
    BY <2>1, OriginsNone
  <2> QED
    BY <2>2, <2>3 DEF Copy!Init
<1>4. IInv /\ CopyKept /\ [Next]_vars
        => [Copy!CopyNext]_<<Contents(doc), Origins(pr.output)>>
  BY <1>2, StepCopies
<1> QED
  BY <1>1, <1>2, <1>3, <1>4, Invariance, PTL DEF Spec, ContentCopied, Copy!Safety

=============================================================================
