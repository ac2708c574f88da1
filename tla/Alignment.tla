------------------------------ MODULE Alignment ------------------------------
(***************************************************************************)
(* The passes that run over the printed lines and align columns: packed    *)
(* dimensions, names of declarations, timing controls, assignment          *)
(* operators, parentheses of port connections, trailing comments.  Each    *)
(* pass classifies the lines anew, collects consecutive lines into a group *)
(* and pads the lines of the group when the group ends.                    *)
(*                                                                         *)
(* A line is the sequence of its words with the columns they start at.     *)
(* The passes move a word and what follows it; packed dimensions, which    *)
(* are one word, also get spaces between their brackets.                   *)
(***************************************************************************)
EXTENDS Integers, Sequences, FiniteSets, FiniteSetsExt

CONSTANTS
  Texts,   \* the sequences of lines that the printer may hand over
  Styles   \* the style options that matter here

\* std::string_view::npos.
npos == -1

Kinds == {"Assignment", "Comment", "Continuation", "Declaration", "DistItem", "Empty",
          "Other", "PortConnection", "PortListBoundary", "TimingControl"}

\* What the passes tell apart in a line.  "op" is everything from the operator
\* (or the parenthesis of a port connection) to the end of the code.
WordKinds == {"keyword", "type", "dim", "ident", "op", "code", "comment"}
Word == [what : WordKinds, at : Int, width : Nat \ {0}]

\* The pragmas, in both spellings.
Marks == {"none", "slang-format off", "slang-format on",
          "verilog_format: off", "verilog_format: on"}

\* What stands between the brackets of a dimension: a range, or one value (the
\* left one), and the spaces in front of it, around the colon and behind it.
Dim == [colon : BOOLEAN, lead : Int, left : Nat, before : Int, behind : Int,
        right : Nat, tail : Int]

\* text is what the words look like, kind, depth, excess and ranges are the
\* metadata of the tree walk (excess: by how many spaces the source had more than
\* the output; ranges: by how many it had more than one next to the colon of a
\* range), plain says that the operator is = and the code ends in , or ; and dims
\* is what the word "dim" is made of.
Line == [text : Kinds, kind : Kinds, depth : Nat, excess : Nat, ranges : Nat,
         plain : BOOLEAN, mark : Marks, words : Seq(Word), dims : Seq(Dim)]

Passes ==
  <<"PackedDimensions", "Declarations", "TimingControls", "Assignments", "PortConnections", "TrailingComments">>

PassNames == {Passes[k] : k \in DOMAIN Passes}

AlignConsecutiveStyle ==
  [Enabled : BOOLEAN, AcrossComments : BOOLEAN, AcrossEmptyLines : BOOLEAN,
   AcrossParameterPortList : BOOLEAN, InferFromSource : BOOLEAN,
   MaxPadding : Nat, MinPadding : Nat,
   AlignColon : BOOLEAN, PadLeft : BOOLEAN, PadRight : BOOLEAN]

RangeSpacingStyle == {"Always", "Never", "MatchSource", "Preserve"}

Style == [align : [PassNames -> AlignConsecutiveStyle],
          SpacesBeforeTrailingComments : Nat, ContinuationIndentWidth : Nat,
          RangeSpacing : RangeSpacingStyle]

ASSUME StylesAssumption == Styles \subseteq Style

ASSUME TextsAssumption == Texts \subseteq Seq(Line)

VARIABLES
  style,    \* the style in force
  text,     \* the lines as printed
  pass,     \* the pass that runs: 0 normalizeRangeSpacing, then an index of
            \* Passes; behind them all: done
  lines,    \* the lines the pass started with
  infos,    \* what the pass takes the lines for
  i,        \* the line the pass looks at
  state,    \* AlignState: the group that is open
  result    \* the lines the pass has written

vars == <<style, text, pass, lines, infos, i, state, result>>

-----------------------------------------------------------------------------
(* Columns. *)

Has(line, what) == \E k \in DOMAIN line.words : line.words[k].what = what

IndexOf(line, what) == CHOOSE k \in DOMAIN line.words : line.words[k].what = what

Column(line, what) ==
  IF Has(line, what) THEN line.words[IndexOf(line, what)].at ELSE npos

Indent(line) == IF line.words = <<>> THEN 0 ELSE line.words[1].at

WordEnd(word) == word.at + word.width

\* trimTrailingSpaces: where the code in front of a word ends.
EndBefore(line, k) == IF k = 1 THEN 0 ELSE WordEnd(line.words[k - 1])

\* The line with word k, and all that follows it, moved to another column.
MoveWord(line, k, column) ==
  [line EXCEPT !.words =
     [j \in DOMAIN line.words |->
        IF j < k THEN line.words[j]
        ELSE [line.words[j] EXCEPT !.at = @ + column - line.words[k].at]]]

MoveTo(line, what, column) ==
  IF Has(line, what) THEN MoveWord(line, IndexOf(line, what), column) ELSE line

-----------------------------------------------------------------------------
(* What the lines of a text have in common. *)

\* No bracket has less than no spaces.
SpacesCounted(dims) ==
  \A j \in DOMAIN dims : {dims[j].lead, dims[j].before, dims[j].behind, dims[j].tail} \subseteq Nat

\* Words do not overlap.
IsLaidOut(line) ==
  /\ \A w \in DOMAIN line.words :
       /\ line.words[w].at >= 0
       /\ \A v \in 1..(w - 1) : WordEnd(line.words[v]) <= line.words[w].at
  /\ SpacesCounted(line.dims)
  /\ Has(line, "dim") => line.dims # <<>>

\* The keyword comes first, what is declared or assigned to once and in front of the
\* operator, its dimensions right in front of it.
IsInOrder(line) ==
  \A w \in DOMAIN line.words :
    LET what == line.words[w].what
        before == {line.words[v].what : v \in 1..(w - 1)}
    IN  /\ what = "keyword" => w = 1
        /\ what \in {"dim", "op"} => w > 1
        /\ what \in {"dim", "ident"} => what \notin before /\ "op" \notin before
        /\ what = "dim" => w + 1 \in DOMAIN line.words /\ line.words[w + 1].what = "ident"

\* Spaces follow a keyword, and stand in front of a name.
HasNamesApart(line) ==
  \A w \in DOMAIN line.words :
    w > 1 /\ (line.words[w].what = "ident" \/ line.words[w - 1].what = "keyword") =>
      line.words[w].at > EndBefore(line, w)

StartsWith(line, what) == line.words # <<>> /\ line.words[1].what = what

\* What looks like an assignment and is a declaration carries on a list and starts
\* with the name; a timing control starts with its keyword; what starts with a
\* comment is one.
IsRecognised(line) ==
  /\ "Continuation" \notin {line.text, line.kind}
  /\ line.text = "Assignment" /\ line.kind = "Declaration" => StartsWith(line, "ident")
  /\ line.text = "TimingControl" => ~StartsWith(line, "ident")
  /\ StartsWith(line, "comment") => line.text = "Comment" /\ line.kind \in {"Comment", "Other"}

ASSUME LinesAssumption ==
  \A t \in Texts : \A k \in DOMAIN t :
    IsLaidOut(t[k]) /\ IsInOrder(t[k]) /\ HasNamesApart(t[k]) /\ IsRecognised(t[k])

-----------------------------------------------------------------------------
(* Packed dimensions. *)

DimWidth(dim) ==
  dim.lead + dim.left + dim.tail
    + (IF dim.colon THEN dim.before + 1 + dim.behind + dim.right ELSE 0)

\* The dimensions of a line stand next to one another, one space apart.
DimsWidth(dims) ==
  LET upTo[j \in 0..Len(dims)] ==
        IF j = 0 THEN -1 ELSE upTo[j - 1] + DimWidth(dims[j]) + 3
  IN  upTo[Len(dims)]

\* The line with other dimensions, and what follows them moved along.
WithDims(line, dims) ==
  LET k == IndexOf(line, "dim")
      grown == DimsWidth(dims) - line.words[k].width
  IN  [line EXCEPT !.dims = dims,
         !.words = [j \in DOMAIN line.words |->
                      CASE j < k -> line.words[j]
                        [] j = k -> [line.words[j] EXCEPT !.width = @ + grown]
                        [] j > k -> [line.words[j] EXCEPT !.at = @ + grown]]]

HasColonSpaces(dim) == dim.colon /\ (dim.before > 0 \/ dim.behind > 0)

SpacedBy(dim, before, behind) ==
  IF dim.colon THEN [dim EXCEPT !.before = before, !.behind = behind] ELSE dim

\* The spaces around the colon that the printer writes for those of the source.
EmitRangeOperator(dim) ==
  CASE style.RangeSpacing = "Always" -> SpacedBy(dim, 1, 1)
    [] style.RangeSpacing = "Never" -> SpacedBy(dim, 0, 0)
    [] style.RangeSpacing = "MatchSource" -> dim
    [] style.RangeSpacing = "Preserve" ->
         SpacedBy(dim, Min({dim.before, 1}), Min({dim.behind, 1}))

Printed(source) ==
  [k \in DOMAIN source |->
     IF Has(source[k], "dim")
     THEN WithDims(source[k], [j \in DOMAIN source[k].dims |->
                                 EmitRangeOperator(source[k].dims[j])])
     ELSE source[k]]

\* A colon with a space on either side gets one on both.
NormalizeBracketRange(dim) ==
  IF HasColonSpaces(dim) THEN SpacedBy(dim, 1, 1) ELSE SpacedBy(dim, 0, 0)

HasMultiSpaceRange(line) == style.RangeSpacing = "MatchSource" /\ line.ranges > 0

\* Lines of the port list behind a parameter list that was aligned by hand.
PortListAdjacentLines(ls) ==
  LET scan[k \in 0..Len(ls)] ==
        IF k = 0 THEN [boundaries |-> 0, excess |-> 0]
        ELSE LET was == scan[k - 1]
             IN  CASE ls[k].kind = "PortListBoundary" ->
                        [boundaries |-> CASE was.boundaries = 0 /\ was.excess >= 2 -> 1
                                          [] was.boundaries = 1 -> 2
                                          [] OTHER -> 0,
                         excess |-> 0]
                   [] ls[k].kind = "Empty" -> [boundaries |-> 0, excess |-> 0]
                   [] ls[k].kind = "Comment" -> was
                   [] OTHER -> IF was.boundaries >= 1 THEN was
                               ELSE [was EXCEPT !.excess = Max({@, ls[k].excess})]
  IN  {k \in DOMAIN ls : /\ ls[k].kind \notin {"PortListBoundary", "Empty", "Comment"}
                         /\ scan[k - 1].boundaries >= 1
                         /\ HasMultiSpaceRange(ls[k])}

\* Other lines of a port list: the spaces in their ranges count as alignment.
RangeExcessLines(ls) ==
  {k \in DOMAIN ls \ PortListAdjacentLines(ls) :
     /\ ls[k].kind \notin {"PortListBoundary", "Empty", "Comment"}
     /\ \E b \in 1..(k - 1) : /\ ls[b].kind = "PortListBoundary"
                              /\ \A m \in b..k : ls[m].kind # "Empty"}

-----------------------------------------------------------------------------
(* What a line is taken for. *)

LineInfo ==
  [kind : Kinds, indent : Int, keywordWidth : Nat, typeWidth : Int, identPos : Int,
   equalsPos : Int, dimPos : Int, depth : Nat, maxExcess : Nat, metadataKind : BOOLEAN]

PlainInfo(kind, line) ==
  [kind |-> kind, indent |-> Indent(line), keywordWidth |-> 0, typeWidth |-> 0,
   identPos |-> 0, equalsPos |-> npos, dimPos |-> npos, depth |-> 0, maxExcess |-> 0,
   metadataKind |-> FALSE]

\* By the text alone.
ClassifyLine(line, formatOff) ==
  CASE line.text \in {"Empty", "Comment", "PortListBoundary"} -> PlainInfo(line.text, line)
    [] line.text = "Other" -> PlainInfo("Other", line)
    [] OTHER ->
         IF formatOff THEN PlainInfo("Other", line)
         ELSE [PlainInfo(line.text, line) EXCEPT
                 !.keywordWidth = IF line.text = "Declaration" /\ Has(line, "keyword")
                                  THEN line.words[IndexOf(line, "keyword")].width ELSE 0,
                 !.typeWidth = IF line.text = "Assignment" THEN 0
                               ELSE Column(line, "ident") - Indent(line),
                 !.identPos = Column(line, "ident"),
                 !.equalsPos = Column(line, "op"),
                 !.dimPos = IF line.text = "Declaration" THEN Column(line, "dim") ELSE npos]

\* A declaration that starts with the name of a type.
ReclassifyAsDeclaration(line, info) ==
  IF Len(line.words) >= 2 /\ line.words[2].what = "ident"
  THEN [info EXCEPT !.typeWidth = Column(line, "ident") - info.indent,
                    !.identPos = Column(line, "ident")]
  ELSE info

ApplyLineMetadata(line, info, formatOff) ==
  LET deep == [info EXCEPT !.depth = line.depth, !.maxExcess = line.excess]
      named ==
        IF formatOff \/ line.kind = "Other" THEN deep
        ELSE [(IF line.kind = "Declaration" /\ info.kind = "Other"
               THEN ReclassifyAsDeclaration(line, deep) ELSE deep)
              EXCEPT !.kind = line.kind, !.metadataKind = TRUE]
  IN  IF named.kind \in {"PortConnection", "DistItem"}
      THEN [named EXCEPT !.equalsPos = Column(line, "op")]
      ELSE named

\* A name, a single = and a comma or semicolon at the end of the line.
IsContinuationLine(line) ==
  Len(line.words) = 2 /\ line.words[1].what = "ident" /\ line.plain

\* Mutation: the pragmas are not looked for.
FormatNeverOff(ls) == [k \in 0..Len(ls) |-> FALSE]

\* The passes find the pragmas as substrings, in one spelling.
FormatOff(ls) ==
  LET off[k \in 0..Len(ls)] ==
        k > 0 /\ CASE ls[k].mark = "slang-format off" -> TRUE
                   [] ls[k].mark = "slang-format on" -> FALSE
                   [] OTHER -> off[k - 1]
  IN  off

ClassifyLines(ls) ==
  LET off == FormatOff(ls)
      read == [k \in DOMAIN ls |->
                 ApplyLineMetadata(ls[k], ClassifyLine(ls[k], off[k]), off[k])]
      \* followsDeclaration, reclassifyContinuationLines
      follows[k \in 1..Len(ls)] ==
        LET shown == {j \in 1..(k - 1) : read[j].kind \notin {"Empty", "Comment"}}
            last == Max(shown)
        IN  /\ shown # {}
            /\ \/ read[last].kind \in {"Assignment", "Declaration", "Continuation"}
               \/ /\ read[last].kind = "Other" /\ ~read[last].metadataKind
                  /\ IsContinuationLine(ls[last])
                  /\ follows[last]
  IN  [k \in DOMAIN ls |->
         IF /\ read[k].kind \in {"Other", "Assignment"} /\ ~read[k].metadataKind
            /\ IsContinuationLine(ls[k])
            /\ follows[k]
         THEN [read[k] EXCEPT !.kind = "Continuation", !.typeWidth = 0,
                              !.keywordWidth = 0, !.dimPos = npos,
                              !.identPos = Indent(ls[k]), !.equalsPos = Column(ls[k], "op")]
         ELSE read[k]]

-----------------------------------------------------------------------------
(* Whether a group is aligned at all. *)

MaxOf(S) == Max(S \cup {0})

alignStyle == style.align[Passes[pass]]

InferContext(group) ==
  [enabled |-> alignStyle.InferFromSource, minGuarantee |-> FALSE,
   maxPadding |-> alignStyle.MaxPadding, minPadding |-> alignStyle.MinPadding,
   maxDisplacement |-> alignStyle.MaxPadding * style.ContinuationIndentWidth,
   groupMaxExcess |->
     MaxOf({infos[k].maxExcess : k \in group}
           \cup {lines[k].ranges : k \in {j \in group \cap RangeExcessLines(lines) :
                                            HasMultiSpaceRange(lines[j])}})]

\* Mutation: no padding at all where the limit is zero.
NoUnlimitedPadding(displacement, ctx) ==
  IF ctx.enabled THEN displacement \in 1..ctx.minPadding \/ ctx.groupMaxExcess > 2
  ELSE displacement <= ctx.maxPadding

\* Mutation: the limit of inference is the one that holds without it.
SwappedLimits(displacement, ctx) ==
  IF ctx.enabled
  THEN \/ ctx.minGuarantee /\ displacement \in 1..2
       \/ displacement \in 1..ctx.minPadding
       \/ displacement <= ctx.maxPadding /\ ctx.groupMaxExcess > 2
  ELSE ctx.maxDisplacement = 0 \/ displacement <= ctx.maxDisplacement

InferAlignPolicy(displacement, ctx) ==
  IF ctx.enabled
  THEN \/ ctx.minGuarantee /\ displacement \in 1..2
       \/ displacement \in 1..ctx.minPadding
       \/ /\ ctx.maxDisplacement = 0 \/ displacement <= ctx.maxDisplacement
          /\ ctx.groupMaxExcess > 2
  ELSE ctx.maxPadding = 0 \/ displacement <= ctx.maxPadding

-----------------------------------------------------------------------------
(* Padding the lines of a group.  Each operator gives the padded lines of    *)
(* the group, a set of consecutive line numbers.                             *)

\* How wide the colon of a range is taken to be when the widest one is looked for.
ColonWidth(dim) ==
  IF ~dim.colon THEN 0
  ELSE CASE style.RangeSpacing = "Always" -> 3
         [] style.RangeSpacing = "Never" -> 1
         [] OTHER -> IF HasColonSpaces(dim) THEN 3 ELSE 1

\* The spaces that the colon really gets on each side.
EmitColon(dim) ==
  CASE style.RangeSpacing = "Always" -> 1
    [] style.RangeSpacing = "Never" -> 0
    [] OTHER -> IF HasColonSpaces(dim) THEN 1 ELSE 0

\* Mutation: what is written is measured with the spaces it had before.
EmitDimContentUnspaced(dim, slot) ==
  LET maxFull == MaxOf({d.left + d.right + ColonWidth(d) : d \in slot})
  IN  [dim EXCEPT !.lead = maxFull - DimWidth(dim)]

\* emitDimContent: the n-th dimension of a line, between the widest ones of the
\* group's lines.
EmitDimContent(dim, slot) ==
  LET gap == EmitColon(dim)
      written == DimWidth(SpacedBy([dim EXCEPT !.lead = 0, !.tail = 0], gap, gap))
      ranges == {d \in slot : d.colon}
      maxFull == MaxOf({d.left + d.right + ColonWidth(d) : d \in slot})
      maxLeft == MaxOf({d.left : d \in ranges})
      maxRight == MaxOf({d.right : d \in ranges})
      byColon == alignStyle.AlignColon /\ dim.colon
      short == IF byColon THEN maxRight - dim.right ELSE maxFull - written
      inFront == IF alignStyle.PadLeft THEN short ELSE 0
  IN  [dim EXCEPT
         !.lead = IF byColon THEN maxLeft - dim.left ELSE inFront,
         !.before = gap,
         !.behind = IF byColon THEN gap + inFront ELSE gap,
         !.tail = IF alignStyle.PadRight /\ ~alignStyle.PadLeft THEN short ELSE 0]

\* Declarations without dimensions count for the column, not for the policy.
GroupPackedDimensions(group, ctx) ==
  LET decls == {k \in group : infos[k].kind = "Declaration"}
      dimmed == {k \in decls : infos[k].dimPos # npos}
      columns == {infos[k].dimPos : k \in dimmed}
      maxDimCol == MaxOf(columns \cup {infos[k].identPos : k \in decls \ dimmed})
      aligned ==
        InferAlignPolicy(IF columns = {} THEN 0 ELSE Max(columns) - Min(columns), ctx)
      Slot(j) == {lines[k].dims[j] : k \in {l \in dimmed : j \in DOMAIN lines[l].dims}}
      Rewritten(line) ==
        IF alignStyle.AlignColon \/ alignStyle.PadLeft \/ alignStyle.PadRight
        THEN WithDims(line, [j \in DOMAIN line.dims |-> EmitDimContent(line.dims[j], Slot(j))])
        ELSE line
  IN  [k \in group |->
         IF aligned /\ k \in dimmed THEN Rewritten(MoveTo(lines[k], "dim", maxDimCol))
         ELSE lines[k]]

\* Lines that carry on a list of declarations follow the first line's column.
GroupDeclarations(group, ctx) ==
  LET decls == {k \in group : infos[k].kind = "Declaration"}
      Body(k) == infos[k].indent + (IF infos[k].keywordWidth > 0
                                    THEN infos[k].keywordWidth + 1 ELSE 0)
      NameWidth(k) ==
        MaxOf({(IF infos[k].dimPos # npos THEN infos[k].dimPos ELSE infos[k].identPos)
                 - Body(k)})
      BodyWidth(k) ==
        IF infos[k].dimPos # npos /\ infos[k].keywordWidth > 0
        THEN MaxOf({EndBefore(lines[k], IndexOf(lines[k], "dim")) - Body(k)})
               + 1 + infos[k].identPos - infos[k].dimPos
        ELSE infos[k].indent + infos[k].typeWidth - Body(k)
      maxTypeWidth == MaxOf({infos[k].typeWidth : k \in decls})
      keywords == MaxOf({infos[k].keywordWidth : k \in decls})
      maxKeywordWidth ==
        IF keywords + 1 + MaxOf({BodyWidth(k) : k \in decls}) > maxTypeWidth
        THEN 0 ELSE keywords
      valued == {k \in decls : infos[k].equalsPos # npos}
      maxIdentToEquals == MaxOf({infos[k].equalsPos - infos[k].identPos : k \in valued})
      names == {NameWidth(k) : k \in decls}
      aligned ==
        /\ Cardinality({k \in group : infos[k].kind \in {"Declaration", "Continuation"}}) >= 2
        /\ InferAlignPolicy(IF names = {} THEN 0 ELSE Max(names) - Min(names),
                            [ctx EXCEPT !.minGuarantee = (keywords = 0)])
      groupColumn == infos[Min(decls)].indent + maxTypeWidth
      Shaped(k) ==
        LET target == infos[k].indent + maxTypeWidth
            body == MoveWord(lines[k], 2, infos[k].indent + maxKeywordWidth + 1)
            dim == lines[k].words[IndexOf(lines[k], "dim")]
        IN  IF maxKeywordWidth = 0 \/ infos[k].keywordWidth = 0 THEN lines[k]
            ELSE IF infos[k].dimPos > lines[k].words[2].at
                 THEN MoveTo(body, "dim", target - dim.width - 1)
                 ELSE body
      Padded(k) ==
        LET named == MoveTo(Shaped(k), "ident", infos[k].indent + maxTypeWidth)
        IN  IF k \in valued
            THEN MoveTo(named, "op", infos[k].indent + maxTypeWidth + maxIdentToEquals)
            ELSE named
  IN  [k \in group |->
         CASE aligned /\ k \in decls /\ infos[k].identPos > infos[k].indent -> Padded(k)
           [] /\ aligned /\ infos[k].kind = "Continuation"
              /\ groupColumn > infos[k].indent -> MoveTo(lines[k], "ident", groupColumn)
           [] OTHER -> lines[k]]

\* A line that is a timing control by its metadata alone has no position for
\* its name and its operator: the differences of unsigned columns then move the
\* line as a whole.
GroupTimingControls(group) ==
  LET timed == {k \in group : infos[k].kind = "TimingControl"}
      maxTypeWidth == MaxOf({infos[k].typeWidth : k \in timed})
      Target(k) == infos[k].indent + maxTypeWidth
      Equals(k) == infos[k].equalsPos + Target(k) - infos[k].identPos
      maxEqualsCol == Max({Equals(k) : k \in timed})
  IN  [k \in group |->
         IF k \notin timed \/ Cardinality(timed) < 2 THEN lines[k]
         ELSE IF infos[k].equalsPos = npos
              THEN MoveWord(lines[k], 1, maxEqualsCol + 1 + infos[k].indent)
              ELSE MoveTo(MoveTo(lines[k], "ident", Target(k)), "op", maxEqualsCol)]

IsAlignable(k) ==
  /\ infos[k].kind \in {"Assignment", "Declaration", "Continuation", "DistItem"}
  /\ infos[k].equalsPos # npos

\* Mutation: lines of outer blocks do not part assignments.
NoDepthDrop(from, to, depth) == FALSE

\* assignSubRuns: what parts two assignments of one depth.
HasDepthDropBelow(from, to, depth) ==
  \E k \in (from + 1)..(to - 1) :
    infos[k].kind # "PortListBoundary" /\ infos[k].depth < depth

HasFlatGap(from, to, depth) ==
  /\ \E k \in (from + 1)..(to - 1) : infos[k].kind = "Other" /\ infos[k].depth = depth
  /\ \A k \in (from + 1)..(to - 1) : infos[k].depth <= depth

AssignSubRuns(members) ==
  LET run[k \in members] ==
        LET earlier == {j \in members : j < k /\ infos[j].depth = infos[k].depth}
            last == Max(earlier)
            parted == \/ HasDepthDropBelow(last, k, infos[k].depth)
                      \/ HasFlatGap(last, k, infos[k].depth)
        IN  IF earlier = {} THEN 0 ELSE run[last] + (IF parted THEN 1 ELSE 0)
  IN  run

GroupAssignments(group, ctx) ==
  LET members == {k \in group : IsAlignable(k)}
      subRun == AssignSubRuns(members)
      Bucket(k) == {j \in members : /\ infos[j].depth = infos[k].depth
                                    /\ subRun[j] = subRun[k]}
      Columns(k) == {infos[j].equalsPos : j \in Bucket(k)}
  IN  [k \in group |->
         IF /\ k \in members
            /\ Cardinality(Bucket(k)) >= 2
            /\ InferAlignPolicy(Max(Columns(k)) - Min(Columns(k)),
                 [ctx EXCEPT !.groupMaxExcess = MaxOf({infos[j].maxExcess : j \in Bucket(k)})])
         THEN MoveTo(lines[k], "op", Max(Columns(k)))
         ELSE lines[k]]

GroupPortConnections(group, ctx) ==
  LET ports == {k \in group : infos[k].kind = "PortConnection" /\ infos[k].equalsPos # npos}
      columns == {infos[k].equalsPos : k \in ports}
  IN  [k \in group |->
         IF /\ k \in ports /\ Cardinality(ports) >= 2
            /\ InferAlignPolicy(Max(columns) - Min(columns), ctx)
         THEN MoveTo(lines[k], "op", Max(columns))
         ELSE lines[k]]

CodeEnd(line) == EndBefore(line, IndexOf(line, "comment"))

GroupTrailingComments(group) ==
  LET commented == {k \in group : /\ infos[k].kind \notin {"Comment", "Empty"}
                                  /\ Has(lines[k], "comment")}
      maxCommentCol ==
        MaxOf({CodeEnd(lines[k]) + style.SpacesBeforeTrailingComments : k \in commented})
  IN  [k \in group |->
         IF k \in commented /\ Cardinality(commented) >= 2
         THEN MoveTo(lines[k], "comment", maxCommentCol)
         ELSE lines[k]]

-----------------------------------------------------------------------------
(* Groups. *)

Config(kinds) ==
  [memberKinds |-> kinds, continuationPassThrough |-> TRUE, depthScoped |-> FALSE,
   indentAlwaysBreaks |-> FALSE, portListAware |-> TRUE]

GroupBreakConfig ==
  [PackedDimensions |-> Config({"Declaration"}),
   Declarations    |-> Config({"Declaration"}),
   TimingControls  |-> [Config({"TimingControl"}) EXCEPT !.indentAlwaysBreaks = TRUE,
                                                         !.portListAware = FALSE],
   Assignments     |-> [Config({"Assignment", "Declaration", "DistItem"})
                          EXCEPT !.depthScoped = TRUE],
   PortConnections |-> [Config({"PortConnection"}) EXCEPT !.depthScoped = TRUE],
   TrailingComments |-> [Config({"Assignment", "Declaration", "TimingControl"})
                           EXCEPT !.continuationPassThrough = FALSE]]

config == GroupBreakConfig[Passes[pass]]

NoGroup == [groupStart |-> 0, inGroup |-> FALSE, groupIndent |-> 0, groupDepth |-> 0]

\* Does this line end the group that is open?
ShouldBreakGroup(info) ==
  IF /\ Passes[pass] = "PackedDimensions"
     /\ info.kind \in {"Declaration", "Continuation"} /\ info.dimPos = npos
  THEN FALSE
  ELSE CASE info.kind = "Continuation" /\ config.continuationPassThrough -> FALSE
         [] \/ info.kind \in config.memberKinds
            \/ info.kind = "Continuation" /\ ~config.continuationPassThrough ->
              /\ ~(config.depthScoped /\ state.groupDepth # info.depth)
              /\ state.groupIndent # info.indent
              /\ config.indentAlwaysBreaks \/ ~alignStyle.AcrossParameterPortList
         [] info.kind = "Empty" -> ~alignStyle.AcrossEmptyLines
         [] info.kind = "Comment" -> ~alignStyle.AcrossComments
         [] info.kind = "PortListBoundary" /\ config.portListAware ->
              ~alignStyle.AcrossParameterPortList
         [] OTHER -> config.depthScoped => info.depth < state.groupDepth

\* The lines of the open group, which ends in front of line end.
GroupLines(end) ==
  LET group == state.groupStart..(end - 1)
      ctx == InferContext(group)
      padded == CASE Passes[pass] = "PackedDimensions" -> GroupPackedDimensions(group, ctx)
                  [] Passes[pass] = "Declarations" -> GroupDeclarations(group, ctx)
                  [] Passes[pass] = "TimingControls" -> GroupTimingControls(group)
                  [] Passes[pass] = "Assignments" -> GroupAssignments(group, ctx)
                  [] Passes[pass] = "PortConnections" -> GroupPortConnections(group, ctx)
                  [] Passes[pass] = "TrailingComments" -> GroupTrailingComments(group)
  IN  [k \in 1..(end - state.groupStart) |-> padded[state.groupStart + k - 1]]

-----------------------------------------------------------------------------
(* applyAlignConsecutive. *)

Init ==
  /\ style \in Styles /\ \E source \in Texts : text = Printed(source)
  /\ pass = 0 /\ lines = text /\ infos = ClassifyLines(text)
  /\ i = 1 /\ state = NoGroup /\ result = <<>>

Scanning ==
  /\ pass \in DOMAIN Passes /\ alignStyle.Enabled
  /\ i \in DOMAIN lines

Breaks == state.inGroup /\ ShouldBreakGroup(infos[i])

\* What is written, and whether a group is open, once the line has been asked.
Flushed == IF Breaks THEN result \o GroupLines(i) ELSE result

StillInGroup == state.inGroup /\ ~Breaks

Starts == infos[i].kind \in config.memberKinds /\ ~StillInGroup

StartGroup ==
  /\ Scanning /\ Starts
  /\ result' = Flushed
  /\ state' = [groupStart |-> i, inGroup |-> TRUE, groupIndent |-> infos[i].indent,
               groupDepth |-> infos[i].depth]
  /\ i' = i + 1
  /\ UNCHANGED <<style, text, pass, lines, infos>>

JoinGroup ==
  /\ Scanning /\ StillInGroup
  /\ i' = i + 1
  /\ UNCHANGED <<style, text, pass, lines, infos, state, result>>

PassThrough ==
  /\ Scanning /\ ~Starts /\ ~StillInGroup
  /\ result' = Append(Flushed, lines[i])
  /\ state' = NoGroup
  /\ i' = i + 1
  /\ UNCHANGED <<style, text, pass, lines, infos>>

\* Mutation: the group that is open at the end is forgotten.
EndPassUnflushed ==
  /\ pass \in DOMAIN Passes /\ alignStyle.Enabled
  /\ i > Len(lines)
  /\ lines' = result /\ infos' = ClassifyLines(result)
  /\ pass' = pass + 1
  /\ i' = 1 /\ state' = NoGroup /\ result' = <<>>
  /\ UNCHANGED <<style, text>>

\* The last group is padded, and the next pass starts with what was written.
EndPass ==
  /\ pass \in DOMAIN Passes /\ alignStyle.Enabled
  /\ i > Len(lines)
  /\ LET written == IF state.inGroup THEN result \o GroupLines(i) ELSE result
     IN  lines' = written /\ infos' = ClassifyLines(written)
  /\ pass' = pass + 1
  /\ i' = 1 /\ state' = NoGroup /\ result' = <<>>
  /\ UNCHANGED <<style, text>>

SkipPass ==
  /\ pass \in DOMAIN Passes /\ ~alignStyle.Enabled
  /\ pass' = pass + 1
  /\ UNCHANGED <<style, text, lines, infos, i, state, result>>

\* Only when the pass over dimensions infers alignment, and before it.
NormalizeRangeSpacing ==
  /\ pass = 0
  /\ lines' = [k \in DOMAIN lines |->
                 IF /\ style.align["PackedDimensions"].InferFromSource
                    /\ HasMultiSpaceRange(lines[k]) /\ Has(lines[k], "dim")
                    /\ k \notin PortListAdjacentLines(lines)
                 THEN WithDims(lines[k], [j \in DOMAIN lines[k].dims |->
                                            NormalizeBracketRange(lines[k].dims[j])])
                 ELSE lines[k]]
  /\ infos' = ClassifyLines(lines')
  /\ pass' = 1
  /\ UNCHANGED <<style, text, i, state, result>>

Next == NormalizeRangeSpacing \/ StartGroup \/ JoinGroup \/ PassThrough \/ EndPass \/ SkipPass

Spec == Init /\ [][Next]_vars
=============================================================================
