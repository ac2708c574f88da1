------------------------- MODULE AlignmentProperties -------------------------
(***************************************************************************)
(* What the alignment passes promise: columns of neighbours meet, nothing  *)
(* but spaces between words changes, and what a group may not reach stays  *)
(* as it was.                                                              *)
(***************************************************************************)
EXTENDS Alignment

\* All lines, the ones not yet written as the pass has found them.
Whole ==
  result \o SubSeq(lines, IF state.inGroup THEN state.groupStart ELSE i, Len(lines))

Gap(line, k) == line.words[k].at - EndBefore(line, k)

\* Padding goes between words: no two words overlap, words that were apart do not
\* merge, and no bracket gets less than no spaces (a difference of unsigned widths
\* would wrap).  Only lines that carry on a list of declarations start at another
\* column than the printer gave them.
LaidOut(line, was) ==
  /\ IsContinuationLine(was) \/ Indent(line) = Indent(was)
  /\ SpacesCounted(line.dims)
  /\ \A w \in DOMAIN line.words :
       /\ line.words[w].at >= 0
       /\ line.words[w].what = "dim" => line.words[w].width = DimsWidth(line.dims)
       /\ w > 1 => /\ Gap(line, w) >= 0
                   /\ Gap(was, w) > 0 => Gap(line, w) > 0

\* Types of all variables: every line that is written or still to be written is laid
\* out like a line, and an open group has started before the line the pass looks at.
TypeOK ==
  /\ style \in Style
  /\ {text, lines, result} \subseteq Seq(Line)
  /\ \A k \in DOMAIN Whole : LaidOut(Whole[k], text[k])
  /\ pass \in 0..(Len(Passes) + 1)
  /\ infos \in [1..Len(lines) -> LineInfo]
  /\ i \in 1..(Len(lines) + 1)
  /\ state.inGroup => state.groupStart \in 1..(i - 1)

\* The same dimensions, but for their spaces.
SameDims(one, other) ==
  /\ Len(one) = Len(other)
  /\ \A j \in DOMAIN one :
       /\ one[j].colon = other[j].colon
       /\ one[j].left = other[j].left /\ one[j].right = other[j].right

\* applyAlignConsecutive: whatever opens, joins and ends groups, every line is
\* written once, in order, with all its words, and nothing of it changes but where
\* the words stand and the spaces in its brackets.
LinesKept ==
  /\ Len(Whole) = Len(text)
  /\ \A k \in DOMAIN Whole :
       LET was == text[k].words
           is == Whole[k].words
       IN  /\ [Whole[k] EXCEPT !.words = was, !.dims = text[k].dims] = text[k]
           /\ Len(is) = Len(was)
           /\ \A w \in DOMAIN is :
                /\ is[w].what = was[w].what
                /\ is[w].what # "dim" => is[w].width = was[w].width
           /\ SameDims(Whole[k].dims, text[k].dims)

\* shouldBreakGroup, assignSubRuns: an operator moves only to the column of an
\* operator of the same depth, with no line of an outer block between them, and
\* no blank line, comment or end of a port list that the style does not allow
\* to reach across.
NoAlignmentAcross ==
  pass \in DOMAIN Passes /\ Passes[pass] = "Assignments" =>
    \A k \in DOMAIN result :
      \/ result[k] = lines[k]
      \/ \E j \in DOMAIN lines :
           /\ infos[j].depth = infos[k].depth
           /\ infos[j].equalsPos = Column(result[k], "op")
           /\ \A m \in (Min({j, k}) + 1)..(Max({j, k}) - 1) :
                /\ infos[m].depth >= infos[k].depth \/ infos[m].kind = "PortListBoundary"
                /\ infos[m].kind = "Empty" => alignStyle.AcrossEmptyLines
                /\ infos[m].kind = "Comment" => alignStyle.AcrossComments
                /\ infos[m].kind = "PortListBoundary" => alignStyle.AcrossParameterPortList

Unlimited(name) ==
  /\ style.align[name].Enabled
  /\ ~style.align[name].InferFromSource /\ style.align[name].MaxPadding = 0

ColonColumn(line) == Column(line, "dim") + 1 + DimWidth([line.dims[1] EXCEPT !.colon = FALSE,
                                                           !.tail = 0]) + line.dims[1].before

\* alignGroupDimensions, emitDimContent: the pass over packed dimensions, without
\* limits, brings the brackets of neighbours to one column, the colons of the first
\* ranges with AlignColon (where both are written alike), and the ends with PadLeft
\* or PadRight; the later passes keep what they met at, except that lines that start
\* with a direction or parameter keyword are laid out anew by the next pass.
DimensionsShareColumns ==
  Unlimited("PackedDimensions") =>
    \A k \in 1..(Len(lines) - 1) :
      LET one == lines[k]
          two == lines[k + 1]
          padded == style.align["PackedDimensions"]
          Dimmed(m) == infos[m].kind = "Declaration" /\ infos[m].dimPos # npos
          Alike(j) == /\ one.dims[j].colon = two.dims[j].colon
                      /\ HasColonSpaces(one.dims[j]) = HasColonSpaces(two.dims[j])
      IN  /\ Dimmed(k) /\ Dimmed(k + 1) /\ infos[k].indent = infos[k + 1].indent
          /\ \/ pass = 2
             \/ /\ pass > Len(Passes)
                /\ infos[k].keywordWidth = 0 /\ infos[k + 1].keywordWidth = 0
          => /\ Column(one, "dim") = Column(two, "dim")
             /\ padded.AlignColon /\ one.dims[1].colon /\ Alike(1) =>
                  ColonColumn(one) = ColonColumn(two)
             /\ /\ padded.PadLeft \/ padded.PadRight
                /\ Len(one.dims) = Len(two.dims)
                /\ padded.AlignColon => \A j \in DOMAIN one.dims : Alike(j)
                => DimsWidth(one.dims) = DimsWidth(two.dims)

\* The passes in sequence: when all have run without limits, two neighbours at
\* one indentation that a pass is about end in the same column, although later
\* passes have moved what stands behind it.
NeighboursShareColumns ==
  pass > Len(Passes) =>
    \A k \in 1..(Len(lines) - 1) :
      LET one == infos[k]
          two == infos[k + 1]
          Both(kinds) == one.kind \in kinds /\ two.kind \in kinds
          Meet(what) == Column(lines[k], what) = Column(lines[k + 1], what)
          Have(what) == Has(lines[k], what) /\ Has(lines[k + 1], what)
      IN  one.indent = two.indent =>
            /\ Unlimited("Declarations") /\ Both({"Declaration"})
               /\ one.identPos > one.indent /\ two.identPos > two.indent => Meet("ident")
            /\ Unlimited("TimingControls") /\ Both({"TimingControl"}) =>
                 Meet("ident") /\ Meet("op")
            /\ Unlimited("Assignments") /\ one.depth = two.depth
               /\ one.kind \in {"Assignment", "Declaration", "DistItem"}
               /\ IsAlignable(k) /\ IsAlignable(k + 1) => Meet("op")
            /\ Unlimited("PortConnections") /\ one.depth = two.depth
               /\ Both({"PortConnection"}) => Meet("op")
            /\ style.align.TrailingComments.Enabled /\ Have("comment")
               /\ Both({"Assignment", "Declaration", "TimingControl"}) =>
                 /\ Meet("comment")
                 /\ Gap(lines[k], Len(lines[k].words)) >= style.SpacesBeforeTrailingComments

\* Six passes in sequence, each of which moves what an earlier one has aligned: what
\* was brought to one column stays there, in the text as it is written in the end.
ColumnsMeet == DimensionsShareColumns /\ NeighboursShareColumns

\* The passes that decide by the columns of the words they move.
Limited == pass \in DOMAIN Passes /\ Passes[pass] \in {"Assignments", "PortConnections"}

\* By how much the operator or parenthesis of a written line has moved.
Moved(k) == Column(result[k], "op") - Column(lines[k], "op")

MovedAtMost(limit) == \A k \in DOMAIN result : Has(lines[k], "op") => Moved(k) <= limit

\* The source has no more spaces than the printer writes: nothing in it has been
\* aligned by hand.
NothingSpaced == \A k \in DOMAIN text : text[k].excess = 0 /\ text[k].ranges = 0

\* inferAlignPolicy keeps the documented limits, whichever line has the far column and
\* joins the group when: without inference no operator or parenthesis moves further
\* than MaxPadding, and with it none moves further than MinPadding in a text that
\* shows no alignment to infer.  (What else inference moves may exceed the documented
\* MaxPadding: see the disagreements in README.md.)
PaddingLimited ==
  Limited =>
    /\ ~alignStyle.InferFromSource /\ alignStyle.MaxPadding > 0 =>
         MovedAtMost(alignStyle.MaxPadding)
    /\ alignStyle.InferFromSource /\ NothingSpaced => MovedAtMost(alignStyle.MinPadding)

\* The lines of a text between the comments that switch formatting off and on.
OffIn(ls) ==
  {k \in DOMAIN ls :
     \E from \in 1..(k - 1) :
       /\ ls[from].mark \in {"slang-format off", "verilog_format: off"}
       /\ \A m \in from..k : ls[m].mark \notin {"slang-format on", "verilog_format: on"}}

\* Lines of a region where formatting is off are not padded by any pass.
OffLinesUntouched == \A k \in OffIn(text) : Whole[k].words = text[k].words
=============================================================================
