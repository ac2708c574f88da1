----------------------------- MODULE MCAlignment -----------------------------
(***************************************************************************)
(* Short texts of the lines that the passes look for, in the order and at  *)
(* the depths in which the printer gives them.                             *)
(***************************************************************************)
EXTENDS AlignmentProperties

\* The words, given with the gap in front of each and its width.
Lay(indent, parts) ==
  LET at[k \in DOMAIN parts] ==
        (IF k = 1 THEN indent ELSE at[k - 1] + parts[k - 1][3]) + parts[k][2]
  IN  [k \in DOMAIN parts |-> [what |-> parts[k][1], at |-> at[k], width |-> parts[k][3]]]

\* [3:0] or [15:0], with spaces around the colon
Of(left, before, behind) ==
  [colon |-> TRUE, lead |-> 0, left |-> left, before |-> before, behind |-> behind,
   right |-> 1, tail |-> 0]

L(textKind, kind, depth, parts) ==
  [text |-> textKind, kind |-> kind, depth |-> depth, excess |-> 0, ranges |-> 0,
   plain |-> FALSE, mark |-> "none", words |-> Lay(2 * depth, parts),
   dims |-> IF \E k \in DOMAIN parts : parts[k][1] = "dim" THEN <<Of(1, 0, 0)>> ELSE <<>>]

First(what, width) == <<what, 0, width>>
Then(what, width) == <<what, 1, width>>
Remark(line) ==
  [line EXCEPT !.words = Append(@, [what |-> "comment", width |-> 4,
                                    at |-> WordEnd(@[Len(@)]) + 2])]

\* v <= x;   v = x;   assign v = x;   the same with spaces added by hand
NonBlocking(d, w) == L("Assignment", "Other", d, <<First("ident", w), Then("op", 5)>>)
Blocking(d, w) == [NonBlocking(d, w) EXCEPT !.plain = TRUE]
Spaced(d, w, n) == [NonBlocking(d, w) EXCEPT !.excess = n]
Assign(d, w) ==
  L("Assignment", "Assignment", d, <<First("type", 6), Then("ident", w), Then("op", 4)>>)

\* int v;   logic [3:0] v = x;   t v = x;   t [3:0] v;
IntDecl(d) == L("Declaration", "Declaration", d, <<First("type", 3), Then("ident", 2)>>)
Logic(d, w) ==
  L("Declaration", "Declaration", d,
    <<First("type", 5), Then("dim", 5), Then("ident", w), Then("op", 4)>>)
Named(d) == L("Other", "Declaration", d, <<First("type", 1), Then("ident", 1), Then("op", 4)>>)
NamedDim(d) ==
  L("Other", "Declaration", d, <<First("type", 1), Then("dim", 5), Then("ident", 2)>>)

\* input v,   output [3:0] v,   input logic [3:0] v,   parameter v = x,
In(d) == L("Declaration", "Declaration", d, <<First("keyword", 5), Then("ident", 2)>>)
Out(d) ==
  L("Declaration", "Declaration", d, <<First("keyword", 6), Then("dim", 5), Then("ident", 3)>>)
InLogic(d) ==
  L("Declaration", "Declaration", d,
    <<First("keyword", 5), Then("type", 5), Then("dim", 5), Then("ident", 2)>>)
Param(d, w) ==
  L("Declaration", "Declaration", d,
    <<First("keyword", 9), Then("ident", w), Then("op", 4)>>)

\* always #n v = x;   always @(e) v = x;
Clock(w) ==
  L("TimingControl", "TimingControl", 1,
    <<First("type", 7 + w), Then("ident", w), Then("op", 5)>>)
OnEvent == L("Other", "TimingControl", 1, <<First("code", 9), Then("code", 6)>>)

\* .p(x),   x := n,   [x:y] := n,
Port(d, w) ==
  L("Other", "PortConnection", d, <<First("ident", w), <<"op", 0, 4>>>>)
Dist(d, w) == L("Assignment", "DistItem", d, <<First("ident", w), Then("op", 5)>>)
DistRange(d) == L("Other", "DistItem", d, <<First("code", 5), Then("op", 5)>>)

\* begin, end, if (x), case (x);   ) ( and );   blank lines and comments
Code(d) == L("Other", "Other", d, <<First("code", 5)>>)
Boundary(d) == L("PortListBoundary", "PortListBoundary", d, <<First("code", 2)>>)
Blank(d) == L("Empty", "Empty", d, <<>>)
Note(d, mark) == [L("Comment", "Comment", d, <<First("comment", 8)>>) EXCEPT !.mark = mark]

-----------------------------------------------------------------------------
(* Texts. *)

Anywhere ==
  {IntDecl(1), Remark(Logic(1, 1)), Named(1), NamedDim(1), Param(1, 3), Blank(1),
   Note(1, "none"), Code(1)}

ModuleMembers ==
  {Assign(1, 5), Remark(Assign(1, 1)), Clock(1), Remark(Clock(2)), OnEvent} \cup Anywhere

BlockMembers ==
  {NonBlocking(1, 4), Blocking(1, 2), Remark(Blocking(1, 1)), Spaced(1, 8, 3),
   Spaced(1, 14, 3)} \cup Anywhere

\* A line that waits for an event is the only timing control.
BodyTexts ==
  {t \in [1..3 -> ModuleMembers] :
     \A k \in 1..3 : t[k] = OnEvent => \A j \in 1..3 \ {k} : t[j].kind # "TimingControl"}
  \cup [1..3 -> BlockMembers]

\* Blocks: a deeper line follows a line that opens a block, a blank line has the
\* depth of the line in front of it.
Realistic(t) ==
  \A k \in 1..(Len(t) - 1) :
    \/ t[k + 1].depth = t[k].depth
    \/ t[k + 1].depth < t[k].depth /\ t[k + 1].text # "Empty"
    \/ t[k].text = "Other" /\ t[k + 1].depth = t[k].depth + 1 /\ t[k + 1].text # "Empty"

NestedTexts ==
  {t \in {[k \in 1..6 |-> IF f[k][1] = "code" THEN Code(f[k][2])
                          ELSE IF f[k][1] = "blank" THEN Blank(f[k][2])
                          ELSE NonBlocking(f[k][2], ((3 * k) % 7) + 1)] :
            f \in [1..6 -> {"code", "set", "blank"} \X {1, 2}]} :
     t[1].depth = 1 /\ t[1].text # "Empty" /\ Realistic(t)}

\* module m #(p, p) (p, p); b b
HeaderTexts ==
  {<<Code(0), Param(1, 1), p, Boundary(0), q, r, Boundary(0), b, Logic(1, 2)>> :
     p \in {Param(1, 4), Blank(1)}, q \in {In(1), Out(1), InLogic(1)},
     r \in {In(1), Out(1), InLogic(1)}, b \in {IntDecl(1), Param(1, 2), Assign(1, 1)}}

\* m u (.p(x), .p(x), .p(x)); v <= x;     x dist {x := n, [x:y] := n};
InstanceTexts ==
  {<<NonBlocking(1, 1), Code(1), Port(2, 4), x, Port(2, 2), Boundary(1), NonBlocking(1, 7)>> :
     x \in {Port(2, 9), Blank(2), Note(2, "none")}}
  \cup {<<Code(2), Dist(3, 1), x, Dist(3, w), Code(2), Blocking(2, 4)>> :
          x \in {DistRange(3), Blank(3), Note(3, "none")}, w \in {2, 8}}

\* A region where formatting is off.
RegionTexts ==
  {<<IntDecl(1), Note(1, "slang-format off"), a, b, Note(1, "slang-format on"),
     Assign(1, 3), Assign(1, 1)>> :
     a \in {Assign(1, 6), Logic(1, 1), Clock(2)}, b \in {Assign(1, 4), IntDecl(1), Clock(1)}}

\* bit [x] a;   logic [x] a;   logic signed [x] a;   longint a;   input logic [x] a,
Dims(width, dims) ==
  WithDims(L("Declaration", "Declaration", 1,
             <<First("type", width), Then("dim", 5), Then("ident", 2)>>), dims)
Longint == L("Declaration", "Declaration", 1, <<First("type", 7), Then("ident", 2)>>)
InDims(d, n) == [WithDims(InLogic(d), <<Of(1, n, n)>>) EXCEPT !.ranges = MaxOf({n - 1})]
One(width) == [Of(width, 0, 0) EXCEPT !.colon = FALSE, !.right = 0]

Dimensioned ==
  {Dims(3, <<Of(2, 0, 0)>>), Dims(5, <<Of(1, 1, 0)>>), Dims(5, <<Of(1, 0, 0), Of(2, 0, 1)>>),
   Dims(12, <<One(2)>>), [Dims(5, <<Of(1, 4, 2)>>) EXCEPT !.ranges = 3], Longint, Blank(1),
   Note(1, "none")}

DimTexts == [1..3 -> Dimensioned]

\* module m #(p) (p, p, p); with a parameter aligned by hand or not
RangeTexts ==
  {<<Code(0), [Param(1, 1) EXCEPT !.excess = e], Boundary(0), InDims(1, n), x, Out(1),
     InDims(1, 0), Boundary(0), InDims(1, n)>> :
     e \in {0, 2}, n \in {1, 4}, x \in {InDims(1, 5), Blank(1), Note(1, "none")}}

\* endmodule
Closed(texts) == {Append(t, Code(0)) : t \in texts}

MCTexts ==
  Closed(DimTexts \cup BodyTexts \cup NestedTexts \cup RegionTexts \cup InstanceTexts)
  \cup RangeTexts \cup HeaderTexts

-----------------------------------------------------------------------------
(* Styles. *)

Consecutive(across, infer, most, least) ==
  [Enabled |-> TRUE, AcrossComments |-> across, AcrossEmptyLines |-> across,
   AcrossParameterPortList |-> across, InferFromSource |-> infer,
   MaxPadding |-> most, MinPadding |-> least,
   AlignColon |-> FALSE, PadLeft |-> FALSE, PadRight |-> FALSE]

Everywhere(s) ==
  [align |-> [p \in PassNames |-> s], SpacesBeforeTrailingComments |-> 2,
   ContinuationIndentWidth |-> 4, RangeSpacing |-> "MatchSource"]

\* The values Style.h gives when no configuration file is found.
DefaultStyle ==
  [Everywhere(Consecutive(FALSE, TRUE, 2, 2)) EXCEPT
     !.align.Declarations.MinPadding = 0,
     !.align.PackedDimensions.MinPadding = 0,
     !.align.PackedDimensions.PadLeft = TRUE,
     !.align.TimingControls.Enabled = FALSE,
     !.align.TrailingComments.Enabled = FALSE]

MCStyles ==
  {DefaultStyle,
   [Everywhere(Consecutive(FALSE, FALSE, 0, 0)) EXCEPT
      !.align.PackedDimensions.AlignColon = TRUE, !.align.PackedDimensions.PadLeft = TRUE,
      !.RangeSpacing = "Preserve"],
   [Everywhere(Consecutive(TRUE, FALSE, 0, 0)) EXCEPT !.align.PackedDimensions.PadRight = TRUE],
   [Everywhere(Consecutive(TRUE, FALSE, 2, 0)) EXCEPT
      !.align.PackedDimensions.AlignColon = TRUE, !.RangeSpacing = "Always"]}

=============================================================================
