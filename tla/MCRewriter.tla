------------------------------ MODULE MCRewriter ------------------------------
(***************************************************************************)
(* Small trees with the constructs that the passes look for, nested in one *)
(* another, and the styles that combine the passes.                        *)
(***************************************************************************)
EXTENDS RewriterProperties

N(kind, kids) == Plain(kind, kids)
Event(sep, kids) == [Plain("BinaryEvent", kids) EXCEPT !.sep = sep]
Dims(kind, bounds) == [Plain(kind, <<>>) EXCEPT !.bounds = bounds]
Tree(ns) == [nodes |-> ns, root |-> 1]

\* always @(a or b, c) if (x) if (y) s; else t; else if (z) begin u; end else ;
Nested(seps) ==
  Tree(<<N("Always", <<2>>),
         N("Timing", <<3, 4>>),
         N("ExpressionControl", <<5>>), N("Conditional", <<11, 12>>),
         N("Parens", <<6>>), Event(seps[1], <<7, 8>>), Event(seps[2], <<9, 10>>),
         N("Signal", <<>>), N("Signal", <<>>), N("Signal", <<>>),
         N("Conditional", <<13, 14>>), N("Conditional", <<15, 16>>),
         N("Statement", <<>>), N("Statement", <<>>),
         N("Block", <<17>>), N("Empty", <<>>), N("Statement", <<>>)>>)

\* initial while (x) case (y) 0: ; 1: repeat (2) s; default: begin end endcase
Cases ==
  Tree(<<N("Initial", <<2>>), N("Loop", <<3>>), N("Case", <<4, 5, 6>>),
         N("CaseItem", <<7>>), N("CaseItem", <<8>>), N("CaseItem", <<9>>),
         N("Empty", <<>>), N("Loop", <<10>>), N("Block", <<>>), N("Statement", <<>>)>>)

\* logic [..:..] m [..:..]; initial #1 @e if (x) @* #(2) s;  always @f @g t;
Timings(parens, p, u) ==
  Tree(<<N("Module", <<2, 3, 4, 5>>), Dims("PackedRange", p), Dims("UnpackedRange", u),
         N("Initial", <<6>>), N("Always", <<15>>),
         N("Timing", <<7, 9>>), N("Delay", <<8>>), N("Signal", <<>>),
         N("Timing", <<10, 12>>), N("EventControl", <<11>>), N("Signal", <<>>),
         N("Conditional", <<13>>),
         N("Timing", <<14, 20>>),
         [N("ImplicitControl", <<>>) EXCEPT !.parens = parens],
         N("Timing", <<16, 18>>), N("EventControl", <<17>>), N("Signal", <<>>),
         N("Timing", <<19, 25>>), N("EventControl", <<26>>),
         N("Timing", <<21, 22>>), N("Delay", <<23>>), N("Statement", <<>>),
         N("Parens", <<24>>), N("Signal", <<>>), N("Statement", <<>>), N("Signal", <<>>)>>)

\* A single statement, which is a tree of its own: @e if (x) s;
Fragment ==
  Tree(<<N("Timing", <<2, 4>>), N("EventControl", <<3>>), N("Signal", <<>>),
         N("Conditional", <<5>>), N("Statement", <<>>)>>)

MCTrees ==
  {Nested(seps) : seps \in {"or", ","} \X {"or", ","}}
    \cup {Cases, Fragment}
    \cup {Timings(parens, b[1], b[2]) : parens \in BOOLEAN,
            b \in {<<<<0, 7>>, <<7, 0>>>>, <<<<7, 0>>, <<0, 7>>>>, <<<<3, 3>>, <<>>>>}}

St(enabled, bodies, parens, separator, packed, unpacked) ==
  [beginEnd |-> enabled, bodies |-> bodies, parens |-> parens, separator |-> separator,
   packed |-> packed, unpacked |-> unpacked]

MCStyles ==
  {St(TRUE, bodies, parens, sep, "MSBFirst", "LSBFirst") :
     bodies \in SUBSET {"control", "always", "initial"},
     parens \in {{}, {"Delay"}, ControlKinds}, sep \in {"Comma", "Or"}}
  \cup {St(FALSE, {"control"}, {"EventControl", "ImplicitControl"}, "Preserve", order[1],
           order[2]) :
          order \in {<<"Preserve", "MSBFirst">>, <<"LSBFirst", "Preserve">>}}

=============================================================================
