---------------------------- MODULE MCFormatPrinter ----------------------------
(***************************************************************************)
(* Small documents and styles for checking FormatPrinter.  A document is   *)
(* one of a few trees whose tokens are all preceded by one space, or laid  *)
(* out in lines, except for at most two tokens that are preceded by some   *)
(* other gap.                                                              *)
(***************************************************************************)
EXTENDS PrinterProperties

Piece(kind, pragma, lines, width) ==
  [kind |-> kind, pragma |-> pragma, lines |-> lines, width |-> width,
   place |-> "token"]

SP  == Piece("Whitespace", "none", 0, 1)
SP2 == Piece("Whitespace", "none", 0, 2)
NL  == Piece("EndOfLine", "none", 0, 0)
LC  == Piece("LineComment", "none", 0, 0)
BC  == Piece("BlockComment", "none", 0, 0)
OFF == Piece("LineComment", "off", 0, 0)
ON  == Piece("LineComment", "on", 0, 0)
BOFF == Piece("BlockComment", "off", 0, 0)
BON  == Piece("BlockComment", "on", 0, 0)

\* What a directive is made of; the trivia of its first and of its later tokens.
Of(kind) == Piece(kind, "none", 0, 0)
CONT     == Piece("DirectiveToken", "none", 1, 0)
First1(t) == [t EXCEPT !.place = "first"]
Later(t)  == [t EXCEPT !.place = "later"]

\* `name word, on a line of its own, and the same in two lines
DIRECTIVE == <<Of("Directive"), First1(NL), First1(SP), Of("DirectiveName"), Later(SP),
            Of("DirectiveToken"), Of("DirectiveEnd"), NL>>
CONTINUED == <<Of("Directive"), First1(NL), Of("DirectiveName"), Later(SP), CONT,
               Later(SP), Of("DirectiveToken"), Of("DirectiveEnd"), SP, LC, NL>>

\* `ifdef word, begin, word, end, `endif, each on a line of its own
DISABLED == <<Of("Directive"), First1(NL), Of("DirectiveName"), Later(SP),
              Of("DirectiveToken"), Later(NL), Later(SP2), Of("DirectiveOpen"),
              Later(NL), Later(SP), Of("DirectiveToken"), Later(NL),
              Of("DirectiveClose"), Of("DirectiveEnd"),
              Of("Directive"), First1(NL), Of("DirectiveName"), Of("DirectiveEnd"),
              NL, SP>>

\* `macro behind the token before, behind a comment, on a new line
MACRO      == <<Of("MacroUsage"), First1(SP), Of("DirectiveName"), Of("DirectiveEnd")>>
LATE_MACRO == <<Of("MacroUsage"), First1(SP), First1(LC), First1(NL), First1(SP),
                Of("DirectiveName"), Of("DirectiveEnd")>>
TWO_MACROS == MACRO \o <<SP>> \o MACRO
LINE_MACRO == <<Of("MacroUsage"), First1(NL), First1(SP), Of("DirectiveName"),
                Of("DirectiveEnd")>>

DirectiveGaps == {DIRECTIVE, CONTINUED, DISABLED, TWO_MACROS, LATE_MACRO, LINE_MACRO}

BlankGaps   == {<<NL>>, <<NL, NL>>, <<NL, SP, NL, NL>>}
CommentGaps == {<<SP, LC, NL>>, <<NL, SP, LC, NL>>, <<SP, BC, SP>>,
                <<LC, NL, NL>>, <<BC>>}
OffGaps     == {<<SP, OFF, NL>>, <<NL, OFF, NL>>, <<SP, BOFF, SP>>}
OnGaps      == {<<NL, ON, NL>>, <<SP, BON, SP>>}

-----------------------------------------------------------------------------
(* Trees.  lines are the tokens that begin a line in the lines layout. *)

Labelled(kind, label, head, kids, tail, first, last) ==
  [kind |-> kind, label |-> label, head |-> head, kids |-> kids, tail |-> tail,
   first |-> first, last |-> last]

N(kind, head, kids, tail, first, last) ==
  Labelled(kind, <<>>, head, kids, tail, first, last)

Leaf(first, last) ==
  N("Leaf", [k \in 1..(last - first + 1) |-> first + k - 1], <<>>, <<>>, first, last)

\* module m; always @(clk) begin @(a) b; c; end endmodule
AlwaysTree ==
  [kinds |-> <<"Keyword", "Identifier", "Semicolon", "Keyword", "At",
               "OpenParenthesis", "Identifier", "CloseParenthesis",
               "BeginKeyword", "At", "OpenParenthesis", "Identifier",
               "CloseParenthesis", "Identifier", "Semicolon", "Identifier",
               "Semicolon", "EndKeyword", "Keyword", "EndOfFile">>,
   nodes |-> <<Leaf(14, 15),
               N("TimingControlStatement", <<10, 11, 12, 13>>, <<1>>, <<>>, 10, 15),
               Leaf(16, 17),
               N("BlockStatement", <<9>>, <<2, 3>>, <<18>>, 9, 18),
               N("TimingControlStatement", <<5, 6, 7, 8>>, <<4>>, <<>>, 5, 18),
               N("ProceduralBlock", <<4>>, <<5>>, <<>>, 4, 18),
               N("ModuleDeclaration", <<1, 2, 3>>, <<6>>, <<19>>, 1, 19)>>,
   lines |-> {4, 10, 16, 18, 19}]

\* module m; always if (a) b = c; else if (d) begin e; end else while (f) g;
\* endmodule
ControlTree ==
  [kinds |-> <<"Keyword", "Identifier", "Semicolon", "Keyword", "Keyword",
               "OpenParenthesis", "Identifier", "CloseParenthesis",
               "Identifier", "Operator", "Identifier", "Semicolon",
               "Keyword", "Keyword", "OpenParenthesis", "Identifier",
               "CloseParenthesis", "BeginKeyword", "Identifier", "Semicolon",
               "EndKeyword", "Keyword", "Keyword", "OpenParenthesis",
               "Identifier", "CloseParenthesis", "Identifier", "Semicolon",
               "Keyword", "EndOfFile">>,
   nodes |-> <<Leaf(27, 28),
               N("LoopStatement", <<23, 24, 25, 26>>, <<1>>, <<>>, 23, 28),
               Leaf(19, 20),
               N("BlockStatement", <<18>>, <<3>>, <<21>>, 18, 21),
               N("ConditionalStatement", <<14, 15, 16, 17>>, <<4, 2>>, <<22>>, 14, 28),
               Leaf(9, 12),
               N("ConditionalStatement", <<5, 6, 7, 8>>, <<6, 5>>, <<13>>, 5, 28),
               N("ProceduralBlock", <<4>>, <<7>>, <<>>, 4, 28),
               N("ModuleDeclaration", <<1, 2, 3>>, <<8>>, <<29>>, 1, 29)>>,
   lines |-> {4, 9, 13, 19, 21, 27, 29}]

\* module m; timeunit 1ns; timeprecision 1ps; function f; a; endfunction
\* endmodule
MemberTree ==
  [kinds |-> <<"Keyword", "Identifier", "Semicolon", "Keyword", "IntegerLiteral",
               "Semicolon", "Keyword", "IntegerLiteral", "Semicolon", "Keyword",
               "Identifier", "Semicolon", "Identifier", "Semicolon", "Keyword",
               "Keyword", "EndOfFile">>,
   nodes |-> <<N("TimeUnitsDeclaration", <<4, 5, 6>>, <<>>, <<>>, 4, 6),
               N("TimeUnitsDeclaration", <<7, 8, 9>>, <<>>, <<>>, 7, 9),
               Leaf(13, 14),
               N("FunctionDeclaration", <<10, 11, 12>>, <<3>>, <<15>>, 10, 15),
               N("ModuleDeclaration", <<1, 2, 3>>, <<1, 2, 4>>, <<16>>, 1, 16),
               N("CompilationUnit", <<>>, <<5>>, <<17>>, 1, 17)>>,
   lines |-> {4, 7, 10, 13, 15, 16, 17}]

\* module m; assert property (a and b[c + d] or e || {f, g}); endmodule
ExpressionTree ==
  [kinds |-> <<"Keyword", "Identifier", "Semicolon", "Keyword", "Keyword",
               "OpenParenthesis", "Identifier", "WordOperator", "Identifier",
               "OpenBracket", "Identifier", "Operator", "Identifier",
               "CloseBracket", "WordOperator", "Identifier", "Operator",
               "OpenBrace", "Identifier", "Comma", "Identifier", "CloseBrace",
               "CloseParenthesis", "Semicolon", "Keyword", "EndOfFile">>,
   nodes |-> <<Leaf(4, 24),
               N("ModuleDeclaration", <<1, 2, 3>>, <<1>>, <<25>>, 1, 25)>>,
   lines |-> {4, 25}]

\* class k; constraint c { a > b; } constraint d { e; f; } endclass
ClassTree ==
  [kinds |-> <<"Keyword", "Identifier", "Semicolon", "Keyword", "Identifier",
               "OpenBrace", "Identifier", "Operator", "Identifier", "Semicolon",
               "CloseBrace", "Keyword", "Identifier", "OpenBrace", "Identifier",
               "Semicolon", "Identifier", "Semicolon", "CloseBrace", "Keyword",
               "EndOfFile">>,
   nodes |-> <<Leaf(7, 10),
               N("ConstraintBlock", <<6>>, <<1>>, <<11>>, 6, 11),
               N("ConstraintDeclaration", <<4, 5>>, <<2>>, <<>>, 4, 11),
               Leaf(15, 16), Leaf(17, 18),
               N("ConstraintBlock", <<14>>, <<4, 5>>, <<19>>, 14, 19),
               N("ConstraintDeclaration", <<12, 13>>, <<6>>, <<>>, 12, 19),
               N("ClassDeclaration", <<1, 2, 3>>, <<3, 7>>, <<20>>, 1, 20)>>,
   lines |-> {4, 7, 11, 12, 15, 17, 19, 20}]

\* interface m #(parameter p, q) (input a, b);
\*   modport n(input c, output d);
\* endinterface
HeaderTree ==
  [kinds |-> <<"Keyword", "Identifier", "Hash", "OpenParenthesis", "Keyword",
               "Identifier", "Comma", "Identifier", "CloseParenthesis",
               "OpenParenthesis", "Keyword", "Identifier", "Comma",
               "Identifier", "CloseParenthesis", "Semicolon", "Keyword",
               "Identifier", "OpenParenthesis", "Keyword", "Identifier",
               "Comma", "Keyword", "Identifier", "CloseParenthesis",
               "Semicolon", "Keyword", "EndOfFile">>,
   nodes |-> <<Leaf(5, 6), Leaf(8, 8),
               N("ParameterPortList", <<3, 4>>, <<1, 2>>, <<9, 7>>, 3, 9),
               Leaf(11, 12), Leaf(14, 14),
               N("AnsiPortList", <<10>>, <<4, 5>>, <<15, 13>>, 10, 15),
               N("Header", <<1, 2>>, <<3, 6>>, <<16>>, 1, 16),
               Leaf(20, 21), Leaf(23, 24),
               N("ModportItem", <<18, 19>>, <<8, 9>>, <<25, 22>>, 18, 25),
               N("Header", <<17>>, <<10>>, <<26>>, 17, 26),
               N("ModuleDeclaration", <<>>, <<7, 11>>, <<27>>, 1, 27)>>,
   lines |-> {5, 8, 9, 11, 14, 15, 17, 20, 23, 25, 27}]

\* module m(a, b); s #(.p(1)) u (.a(x), .b(y)), (z); endmodule
InstanceTree ==
  [kinds |-> <<"Keyword", "Identifier", "OpenParenthesis", "Identifier", "Comma",
               "Identifier", "CloseParenthesis", "Semicolon", "Identifier",
               "Hash", "OpenParenthesis", "Dot", "Identifier",
               "OpenParenthesis", "IntegerLiteral", "CloseParenthesis",
               "CloseParenthesis", "Identifier", "OpenParenthesis", "Dot",
               "Identifier", "OpenParenthesis", "Identifier",
               "CloseParenthesis", "Comma", "Dot", "Identifier",
               "OpenParenthesis", "Identifier", "CloseParenthesis",
               "CloseParenthesis", "Comma", "OpenParenthesis", "Identifier",
               "CloseParenthesis", "Semicolon", "Keyword", "EndOfFile">>,
   nodes |-> <<Leaf(4, 4), Leaf(6, 6),
               N("NonAnsiPortList", <<3>>, <<1, 2>>, <<7, 5>>, 3, 7),
               N("Header", <<1, 2>>, <<3>>, <<8>>, 1, 8),
               N("NamedConnection", <<12, 13, 14, 15, 16>>, <<>>, <<>>, 12, 16),
               N("ParameterValueAssignment", <<10, 11>>, <<5>>, <<17>>, 10, 17),
               N("NamedConnection", <<20, 21, 22, 23, 24>>, <<>>, <<>>, 20, 24),
               N("NamedConnection", <<26, 27, 28, 29, 30>>, <<>>, <<>>, 26, 30),
               N("HierarchicalInstance", <<18, 19>>, <<7, 8>>, <<31, 25>>, 18, 31),
               Leaf(34, 34),
               N("HierarchicalInstance", <<33>>, <<10>>, <<35>>, 33, 35),
               N("HierarchyInstantiation", <<9>>, <<6, 9, 11>>, <<36, 32>>, 9, 36),
               N("ModuleDeclaration", <<>>, <<4, 12>>, <<37>>, 1, 37)>>,
   lines |-> {4, 6, 7, 9, 12, 17, 20, 26, 31, 37}]

\* module m(.*); function f(input a, b); c; endfunction task g(); endtask
\* n u(x); endmodule
PortsTree ==
  [kinds |-> <<"Keyword", "Identifier", "OpenParenthesis", "Dot", "Star",
               "CloseParenthesis", "Semicolon", "Keyword", "Identifier",
               "OpenParenthesis", "Keyword", "Identifier", "Comma",
               "Identifier", "CloseParenthesis", "Semicolon", "Identifier",
               "Semicolon", "Keyword", "Keyword", "Identifier",
               "OpenParenthesis", "CloseParenthesis", "Semicolon", "Keyword",
               "Identifier", "Identifier", "OpenParenthesis", "Identifier",
               "CloseParenthesis", "Semicolon", "Keyword", "EndOfFile">>,
   nodes |-> <<N("WildcardPortList", <<3, 4, 5, 6>>, <<>>, <<>>, 3, 6),
               N("Header", <<1, 2>>, <<1>>, <<7>>, 1, 7),
               Leaf(11, 12), Leaf(14, 14),
               N("FunctionPortList", <<10>>, <<3, 4>>, <<15, 13>>, 10, 15),
               N("Header", <<8, 9>>, <<5>>, <<16>>, 8, 16),
               Leaf(17, 18),
               N("FunctionDeclaration", <<>>, <<6, 7>>, <<19>>, 8, 19),
               N("FunctionPortList", <<22>>, <<>>, <<23>>, 22, 23),
               N("Header", <<20, 21>>, <<9>>, <<24>>, 20, 24),
               N("FunctionDeclaration", <<>>, <<10>>, <<25>>, 20, 25),
               Leaf(29, 29),
               N("HierarchicalInstance", <<27, 28>>, <<12>>, <<30>>, 27, 30),
               N("HierarchyInstantiation", <<26>>, <<13>>, <<31>>, 26, 31),
               N("ModuleDeclaration", <<>>, <<2, 8, 11, 14>>, <<32>>, 1, 32)>>,
   lines |-> {8, 11, 14, 15, 17, 19, 20, 25, 26, 32}]

\* module m; always l: case (a) inside b: c; d: begin e; end default:; endcase
\* endmodule
CaseTree ==
  [kinds |-> <<"Keyword", "Identifier", "Semicolon", "Keyword", "Identifier",
               "Colon", "Keyword", "OpenParenthesis", "Identifier",
               "CloseParenthesis", "Keyword", "Identifier", "Colon",
               "Identifier", "Semicolon", "Identifier", "Colon",
               "BeginKeyword", "Identifier", "Semicolon", "EndKeyword",
               "Keyword", "Colon", "Semicolon", "Keyword", "Keyword",
               "EndOfFile">>,
   nodes |-> <<Leaf(14, 15), N("CaseItem", <<12, 13>>, <<1>>, <<>>, 12, 15),
               Leaf(19, 20),
               N("BlockStatement", <<18>>, <<3>>, <<21>>, 18, 21),
               N("CaseItem", <<16, 17>>, <<4>>, <<>>, 16, 21),
               N("EmptyStatement", <<24>>, <<>>, <<>>, 24, 24),
               N("DefaultCaseItem", <<22, 23>>, <<6>>, <<>>, 22, 24),
               Labelled("CaseStatement", <<5, 6>>, <<7, 8, 9, 10, 11>>,
                 <<2, 5, 7>>, <<25>>, 5, 25),
               N("ProceduralBlock", <<4>>, <<8>>, <<>>, 4, 25),
               N("ModuleDeclaration", <<1, 2, 3>>, <<9>>, <<26>>, 1, 26)>>,
   lines |-> {4, 12, 14, 16, 19, 21, 25, 26}]

\* module m; initial begin @ (f); randcase 1: h; endcase end endmodule
InitialTree ==
  [kinds |-> <<"Keyword", "Identifier", "Semicolon", "Keyword",
               "BeginKeyword", "At", "OpenParenthesis", "Identifier",
               "CloseParenthesis", "Semicolon", "Keyword", "IntegerLiteral",
               "Colon", "Identifier", "Semicolon", "Keyword", "EndKeyword",
               "Keyword", "EndOfFile">>,
   nodes |-> <<N("EmptyStatement", <<10>>, <<>>, <<>>, 10, 10),
               N("TimingControlStatement", <<6, 7, 8, 9>>, <<1>>, <<>>, 6, 10),
               Leaf(14, 15),
               N("RandCaseItem", <<12, 13>>, <<3>>, <<>>, 12, 15),
               N("RandCaseStatement", <<11>>, <<4>>, <<16>>, 11, 16),
               N("BlockStatement", <<5>>, <<2, 5>>, <<17>>, 5, 17),
               N("InitialBlock", <<4>>, <<6>>, <<>>, 4, 17),
               N("ModuleDeclaration", <<1, 2, 3>>, <<7>>, <<18>>, 1, 18)>>,
   lines |-> {4, 6, 12, 14, 16, 17, 18}]

\* module m; initial begin for (a = 0; b < c;) d; forever begin e; end do f;
\* while (g); do begin h; end while (i); end endmodule
LoopTree ==
  [kinds |-> <<"Keyword", "Identifier", "Semicolon", "Keyword",
               "BeginKeyword", "Keyword", "OpenParenthesis", "Identifier",
               "Operator", "IntegerLiteral", "Semicolon", "Identifier",
               "Operator", "Identifier", "Semicolon", "CloseParenthesis",
               "Identifier", "Semicolon", "Keyword", "BeginKeyword",
               "Identifier", "Semicolon", "EndKeyword", "Keyword",
               "Identifier", "Semicolon", "Keyword", "OpenParenthesis",
               "Identifier", "CloseParenthesis", "Semicolon", "Keyword",
               "BeginKeyword", "Identifier", "Semicolon", "EndKeyword",
               "Keyword", "OpenParenthesis", "Identifier",
               "CloseParenthesis", "Semicolon", "EndKeyword", "Keyword",
               "EndOfFile">>,
   nodes |-> <<Leaf(17, 18),
               N("ForLoopStatement",
                 <<6, 7, 8, 9, 10, 11, 12, 13, 14, 15, 16>>, <<1>>, <<>>, 6, 18),
               Leaf(21, 22),
               N("BlockStatement", <<20>>, <<3>>, <<23>>, 20, 23),
               N("ForeverStatement", <<19>>, <<4>>, <<>>, 19, 23),
               Leaf(25, 26),
               N("DoWhileStatement", <<24>>, <<6>>,
                 <<27, 28, 29, 30, 31>>, 24, 31),
               Leaf(34, 35),
               N("BlockStatement", <<33>>, <<8>>, <<36>>, 33, 36),
               N("DoWhileStatement", <<32>>, <<9>>,
                 <<37, 38, 39, 40, 41>>, 32, 41),
               N("BlockStatement", <<5>>, <<2, 5, 7, 10>>, <<42>>, 5, 42),
               N("InitialBlock", <<4>>, <<11>>, <<>>, 4, 42),
               N("ModuleDeclaration", <<1, 2, 3>>, <<12>>, <<43>>, 1, 43)>>,
   lines |-> {4, 17, 19, 21, 23, 24, 25, 27, 36, 42, 43}]

\* module m; initial begin l: assert (j) else k; n: assert (o); end p: assert
\* property (q); endmodule
AssertTree ==
  [kinds |-> <<"Keyword", "Identifier", "Semicolon", "Keyword",
               "BeginKeyword", "Identifier", "Colon", "Keyword",
               "OpenParenthesis", "Identifier", "CloseParenthesis",
               "Keyword", "Identifier", "Semicolon", "Identifier", "Colon",
               "Keyword", "OpenParenthesis", "Identifier",
               "CloseParenthesis", "Semicolon", "EndKeyword", "Identifier",
               "Colon", "Keyword", "Keyword", "OpenParenthesis",
               "Identifier", "CloseParenthesis", "Semicolon", "Keyword",
               "EndOfFile">>,
   nodes |-> <<Leaf(13, 14),
               Labelled("ImmediateAssertionStatement", <<6, 7>>,
                 <<8, 9, 10, 11>>, <<1>>, <<12>>, 6, 14),
               N("EmptyStatement", <<21>>, <<>>, <<>>, 21, 21),
               Labelled("ImmediateAssertionStatement", <<15, 16>>,
                 <<17, 18, 19, 20>>, <<3>>, <<>>, 15, 21),
               N("BlockStatement", <<5>>, <<2, 4>>, <<22>>, 5, 22),
               N("InitialBlock", <<4>>, <<5>>, <<>>, 4, 22),
               N("EmptyStatement", <<30>>, <<>>, <<>>, 30, 30),
               Labelled("ConcurrentAssertionStatement", <<23, 24>>,
                 <<25, 26, 27, 28, 29>>, <<7>>, <<>>, 23, 30),
               N("ModuleDeclaration", <<1, 2, 3>>, <<6, 8>>, <<31>>, 1, 31)>>,
   lines |-> {4, 8, 13, 22, 25, 31}]

\* module m; generate if (a) begin: b c; end: b else for (d = 0; e;) f;
\* endgenerate endmodule
GenerateTree ==
  [kinds |-> <<"Keyword", "Identifier", "Semicolon", "Keyword", "Keyword",
               "OpenParenthesis", "Identifier", "CloseParenthesis",
               "BeginKeyword", "Colon", "Identifier", "Identifier",
               "Semicolon", "EndKeyword", "Colon", "Identifier", "Keyword",
               "Keyword", "OpenParenthesis", "Identifier", "Operator",
               "IntegerLiteral", "Semicolon", "Identifier", "Semicolon",
               "CloseParenthesis", "Identifier", "Semicolon", "Keyword",
               "Keyword", "EndOfFile">>,
   nodes |-> <<Leaf(12, 13),
               N("GenerateBlock", <<9, 10, 11>>, <<1>>, <<14, 15, 16>>, 9, 16),
               Leaf(27, 28),
               N("LoopGenerate", <<18, 19, 20, 21, 22, 23, 24, 25, 26>>,
                 <<3>>, <<>>, 18, 28),
               N("IfGenerate", <<5, 6, 7, 8>>, <<2, 4>>, <<17>>, 5, 28),
               N("GenerateRegion", <<4>>, <<5>>, <<29>>, 4, 29),
               N("ModuleDeclaration", <<1, 2, 3>>, <<6>>, <<30>>, 1, 30)>>,
   lines |-> {4, 5, 12, 14, 27, 29, 30}]

\* module m; case (g) h: begin i; end default: begin j; end endcase specify k;
\* endspecify endmodule
CaseGenerateTree ==
  [kinds |-> <<"Keyword", "Identifier", "Semicolon", "Keyword",
               "OpenParenthesis", "Identifier", "CloseParenthesis",
               "Identifier", "Colon", "BeginKeyword", "Identifier",
               "Semicolon", "EndKeyword", "Keyword", "Colon", "BeginKeyword",
               "Identifier", "Semicolon", "EndKeyword", "Keyword", "Keyword",
               "Identifier", "Semicolon", "Keyword", "Keyword", "EndOfFile">>,
   nodes |-> <<Leaf(11, 12), N("GenerateBlock", <<10>>, <<1>>, <<13>>, 10, 13),
               N("CaseItem", <<8, 9>>, <<2>>, <<>>, 8, 13), Leaf(17, 18),
               N("GenerateBlock", <<16>>, <<4>>, <<19>>, 16, 19),
               N("DefaultCaseItem", <<14, 15>>, <<5>>, <<>>, 14, 19),
               N("CaseGenerate", <<4, 5, 6, 7>>, <<3, 6>>, <<20>>, 4, 20),
               Leaf(22, 23), N("SpecifyBlock", <<21>>, <<8>>, <<24>>, 21, 24),
               N("ModuleDeclaration", <<1, 2, 3>>, <<7, 9>>, <<25>>, 1, 25)>>,
   lines |-> {4, 10, 13, 17, 20, 21, 24, 25}]

\* checker c; a; endchecker config d; design e; endconfig module m; clocking k
\* @ (l); f; endclocking endmodule
ScopesTree ==
  [kinds |-> <<"Keyword", "Identifier", "Semicolon", "Identifier",
               "Semicolon", "Keyword", "Keyword", "Identifier", "Semicolon",
               "Keyword", "Identifier", "Semicolon", "Keyword", "Keyword",
               "Identifier", "Semicolon", "Keyword", "Identifier", "At",
               "OpenParenthesis", "Identifier", "CloseParenthesis",
               "Semicolon", "Identifier", "Semicolon", "Keyword", "Keyword",
               "EndOfFile">>,
   nodes |-> <<Leaf(4, 5),
               N("CheckerDeclaration", <<1, 2, 3>>, <<1>>, <<6>>, 1, 6),
               Leaf(10, 12),
               N("ConfigDeclaration", <<7, 8, 9>>, <<3>>, <<13>>, 7, 13),
               Leaf(24, 25),
               N("ClockingDeclaration", <<17, 18, 19, 20, 21, 22, 23>>,
                 <<5>>, <<26>>, 17, 26),
               N("ModuleDeclaration", <<14, 15, 16>>, <<6>>, <<27>>, 14, 27),
               N("CompilationUnit", <<>>, <<2, 4, 7>>, <<28>>, 1, 28)>>,
   lines |-> {4, 6, 7, 10, 13, 17, 26, 27, 28}]

\* module m; covergroup g; h; endgroup property p; q; endproperty sequence s;
\* t; endsequence task u; v; endtask endmodule
ScopeMembersTree ==
  [kinds |-> <<"Keyword", "Identifier", "Semicolon", "Keyword", "Identifier",
               "Semicolon", "Identifier", "Semicolon", "Keyword", "Keyword",
               "Identifier", "Semicolon", "Identifier", "Semicolon",
               "Keyword", "Keyword", "Identifier", "Semicolon", "Identifier",
               "Semicolon", "Keyword", "Keyword", "Identifier", "Semicolon",
               "Identifier", "Semicolon", "Keyword", "Keyword", "EndOfFile">>,
   nodes |-> <<Leaf(7, 8),
               N("CovergroupDeclaration", <<4, 5, 6>>, <<1>>, <<9>>, 4, 9),
               Leaf(13, 14),
               N("PropertyDeclaration", <<10, 11, 12>>, <<3>>, <<15>>, 10, 15),
               Leaf(19, 20),
               N("SequenceDeclaration", <<16, 17, 18>>, <<5>>, <<21>>, 16, 21),
               Leaf(25, 26),
               N("TaskDeclaration", <<22, 23, 24>>, <<7>>, <<27>>, 22, 27),
               N("ModuleDeclaration", <<1, 2, 3>>, <<2, 4, 6, 8>>,
                 <<28>>, 1, 28)>>,
   lines |-> {4, 10, 13, 16, 19, 22, 25, 28}]

\* module m; initial randsequence (a) a: b; c: case (d) e: f; default: g;
\* endcase; endsequence endmodule
RandSequenceTree ==
  [kinds |-> <<"Keyword", "Identifier", "Semicolon", "Keyword", "Keyword",
               "OpenParenthesis", "Identifier", "CloseParenthesis",
               "Identifier", "Colon", "Identifier", "Semicolon",
               "Identifier", "Colon", "Keyword", "OpenParenthesis",
               "Identifier", "CloseParenthesis", "Identifier", "Colon",
               "Identifier", "Semicolon", "Keyword", "Colon", "Identifier",
               "Semicolon", "Keyword", "Semicolon", "Keyword", "Keyword",
               "EndOfFile">>,
   nodes |-> <<Leaf(11, 11), N("Production", <<9, 10>>, <<1>>, <<12>>, 9, 12),
               Leaf(21, 21),
               N("RsCaseItem", <<19, 20>>, <<3>>, <<22>>, 19, 22),
               Leaf(25, 25),
               N("RsCaseItem", <<23, 24>>, <<5>>, <<26>>, 23, 26),
               N("RsCase", <<15, 16, 17, 18>>, <<4, 6>>, <<27>>, 15, 27),
               N("Production", <<13, 14>>, <<7>>, <<28>>, 13, 28),
               N("RandSequenceStatement", <<5, 6, 7, 8>>, <<2, 8>>,
                 <<29>>, 5, 29),
               N("InitialBlock", <<4>>, <<9>>, <<>>, 4, 29),
               N("ModuleDeclaration", <<1, 2, 3>>, <<10>>, <<30>>, 1, 30)>>,
   lines |-> {4, 9, 19, 29, 30}]

\* function f(input a, b, c[d]); e; endfunction
FunctionTree ==
  [kinds |-> <<"Keyword", "Identifier", "OpenParenthesis", "Keyword",
               "Identifier", "Comma", "Identifier", "Comma", "Identifier",
               "OpenBracket", "Identifier", "CloseBracket", "CloseParenthesis",
               "Semicolon", "Identifier", "Semicolon", "Keyword", "EndOfFile">>,
   nodes |-> <<Leaf(4, 5), Leaf(7, 7), Leaf(9, 12),
               N("FunctionPortList", <<3>>, <<1, 2, 3>>, <<13, 6, 8>>, 3, 13),
               N("Header", <<1, 2>>, <<4>>, <<14>>, 1, 14),
               Leaf(15, 16),
               N("FunctionDeclaration", <<>>, <<5, 6>>, <<17>>, 1, 17),
               N("CompilationUnit", <<>>, <<7>>, <<18>>, 1, 18)>>,
   lines |-> {4, 7, 9, 13, 15, 17, 18}]

\* module m; typedef enum {a, b} e; int x = 1, y; assign x = y; endmodule
DeclareTree ==
  [kinds |-> <<"Keyword", "Identifier", "Semicolon", "Keyword", "Keyword",
               "OpenBrace", "Identifier", "Comma", "Identifier", "CloseBrace",
               "Identifier", "Semicolon", "Keyword", "Identifier", "Operator",
               "IntegerLiteral", "Comma", "Identifier", "Semicolon",
               "Keyword", "Identifier", "Operator", "Identifier", "Semicolon",
               "Keyword", "EndOfFile">>,
   nodes |-> <<Leaf(7, 7), Leaf(9, 9),
               N("EnumType", <<5, 6>>, <<1, 2>>, <<10, 8>>, 5, 10),
               N("TypedefDeclaration", <<4>>, <<3>>, <<11, 12>>, 4, 12),
               Leaf(13, 13), Leaf(14, 16), Leaf(18, 18),
               N("DataDeclaration", <<>>, <<5, 6, 7>>, <<19, 17>>, 13, 19),
               Leaf(21, 23), N("ContinuousAssign", <<20>>, <<9>>, <<24>>, 20, 24),
               N("ModuleDeclaration", <<1, 2, 3>>, <<4, 8, 10>>, <<25>>, 1, 25)>>,
   lines |-> {4, 7, 9, 10, 13, 20, 25}]

\* module m; parameter q = 1; wire logic w, v; input i; export "DPI" function f;
\* typedef c; default clocking k; bind a b c(d); endmodule
DeclarationsTree ==
  [kinds |-> <<"Keyword", "Identifier", "Semicolon", "Keyword", "Identifier",
               "Operator", "IntegerLiteral", "Semicolon", "Keyword",
               "Keyword", "Identifier", "Comma", "Identifier", "Semicolon",
               "Keyword", "Identifier", "Semicolon", "Keyword",
               "StringLiteral", "Keyword", "Identifier", "Semicolon",
               "Keyword", "Identifier", "Semicolon", "Keyword", "Keyword",
               "Identifier", "Semicolon", "Keyword", "Identifier",
               "Identifier", "Identifier", "OpenParenthesis", "Identifier",
               "CloseParenthesis", "Semicolon", "Keyword", "EndOfFile">>,
   nodes |-> <<N("ParameterDeclarationStatement", <<4, 5, 6, 7, 8>>, <<>>, <<>>, 4, 8),
               Leaf(10, 10), Leaf(11, 11), Leaf(13, 13),
               N("NetDeclaration", <<9>>, <<2, 3, 4>>, <<14, 12>>, 9, 14),
               Leaf(15, 15), Leaf(16, 16),
               N("PortDeclaration", <<>>, <<6, 7>>, <<17>>, 15, 17),
               N("DPIExport", <<18, 19, 20, 21, 22>>, <<>>, <<>>, 18, 22),
               N("ForwardTypedefDeclaration", <<23, 24, 25>>, <<>>, <<>>, 23, 25),
               N("DefaultClockingReference", <<26, 27, 28, 29>>, <<>>, <<>>, 26, 29),
               Leaf(35, 35),
               N("HierarchicalInstance", <<33, 34>>, <<12>>, <<36>>, 33, 36),
               N("HierarchyInstantiation", <<32>>, <<13>>, <<37>>, 32, 37),
               N("BindDirective", <<30, 31>>, <<14>>, <<>>, 30, 37),
               N("ModuleDeclaration", <<1, 2, 3>>, <<1, 5, 8, 9, 10, 11, 15>>, <<38>>, 1, 38)>>,
   lines |-> {4, 9, 15, 18, 23, 26, 30, 38}]

\* import p::a, b::c; module m; genvar k, l; defparam r = 2; export d::e;
\* endmodule
ItemsTree ==
  [kinds |-> <<"Keyword", "Identifier", "Dot", "Identifier", "Comma",
               "Identifier", "Dot", "Identifier", "Semicolon", "Keyword",
               "Identifier", "Semicolon", "Keyword", "Identifier", "Comma",
               "Identifier", "Semicolon", "Keyword", "Identifier",
               "Operator", "IntegerLiteral", "Semicolon", "Keyword",
               "Identifier", "Dot", "Identifier", "Semicolon", "Keyword",
               "EndOfFile">>,
   nodes |-> <<Leaf(2, 4), Leaf(6, 8),
               N("PackageImportDeclaration", <<1>>, <<1, 2>>, <<9, 5>>, 1, 9),
               Leaf(14, 14), Leaf(16, 16),
               N("GenvarDeclaration", <<13>>, <<4, 5>>, <<17, 15>>, 13, 17),
               Leaf(19, 21),
               N("DefParam", <<18>>, <<7>>, <<22>>, 18, 22),
               Leaf(24, 26),
               N("PackageExportDeclaration", <<23>>, <<9>>, <<27>>, 23, 27),
               N("ModuleDeclaration", <<10, 11, 12>>, <<6, 8, 10>>, <<28>>, 10, 28),
               N("CompilationUnit", <<>>, <<3, 11>>, <<29>>, 1, 29)>>,
   lines |-> {6, 10, 13, 16, 18, 23, 28, 29}]

\* module m; typedef struct {int s;} t; import "DPI" function f(int a, int b);
\* import "DPI" task g(); endmodule
ImportTree ==
  [kinds |-> <<"Keyword", "Identifier", "Semicolon", "Keyword", "Keyword",
               "OpenBrace", "Keyword", "Identifier", "Semicolon",
               "CloseBrace", "Identifier", "Semicolon", "Keyword",
               "StringLiteral", "Keyword", "Identifier", "OpenParenthesis",
               "Keyword", "Identifier", "Comma", "Keyword", "Identifier",
               "CloseParenthesis", "Semicolon", "Keyword", "StringLiteral",
               "Keyword", "Identifier", "OpenParenthesis",
               "CloseParenthesis", "Semicolon", "Keyword", "EndOfFile">>,
   nodes |-> <<Leaf(7, 7), Leaf(8, 8),
               N("StructUnionMember", <<>>, <<1, 2>>, <<9>>, 7, 9),
               N("StructUnionType", <<5, 6>>, <<3>>, <<10>>, 5, 10),
               N("TypedefDeclaration", <<4>>, <<4>>, <<11, 12>>, 4, 12),
               Leaf(18, 19), Leaf(21, 22),
               N("FunctionPortList", <<17>>, <<6, 7>>, <<23, 20>>, 17, 23),
               N("DPIImport", <<13, 14, 15, 16>>, <<8>>, <<24>>, 13, 24),
               N("FunctionPortList", <<29>>, <<>>, <<30>>, 29, 30),
               N("DPIImport", <<25, 26, 27, 28>>, <<10>>, <<31>>, 25, 31),
               N("ModuleDeclaration", <<1, 2, 3>>, <<5, 9, 11>>, <<32>>, 1, 32)>>,
   lines |-> {4, 7, 10, 13, 18, 21, 23, 25, 32}]

\* class k; constraint c { x dist {y := 1, z := 2}; } endclass
DistTree ==
  [kinds |-> <<"Keyword", "Identifier", "Semicolon", "Keyword", "Identifier",
               "OpenBrace", "Identifier", "Keyword", "OpenBrace",
               "Identifier", "WeightOperator", "IntegerLiteral", "Comma",
               "Identifier", "WeightOperator", "IntegerLiteral",
               "CloseBrace", "Semicolon", "CloseBrace", "Keyword", "EndOfFile">>,
   nodes |-> <<N("DistWeight", <<11>>, <<>>, <<12>>, 11, 12),
               N("Expression", <<10>>, <<1>>, <<>>, 10, 12),
               N("DistWeight", <<15>>, <<>>, <<16>>, 15, 16),
               N("Expression", <<14>>, <<3>>, <<>>, 14, 16),
               N("DistConstraintList", <<8, 9>>, <<2, 4>>, <<17, 13>>, 8, 17),
               N("Expression", <<7>>, <<5>>, <<18>>, 7, 18),
               N("ConstraintBlock", <<6>>, <<6>>, <<19>>, 6, 19),
               N("ConstraintDeclaration", <<4, 5>>, <<7>>, <<>>, 4, 19),
               N("ClassDeclaration", <<1, 2, 3>>, <<8>>, <<20>>, 1, 20)>>,
   lines |-> {4, 7, 10, 14, 17, 19, 20}]

\* covergroup g; coverpoint v {bins s = t; bins u = w;}
\* l: cross p, q {bins o = n;} coverpoint r; endgroup
CoverTree ==
  [kinds |-> <<"Keyword", "Identifier", "Semicolon", "Keyword", "Identifier",
               "OpenBrace", "Keyword", "Identifier", "Operator", "Identifier",
               "Semicolon", "Keyword", "Identifier", "Operator",
               "Identifier", "Semicolon", "CloseBrace", "Identifier",
               "Colon", "Keyword", "Identifier", "Comma", "Identifier",
               "OpenBrace", "Keyword", "Identifier", "Operator",
               "Identifier", "Semicolon", "CloseBrace", "Keyword",
               "Identifier", "Semicolon", "Keyword", "EndOfFile">>,
   nodes |-> <<Leaf(7, 11), Leaf(12, 16),
               N("Coverpoint", <<4, 5, 6>>, <<1, 2>>, <<17>>, 4, 17),
               Leaf(25, 29),
               Labelled("CoverCross", <<18, 19>>, <<20, 21, 22, 23, 24>>,
                 <<4>>, <<30>>, 18, 30),
               N("Coverpoint", <<31, 32>>, <<>>, <<33>>, 31, 33),
               N("CovergroupDeclaration", <<1, 2, 3>>, <<3, 5, 6>>, <<34>>, 1, 34)>>,
   lines |-> {4, 7, 12, 17, 18, 25, 30, 31, 34}]

-----------------------------------------------------------------------------
(* Documents: a tree with the gap gap[i] in front of token i. *)

Layout(tree, gap) ==
  [toks |-> [i \in DOMAIN tree.kinds |-> [kind |-> tree.kinds[i], trivia |-> gap[i]]],
   nodes |-> tree.nodes, root |-> Len(tree.nodes)]

\* No gap before the first token.
FlatGap(tree) == [i \in DOMAIN tree.kinds |-> IF i = 1 THEN <<>> ELSE <<SP>>]

LinesGap(tree) ==
  [i \in DOMAIN tree.kinds |->
     IF i = 1 THEN <<>> ELSE IF i \in tree.lines THEN <<NL, SP2>> ELSE <<SP>>]

TreeOf ==
  [always |-> AlwaysTree, control |-> ControlTree, member |-> MemberTree,
   expression |-> ExpressionTree, class |-> ClassTree, header |-> HeaderTree,
   instance |-> InstanceTree, ports |-> PortsTree, function |-> FunctionTree,
   case |-> CaseTree, initial |-> InitialTree, loop |-> LoopTree,
   assert |-> AssertTree, generate |-> GenerateTree,
   caseGenerate |-> CaseGenerateTree, scopes |-> ScopesTree,
   scopeMembers |-> ScopeMembersTree, randSequence |-> RandSequenceTree,
   declare |-> DeclareTree, declarations |-> DeclarationsTree,
   items |-> ItemsTree,
   import |-> ImportTree, dist |-> DistTree, cover |-> CoverTree]

Longest == Max({Len(TreeOf[t].kinds) : t \in DOMAIN TreeOf})

Tokens(tree)      == DOMAIN tree.kinds
LineStarts(tree)  == tree.lines
LaterTokens(tree) == DOMAIN tree.kinds \ {1}
BehindThree(tree) == DOMAIN tree.kinds \ 1..3

\* Formatting is off from the third token on.
OffGap(tree) == [FlatGap(tree) EXCEPT ![3] = <<NL, OFF, NL>>]

\* One of the tokens that Where allows is preceded by an odd gap.
OneOdd(trees, Base(_), Where(_), gaps) ==
  LET tree == TreeOf
      odds == {x \in trees \X (1..Longest) \X gaps : x[2] \in Where(tree[x[1]])}
  IN  {Layout(tree[x[1]], [Base(tree[x[1]]) EXCEPT ![x[2]] = x[3]]) : x \in odds}

\* Two neighbouring tokens are.
TwoOdd(trees, Base(_), gaps) ==
  LET tree == TreeOf
      odds == {x \in trees \X (1..Longest) \X gaps \X gaps :
                 x[2] + 1 \in Tokens(tree[x[1]])}
  IN  {Layout(tree[x[1]],
              [Base(tree[x[1]]) EXCEPT ![x[2]] = x[3], ![x[2] + 1] = x[4]]) :
         x \in odds}

\* Formatting is off from one token on, and on again at a later one.
SwitchOff(trees, offs, ons) ==
  LET tree == TreeOf
      odds == {x \in trees \X (1..Longest) \X offs \X (1..Longest) \X ons :
                 x[2] < x[4] /\ x[4] \in Tokens(tree[x[1]])}
  IN  {Layout(tree[x[1]],
              [FlatGap(tree[x[1]]) EXCEPT ![x[2]] = x[3], ![x[4]] = x[5]]) :
         x \in odds}

-----------------------------------------------------------------------------
(* Styles. *)

\* The values Style.h gives when no configuration file is found.
DefaultStyle ==
  [BreakAfterBegin |-> TRUE, BreakBeforeEnd |-> TRUE,
   OneStatementPerLine |-> TRUE, CompactControlStatements |-> TRUE,
   CompactTimeUnits |-> TRUE, AllowShortConstraintBlocks |-> TRUE,
   AllowShortCoverpoints |-> TRUE,
   ColumnLimited |-> TRUE, BreakBeforeFunction |-> FALSE, BreakBeforeAlways |-> "Never",
   BreakAfterAlways |-> "OnlyMultiline",
   BreakBeforeInitial |-> "Never", BreakAfterInitial |-> "OnlyMultiline",
   BreakBeforeTask |-> FALSE, BreakBeforeSpecifyBlock |-> FALSE,
   BreakAfterAssertionLabel |-> TRUE, IndentCaseItem |-> FALSE,
   SpaceBeforeCaseColon |-> FALSE, SpaceAfterCaseColon |-> TRUE,
   RemoveEmptyLines |-> FALSE, MaxEmptyLinesToKeep |-> 1,
   IndentWidth |-> 2, ContinuationIndentWidth |-> 4,
   SpacesBeforeTrailingComments |-> 2,
   SpaceAroundOperators |-> TRUE, SpaceAfterComma |-> TRUE,
   SpaceAfterSemicolon |-> TRUE, SpacesInBraces |-> FALSE,
   SpacesInBrackets |-> FALSE, SpacesInParens |-> FALSE,
   SpaceAfterAlways |-> TRUE, SpaceBeforeParens |-> TRUE,
   SpaceAfterParens |-> TRUE, SpaceAfterEventControl |-> TRUE,
   SpaceBeforePortList |-> TRUE, SpaceBeforeParameterList |-> TRUE,
   BinPackParameters |-> TRUE, BinPackPortConnections |-> FALSE,
   ParameterPortListIndentWidth |-> 4]

\* Blank lines inserted and removed.
BlankStyle ==
  [DefaultStyle EXCEPT
     !.BreakBeforeFunction = TRUE, !.BreakBeforeTask = TRUE,
     !.BreakBeforeAlways = "Always", !.BreakBeforeInitial = "Always",
     !.BreakBeforeSpecifyBlock = TRUE, !.RemoveEmptyLines = TRUE,
     !.CompactTimeUnits = FALSE, !.AllowShortConstraintBlocks = FALSE,
     !.AllowShortCoverpoints = FALSE, !.IndentCaseItem = TRUE]

\* The source's own line breaks, and little space.
TightStyle ==
  [DefaultStyle EXCEPT !.BreakAfterBegin = FALSE, !.BreakBeforeEnd = FALSE,
     !.OneStatementPerLine = FALSE, !.BreakBeforeAlways = "OnlyMultiline",
     !.BreakAfterAlways = "Never", !.CompactTimeUnits = FALSE,
     !.BreakAfterInitial = "Always", !.BreakAfterAssertionLabel = FALSE,
     !.SpaceBeforeCaseColon = TRUE, !.SpaceAfterCaseColon = FALSE,
     !.AllowShortConstraintBlocks = FALSE, !.AllowShortCoverpoints = FALSE,
     !.SpaceAfterSemicolon = FALSE, !.SpaceAfterComma = FALSE,
     !.SpaceAfterAlways = FALSE, !.SpaceBeforeParens = FALSE,
     !.SpaceAfterParens = FALSE, !.SpaceAfterEventControl = FALSE,
     !.SpacesInBraces = TRUE, !.SpaceBeforePortList = FALSE,
     !.SpaceBeforeParameterList = FALSE, !.BinPackPortConnections = TRUE,
     !.ParameterPortListIndentWidth = 3]

\* Nothing is joined that a comment may stand between.
CarefulStyle ==
  [DefaultStyle EXCEPT !.AllowShortConstraintBlocks = FALSE,
                       !.AllowShortCoverpoints = FALSE]

\* Neither of the breaks that are made while formatting is off.
QuietStyle ==
  [DefaultStyle EXCEPT !.BreakAfterBegin = FALSE, !.BreakBeforeEnd = FALSE,
                       !.BreakAfterAlways = "Never"]

-----------------------------------------------------------------------------
(* Constants of the runs. *)

Trees     == {"always", "control", "member", "expression", "class"}
PortTrees == {"header", "instance", "ports"}

\* Function ports are laid out in the way FormatPrinter itself models.
Unpacked(styles) == {[s EXCEPT !.BinPackParameters = FALSE] : s \in styles}

\* The handlers of these trees differ from one another in what they do about a
\* break that the source has, or has not.
StatementTrees ==
  {"case", "initial", "loop", "assert", "generate", "caseGenerate", "scopes",
   "scopeMembers", "randSequence"}

DeclarationTrees == {"declare", "declarations", "items", "import", "dist", "cover"}

LayoutDocuments ==
  OneOdd(Trees, FlatGap, Tokens, BlankGaps \cup CommentGaps)
  \cup OneOdd(PortTrees, FlatGap, Tokens,
              {<<NL>>, <<SP, LC, NL>>, <<NL, SP, LC, NL>>, <<BC>>})
  \cup OneOdd(Trees, LinesGap, Tokens,
              {<<NL, SP, NL, NL>>, <<NL, SP, LC, NL>>, <<BC>>})
  \cup OneOdd(PortTrees, LinesGap, Tokens, {<<NL, SP, NL, NL>>})
  \cup OneOdd(PortTrees, LinesGap, LineStarts, {<<NL, SP, LC, NL>>, <<BC>>})
  \cup OneOdd(StatementTrees, FlatGap, Tokens,
              {<<NL>>, <<SP, LC, NL>>, <<NL, BC, SP>>})
  \cup OneOdd(StatementTrees, LinesGap, LineStarts, {<<SP>>, <<NL, NL>>})
  \cup OneOdd(DeclarationTrees, FlatGap, Tokens, {<<NL>>, <<SP, LC, NL>>})
  \cup OneOdd(DeclarationTrees, LinesGap, LineStarts, {<<SP>>, <<NL, BC, SP>>})
  \cup OneOdd({"always", "member", "class", "generate"}, FlatGap, LaterTokens,
              DirectiveGaps)
  \cup OneOdd({"ports"}, LinesGap, LaterTokens, DirectiveGaps)

LayoutStyles == Unpacked({DefaultStyle, BlankStyle, TightStyle})

ContentDocuments ==
  TwoOdd({"member"}, FlatGap, {<<NL>>, <<SP, LC, NL, NL>>, <<NL, BC, SP>>})
  \cup OneOdd({"always", "class"}, FlatGap, Tokens,
              {<<SP, LC, NL>>, <<NL, SP, LC, NL>>, <<BC>>})
  \cup OneOdd({"header", "instance", "ports"}, FlatGap, Tokens,
              {<<NL, BC, SP, LC, NL>>})
  \cup OneOdd(StatementTrees \cup DeclarationTrees, FlatGap, LineStarts,
              {<<NL, BC, SP, LC, NL>>})
  \cup OneOdd({"ports"}, FlatGap, LineStarts, {DISABLED})
  \cup OneOdd({"class"}, FlatGap, LineStarts, {TWO_MACROS})
  \cup SwitchOff({"member"}, {<<NL, OFF, NL>>}, {<<SP, BON, SP>>})

OffDocuments ==
  SwitchOff({"always", "expression"}, OffGaps, OnGaps \cup {<<NL>>})
  \cup OneOdd({"always", "ports"}, OffGap, BehindThree, {DISABLED, MACRO, CONTINUED})

ContentStyles == Unpacked({CarefulStyle, BlankStyle})

QuietStyles == {QuietStyle}

DefaultStyles == {DefaultStyle}

UnspacedStyles == {[DefaultStyle EXCEPT !.SpaceAroundOperators = FALSE]}
=============================================================================
