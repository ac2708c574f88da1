------------------------------ MODULE TokenHelper ------------------------------
(***************************************************************************)
(* The syntax tree the printer walks, and the questions it asks of tokens  *)
(* and of their leading trivia (source/TokenHelper.cpp).                   *)
(*                                                                         *)
(* A token carries the trivia that precede it in the source.  The text of  *)
(* a token or of a comment is reduced to what the printer tells apart: the *)
(* kind of a token, whether its text is made of identifier characters, the *)
(* pragma a comment spells, and how many newlines a block comment spans.   *)
(* Documents are what the slang parser hands over: parser and lexer are    *)
(* external.                                                               *)
(***************************************************************************)
EXTENDS Naturals, Sequences, FiniteSets

\* A compiler directive or the use of a macro is one trivia of the token behind
\* it, with tokens and trivia of its own.  Here they are laid out in a row:
\* "Directive" or "MacroUsage", the trivia in front of its first token, that
\* token ("DirectiveName"), the other tokens with the trivia in front of them,
\* "DirectiveEnd".  Branches that the preprocessor disabled are tokens of their
\* `ifdef; "DirectiveOpen" and "DirectiveClose" stand for begin, fork and end,
\* join among them, "DirectiveToken" for all others.
DirectiveTexts ==
  {"DirectiveName", "DirectiveToken", "DirectiveOpen", "DirectiveClose"}
TriviaKinds ==
  DirectiveTexts \cup
  {"EndOfLine", "Whitespace", "LineComment", "BlockComment",
   "Directive", "MacroUsage", "DirectiveEnd"}

\* "Keyword" stands for every keyword the printer does not single out;
\* "Operator" for the symbolic and "WordOperator" for the keyword operators of
\* binary expressions (and, or, throughout, ...), "WeightOperator" for those of
\* distributions (:= and :/), "Dot" for :: as well.
Keywords  == {"Keyword", "BeginKeyword", "EndKeyword", "WordOperator"}
WordKinds == Keywords \cup {"Identifier", "IntegerLiteral"}
TokenKinds ==
  WordKinds \cup
  {"Operator", "WeightOperator", "Star", "At", "Colon", "Hash", "Dot", "Comma", "Semicolon",
   "OpenParenthesis", "CloseParenthesis", "OpenBracket", "CloseBracket",
   "OpenBrace", "CloseBrace", "StringLiteral", "EndOfFile"}

\* What stands between begin and end of the printer's lastTokenKind.
LastTokenKinds == TokenKinds \cup {"Unknown"}

\* place tells what a trivia stands in front of: a token of the document, the
\* first token of a directive, or a later one.
Trivia == [kind : TriviaKinds, pragma : {"none", "off", "on"},
           lines : Nat, width : Nat, place : {"token", "first", "later"}]

Token == [kind : TokenKinds, trivia : Seq(Trivia)]

\* NamedConnection stands for named ports and named parameters, Header for the
\* header of a module and the prototype of a function.
PortListKinds ==
  {"AnsiPortList", "NonAnsiPortList", "ParameterPortList",
   "ParameterValueAssignment", "HierarchicalInstance", "ModportItem",
   "FunctionPortList"}

\* Leaf stands for whatever the visitor walks token by token.
StatementKinds ==
  {"BlockStatement", "ConditionalStatement", "LoopStatement", "ForLoopStatement",
   "ForeverStatement", "DoWhileStatement", "CaseStatement", "RandCaseStatement",
   "RandSequenceStatement", "ConcurrentAssertionStatement",
   "ImmediateAssertionStatement", "TimingControlStatement", "EmptyStatement", "Leaf"}

CaseItemKinds == {"CaseItem", "DefaultCaseItem", "RandCaseItem"}

\* The nodes whose handlers end in visitMembers.
ScopeKinds ==
  {"FunctionDeclaration", "TaskDeclaration", "ClassDeclaration",
   "CheckerDeclaration", "ClockingDeclaration", "ConfigDeclaration",
   "CovergroupDeclaration", "GenerateBlock", "GenerateRegion",
   "PropertyDeclaration", "SequenceDeclaration", "SpecifyBlock",
   "StructUnionType",
   "CaseStatement", "CaseGenerate", "RandCaseStatement", "RandSequenceStatement"}

ProcedureKinds == {"ProceduralBlock", "InitialBlock"}

\* A type or a header, and the declarators behind it.
DeclaratorKinds ==
  {"DataDeclaration", "NetDeclaration", "PortDeclaration", "StructUnionMember",
   "UserDefinedNetDeclaration"}

\* Declarations whose parts are visited in order.
PlainDeclarationKinds ==
  {"BindDirective", "DPIExport", "DefaultClockingReference",
   "DefaultDisableDeclaration", "ForwardTypedefDeclaration", "LetDeclaration",
   "NetAlias", "NetTypeDeclaration", "PackageExportAllDeclaration",
   "ParameterDeclarationStatement"}

\* Declarations of a list of items, which are laid out like ports.
ItemListKinds ==
  {"DefParam", "GenvarDeclaration", "PackageExportDeclaration",
   "PackageImportDeclaration"}

\* Lists of items in braces.
CoverKinds     == {"Coverpoint", "CoverCross"}
BraceListKinds == {"EnumType", "DistConstraintList"} \cup CoverKinds

\* Nodes that are nothing but tokens, and those that end in their child.
ChildlessKinds ==
  {"Leaf", "EmptyStatement", "TimeUnitsDeclaration", "NamedConnection",
   "WildcardPortList"}
TaillessKinds ==
  {"LoopStatement", "ForLoopStatement", "ForeverStatement", "LoopGenerate",
   "TimingControlStatement", "ConstraintDeclaration"}
    \cup ProcedureKinds \cup CaseItemKinds

\* Nodes whose children are separated, and those that may have an else clause.
SeparatedKinds ==
  PortListKinds \cup ItemListKinds \cup DeclaratorKinds \cup
  {"HierarchyInstantiation", "Production", "RsCaseItem", "EnumType",
   "DistConstraintList"}
ElseKinds ==
  {"ConditionalStatement", "IfGenerate", "ConcurrentAssertionStatement",
   "ImmediateAssertionStatement"}

NodeKinds ==
  PortListKinds \cup StatementKinds \cup CaseItemKinds \cup ScopeKinds \cup
  ProcedureKinds \cup DeclaratorKinds \cup PlainDeclarationKinds \cup
  ItemListKinds \cup BraceListKinds \cup
  {"Expression", "DistWeight", "ContinuousAssign", "TypedefDeclaration",
   "DPIImport", "Header", "HierarchyInstantiation", "NamedConnection", "WildcardPortList",
   "CompilationUnit", "ModuleDeclaration", "TimeUnitsDeclaration",
   "IfGenerate", "LoopGenerate", "ConstraintDeclaration", "ConstraintBlock",
   "Production", "RsCase", "RsCaseItem"}

\* A node keeps its label, the tokens it emits itself before its children
\* (head) and after or between them (tail), and the span of all of its tokens.
\* The tail of a list of ports starts with its closing parenthesis, those of an
\* instantiation and of a production with the semicolon; the commas follow.
Node(toks, nodes) ==
  [kind : NodeKinds, label : Seq(DOMAIN toks), head : Seq(DOMAIN toks),
   kids : Seq(DOMAIN nodes), tail : Seq(DOMAIN toks),
   first : DOMAIN toks, last : DOMAIN toks]

IsComment(t) == t.kind \in {"LineComment", "BlockComment"}

StartsDirective(t) == t.kind \in {"Directive", "MacroUsage"}

\* What is among the later tokens of a directive.
IsInDirective(t) ==
  t.place = "later" \/ t.kind \in {"DirectiveToken", "DirectiveOpen", "DirectiveClose"}

\* The lexer ends a line comment at the end of its line, so the next trivia
\* is that end of line.  Only a block comment and a token that continues a
\* directive on the next line span lines, only a comment spells a pragma, and
\* whitespace is never empty.
WellFormedTrivia(ts) ==
  \A i \in DOMAIN ts :
    /\ ts[i].kind = "LineComment" =>
         i + 1 \in DOMAIN ts /\ ts[i + 1].kind = "EndOfLine"
    /\ ts[i].lines > 0 => ts[i].kind \in {"BlockComment", "DirectiveToken"}
    /\ ts[i].pragma # "none" => IsComment(ts[i])
    /\ ts[i].kind = "Whitespace" <=> ts[i].width > 0
    /\ StartsDirective(ts[i]) \/ ts[i].place = "first" =>
         /\ i + 1 \in DOMAIN ts
         /\ ts[i + 1].place = "first" \/ ts[i + 1].kind = "DirectiveName"
    /\ StartsDirective(ts[i]) => ts[i].place = "token"
    /\ ts[i].kind = "DirectiveName" \/ IsInDirective(ts[i]) =>
         /\ i + 1 \in DOMAIN ts
         /\ IsInDirective(ts[i + 1]) \/ ts[i + 1].kind = "DirectiveEnd"

\* What the grammar says of the tokens and children of a node.
IsWellShaped(n, nodes) ==
  /\ Len(n.label) \in {0, 2}
  /\ n.label # <<>> => n.kind \in StatementKinds \cup {"GenerateBlock", "CoverCross"}
  /\ n.kind \in {"LoopStatement", "ForLoopStatement", "ConditionalStatement",
                 "IfGenerate", "LoopGenerate"} => Len(n.head) >= 2
  /\ n.kind \in {"CaseStatement", "CaseGenerate"} => Len(n.head) >= 3
  /\ n.kind \in {"TimingControlStatement", "Production", "RsCaseItem"}
               \cup CaseItemKinds => n.head # <<>>
  /\ n.kind \in {"ConditionalStatement", "IfGenerate"} => Len(n.kids) \in {1, 2}
  /\ n.kind \in {"LoopStatement", "ForLoopStatement", "ForeverStatement",
                 "DoWhileStatement", "TimingControlStatement", "LoopGenerate"}
               \cup ProcedureKinds \cup CaseItemKinds => Len(n.kids) = 1
  /\ n.kind \in {"ConditionalStatement", "IfGenerate"} /\ Len(n.kids) = 2
       => n.tail # <<>>
  /\ n.kind \in {"ConcurrentAssertionStatement", "ImmediateAssertionStatement"}
       /\ n.tail # <<>> => n.kids # <<>>
  /\ n.kind = "DoWhileStatement" => Len(n.tail) >= 2
  /\ n.kind = "ConstraintDeclaration" =>
       Len(n.kids) = 1 /\ nodes[n.kids[1]].kind = "ConstraintBlock"
  /\ n.kind \in {"BlockStatement", "ModuleDeclaration", "ConstraintBlock",
                 "HierarchyInstantiation", "Production", "RsCase", "RsCaseItem"}
               \cup ScopeKinds \cup PortListKinds => n.tail # <<>>
  /\ n.kind \in PortListKinds \cup {"WildcardPortList"} => n.head # <<>>
  /\ n.kind \in {"ParameterPortList", "ParameterValueAssignment", "ModportItem"} =>
       Len(n.head) = 2
  /\ n.kind \in DeclaratorKinds => Len(n.kids) >= 2 /\ n.tail # <<>>
  /\ n.kind \in ItemListKinds => n.tail # <<>>
  /\ n.kind \in BraceListKinds => n.head # <<>> /\ n.tail # <<>>
  /\ n.kind = "DistWeight" => n.head # <<>>
  /\ n.kind = "DPIImport" =>
       \A k \in DOMAIN n.kids : nodes[n.kids[k]].kind = "FunctionPortList"
  /\ n.kind \in {"SpecifyBlock", "Header"} \cup ProcedureKinds => n.head # <<>>
  /\ n.kind \in {"FunctionDeclaration", "TaskDeclaration"} /\ n.head = <<>> =>
       n.kids # <<>> /\ nodes[n.kids[1]].kind = "Header"
  /\ n.kind = "CompilationUnit" => n.head = <<>>
  /\ n.kind \in ChildlessKinds \cup {"DistWeight"} => n.kids = <<>>
  /\ n.kind \in ChildlessKinds \cup TaillessKinds => n.tail = <<>>
  /\ n.kind \in {"ConditionalStatement", "IfGenerate"} =>
       Len(n.tail) = Len(n.kids) - 1
  /\ n.kind \in {"ConcurrentAssertionStatement", "ImmediateAssertionStatement"} =>
       Len(n.tail) <= 1
  /\ n.kind = "ConstraintBlock" \/ (n.kind \in CoverKinds /\ n.kids # <<>>) =>
       Len(n.tail) = 1
  /\ n.kind \in {"CaseStatement", "CaseGenerate", "RandCaseStatement",
                 "RandSequenceStatement"} /\ n.kids # <<>> =>
       nodes[n.kids[1]].kind # "Header"

\* The tokens stand in a row from at on.
InRow(toks, at) == \A k \in DOMAIN toks : toks[k] = at + k - 1

\* Where the children of a node begin, where the k-th one does or what follows the
\* last one, and what stands behind the k-th one.
BodyOf(n) == n.first + Len(n.label) + Len(n.head)

StartOf(n, k, nodes) ==
  IF k \in DOMAIN n.kids THEN nodes[n.kids[k]].first
  ELSE IF n.tail # <<>> THEN n.tail[1] ELSE n.last + 1

Behind(n, k, nodes) == nodes[n.kids[k]].last + 1

\* How many children precede those that are separated by commas: the type of a
\* declaration, the parameters of an instantiation.
Unseparated(n, nodes) ==
  IF \/ n.kind \in DeclaratorKinds
     \/ /\ n.kind = "HierarchyInstantiation" /\ n.kids # <<>>
        /\ nodes[n.kids[1]].kind = "ParameterValueAssignment"
  THEN 1 ELSE 0

\* The first token of the tail comes last, the others are commas, one behind each
\* child but, as a rule, the last.
IsSeparated(n, nodes) ==
  LET comma(k) == k - Unseparated(n, nodes) + 1
  IN  /\ BodyOf(n) = StartOf(n, 1, nodes) /\ n.tail[1] = n.last
      /\ Len(n.tail) <= comma(Len(n.kids))
      /\ \A k \in DOMAIN n.kids :
           IF comma(k) \in 2..Len(n.tail)
           THEN /\ n.tail[comma(k)] = Behind(n, k, nodes)
                /\ StartOf(n, k + 1, nodes) = Behind(n, k, nodes) + 1
           ELSE StartOf(n, k + 1, nodes) = Behind(n, k, nodes)

\* The else stands in front of the last child.
HasElseClause(n, nodes) ==
  LET last == Len(n.kids)
      Next(k) == IF k = last THEN n.tail[1] ELSE StartOf(n, k, nodes)
  IN  /\ BodyOf(n) = Next(1)
      /\ \A k \in 1..(last - 1) : Behind(n, k, nodes) = Next(k + 1)
      /\ n.tail[1] + 1 = StartOf(n, last, nodes)
      /\ Behind(n, last, nodes) = n.last + 1

IsInOrder(n, nodes) ==
  /\ BodyOf(n) = StartOf(n, 1, nodes)
  /\ \A k \in DOMAIN n.kids : Behind(n, k, nodes) = StartOf(n, k + 1, nodes)
  /\ n.tail # <<>> => InRow(n.tail, n.tail[1]) /\ n.tail[Len(n.tail)] = n.last

\* The tokens of a node and of its children are those of its span, each once and
\* in the order of the source.
IsInSourceOrder(n, nodes) ==
  /\ InRow(n.label, n.first)
  /\ InRow(n.head, n.first + Len(n.label))
  /\ CASE n.kind \in SeparatedKinds -> IsSeparated(n, nodes)
       [] n.kind \in ElseKinds /\ n.tail # <<>> -> HasElseClause(n, nodes)
       [] OTHER -> IsInOrder(n, nodes)

IsDocument(d) ==
  /\ d.toks \in Seq(Token)
  /\ d.nodes \in Seq(Node(d.toks, d.nodes))
  /\ d.root \in DOMAIN d.nodes
  /\ d.nodes[d.root].first = 1
  /\ d.nodes[d.root].last =
       IF d.nodes[d.root].kind = "CompilationUnit" THEN Len(d.toks) ELSE Len(d.toks) - 1
  /\ d.toks # <<>>                   \* there always is an end of file
  /\ \A i \in DOMAIN d.toks : WellFormedTrivia(d.toks[i].trivia)
  /\ \A i \in 2..Len(d.toks) :     \* or the lexer had read one token
       {d.toks[i - 1].kind, d.toks[i].kind} \subseteq WordKinds
         => d.toks[i].trivia # <<>>
  /\ \A n \in DOMAIN d.nodes :
       /\ IsWellShaped(d.nodes[n], d.nodes)
       /\ IsInSourceOrder(d.nodes[n], d.nodes)
       /\ d.nodes[n].first <= d.nodes[n].last
       /\ \A k \in DOMAIN d.nodes[n].kids : d.nodes[n].kids[k] < n

-----------------------------------------------------------------------------
(* Questions about the trivia in front of a token. *)

\* The trivia that are the token's own: nothing looks into a directive.
Leading(tok) == {i \in DOMAIN tok.trivia : tok.trivia[i].place = "token"}

HasLeadingNewline(tok) ==
  \E i \in Leading(tok) : tok.trivia[i].kind = "EndOfLine"

HasLeadingComment(tok) ==
  \E i \in Leading(tok) : IsComment(tok.trivia[i])

\* A comment on the line of the token before: no end of line precedes it.
HasLeadingTrailingComment(tok) ==
  \E i \in Leading(tok) :
    /\ IsComment(tok.trivia[i])
    /\ \A j \in Leading(tok) : j < i => tok.trivia[j].kind # "EndOfLine"

\* Two ends of line with nothing but whitespace between them.
HasLeadingBlankLine(tok) ==
  \E i, j \in Leading(tok) :
    /\ i < j
    /\ tok.trivia[i].kind = "EndOfLine"
    /\ tok.trivia[j].kind = "EndOfLine"
    /\ \A k \in (i + 1)..(j - 1) : tok.trivia[k].kind = "Whitespace"

\* Only whitespace has a width.
LeadingWhitespaceLength(tok) ==
  Cardinality(UNION {{i} \X (1..tok.trivia[i].width) : i \in Leading(tok)})

\* How many trivia emitLeadingTrailingComment consumes: through the first end
\* of line, or all of them.
LeadingTrailingLength(tok) ==
  LET ends == {i \in Leading(tok) : tok.trivia[i].kind = "EndOfLine"}
  IN  IF ends = {} THEN Len(tok.trivia)
      ELSE CHOOSE i \in ends : \A j \in ends : i <= j

-----------------------------------------------------------------------------
(* Spacing between two tokens. *)

NeedsSeparator(lastIsWord, kind) == lastIsWord /\ kind \in WordKinds

NeedsSpaceBetween(prev, curr) ==
  \/ prev \in Keywords /\ curr \in {"OpenBrace", "OpenParenthesis", "Hash", "StringLiteral"}
  \/ prev = "Identifier" /\ curr \in {"OpenBrace", "At"}
  \/ prev \in {"CloseBrace", "Star"} /\ curr \in Keywords \cup {"Identifier"}
  \/ /\ prev = "CloseParenthesis"
     /\ curr \in Keywords \cup {"Identifier", "OpenBrace", "OpenParenthesis",
                                "OpenBracket"}
  \/ prev \in {"Colon", "StringLiteral"} /\ curr \in Keywords

\* flatWidth is 0, "does not fit on one line", when a comment or (unless
\* newlines are ignored) an end of line lies in front of any of the tokens.
HasFlatWidth(toks, first, last, ignoreNewlines) ==
  \A i \in first..last :
    /\ ~HasLeadingComment(toks[i])
    /\ ignoreNewlines \/ ~HasLeadingNewline(toks[i])
=============================================================================
