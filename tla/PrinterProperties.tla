--------------------------- MODULE PrinterProperties ---------------------------
(***************************************************************************)
(* What makes a printed document correct.                                  *)
(***************************************************************************)
EXTENDS FormatPrinter, SequencesExt

\* The printer and the pending calls stay within their types.
TypeOK ==
  /\ pr \in Printer
  /\ pr.style \in Styles
  /\ work \in Seq(Call)

Finished == work = <<>>

-----------------------------------------------------------------------------
(* The bookkeeping of lines that stripping, compaction and the alignment   *)
(* passes rely on.                                                         *)

\* lineStart, "index into output where the current line begins"
\* (FormatPrinter.h): the last end of line written stands right before it.
\* forceNewline, insertBlankLineBefore and emitTrivia each move it.
LineStartBeginsLine ==
  /\ pr.lineStart <= Len(pr.output)
  /\ pr.lineStart > 0 => pr.output[pr.lineStart].kind = "newline"
  /\ \A i \in (pr.lineStart + 1)..Len(pr.output) : pr.output[i].kind # "newline"

\* While atLineStart is set nothing of the line is written yet but, with
\* formatting disabled, whitespace of the source.  Otherwise emitToken would
\* indent in the middle of a line, and emitTrivia take a line of text for a
\* blank one and drop its end.
AtLineStartMeansNoText ==
  pr.atLineStart =>
    \A i \in (pr.lineStart + 1)..Len(pr.output) : pr.output[i].kind = "spaces"

NewlineCount(output) ==
  Cardinality({i \in DOMAIN output : output[i].kind = "newline"})

\* Every end of line the printer decides on has its metadata record, and the
\* records are numbered in order, each with a number of its own, whichever
\* helper wrote the end of line.  (A directive that goes on on another line
\* leaves a number out.)
MetadataPerLine ==
  /\ Len(pr.lineMetadata) = NewlineCount(pr.output)
  /\ \A k \in DOMAIN pr.lineMetadata :
       /\ pr.lineMetadata[k].lineNumber < pr.outputLineNumber
       /\ \A j \in 1..(k - 1) :
            pr.lineMetadata[j].lineNumber < pr.lineMetadata[k].lineNumber

\* The newlines that an item of the output stands for.
NewlinesIn(item) ==
  CASE item.kind = "newline" -> 1
    [] item.kind = "spaces"  -> 0
    [] OTHER                 -> item.size

\* The newlines of the output's text in front of item i.
LineIndexAt(i) ==
  LET upTo[n \in 0..(i - 1)] ==
        IF n = 0 THEN 0 ELSE upTo[n - 1] + NewlinesIn(pr.output[n])
  IN  upTo[i - 1]

\* Align.h: lineNumber is the "output line index this metadata corresponds
\* to".  The k-th record was made at the k-th end of line; the line that ends
\* there is preceded by as many newlines as its number says, those inside of
\* comments included.
LineNumberIsOutputLine ==
  Finished =>
    \A i \in DOMAIN pr.output :
      pr.output[i].kind = "newline" =>
        pr.lineMetadata[NewlineCount(SubSeq(pr.output, 1, i))].lineNumber
          = LineIndexAt(i)

StartsLine(p) ==
  \/ p = 1 \/ pr.output[p - 1].kind = "newline"
  \/ pr.output[p - 1].kind = "spaces" /\ (p = 2 \/ pr.output[p - 2].kind = "newline")

-----------------------------------------------------------------------------
(* Content. *)

IsText(item) == item.kind \in {"word", "symbol", "comment", "directive"}

HasText(t) == IsComment(t) \/ t.kind \in DirectiveTexts

\* A macro stands in front of the token it expands to.
IsExpanded(tok) == \E j \in DOMAIN tok.trivia : tok.trivia[j].kind = "MacroUsage"

\* The text of trivia j of token i, and of that token.  The end of the file has
\* no text, and what a macro expands to is none of the source.
TriviaText(d, i, j) == IF HasText(d.toks[i].trivia[j]) THEN <<<<i, j>>>> ELSE <<>>

TokenText(d, i) ==
  IF d.toks[i].kind = "EndOfFile" \/ IsExpanded(d.toks[i]) THEN <<>> ELSE <<<<i, 0>>>>

\* The texts among the first n trivia of token i.
TriviaTexts(d, i, n) ==
  LET upTo[j \in 0..n] == IF j = 0 THEN <<>> ELSE upTo[j - 1] \o TriviaText(d, i, j)
  IN  upTo[n]

\* The tokens, comments and directives of a document, in the order of the
\* source: those of its first n tokens, and all of them.
FirstContents(d, n) ==
  LET upTo[i \in 0..n] ==
        IF i = 0 THEN <<>>
        ELSE upTo[i - 1] \o (TriviaTexts(d, i, Len(d.toks[i].trivia)) \o TokenText(d, i))
  IN  upTo[n]

Contents(d) == FirstContents(d, Len(d.toks))

DocumentContents == {Contents(d) : d \in Documents}

\* Where the texts among some output items come from.
Origins(items) ==
  LET upTo[k \in 0..Len(items)] ==
        IF k = 0 THEN <<>>
        ELSE IF IsText(items[k]) THEN Append(upTo[k - 1], items[k].at) ELSE upTo[k - 1]
  IN  upTo[Len(items)]

\* The printer copies the content of its document: no handler drops, repeats
\* or reorders a token, a comment or a directive.  Trivia are skipped, emitted
\* early and emitted by the handler of another token, and the token to be left
\* out is the next one emitted.
Copy == INSTANCE ContentCopy WITH
          Sources <- DocumentContents,
          source  <- Contents(doc),
          copied  <- Origins(pr.output)

ContentCopied == Copy!Safety

\* Every document is finished: there comes a time when all of its content is in the
\* output, the texts behind its last macro and in front of its last token included.
CopyFinished == Copy!Finishes

IsLineComment(item) ==
  /\ item.kind = "comment"
  /\ Tok(item.at[1]).trivia[item.at[2]].kind = "LineComment"

\* Nothing ever lands behind a line comment on its line: it would become part
\* of the comment.
LineCommentEndsLine ==
  \A i \in 1..(Len(pr.output) - 1) :
    IsLineComment(pr.output[i]) => pr.output[i + 1].kind = "newline"

\* "Whitespace whose removal would cause adjacent tokens to merge is reduced
\* to one space" (docs/architecture.md): words never touch.
WordsStayApart ==
  \A i \in 1..(Len(pr.output) - 1) :
    ~(pr.output[i].kind \in {"word", "directive"} /\ pr.output[i + 1].kind = "word")

-----------------------------------------------------------------------------
(* Line breaks.  The properties below read the finished output.            *)

\* Where the text that came from at stands in the output.
Position(at) == CHOOSE p \in DOMAIN pr.output : pr.output[p].at = at

\* The neighbouring texts of the output.
Neighbours ==
  {g \in (DOMAIN pr.output) \X (DOMAIN pr.output) :
     /\ g[1] < g[2]
     /\ IsText(pr.output[g[1]]) /\ IsText(pr.output[g[2]])
     /\ \A k \in (g[1] + 1)..(g[2] - 1) : ~IsText(pr.output[k])}

BreaksWritten(g) == NewlineCount(SubSeq(pr.output, g[1], g[2]))

\* The ends of line between the same two texts of the source.
BreaksInSource(g) ==
  LET from == pr.output[g[1]].at
      to   == pr.output[g[2]].at
      trivia == Tok(to[1]).trivia
  IN  Cardinality({j \in DOMAIN trivia :
        /\ trivia[j].kind = "EndOfLine"
        /\ from[1] = to[1] => from[2] < j
        /\ to[2] # 0 => j < to[2]})

\* "Line breaks are unaffected by whitespace normalization"
\* (docs/architecture.md): unless blank lines are to be removed,
\* or time units or items in braces to be joined, two texts are at least as many
\* lines apart as in the source.
LineBreaksKept ==
  /\ Finished
  /\ ~pr.style.RemoveEmptyLines
  /\ ~pr.style.CompactTimeUnits
  /\ ~pr.style.AllowShortConstraintBlocks
  /\ ~pr.style.AllowShortCoverpoints
  => \A g \in Neighbours : BreaksWritten(g) >= BreaksInSource(g)

InsertsBlankLines ==
  \/ pr.style.BreakBeforeFunction \/ pr.style.BreakBeforeTask
  \/ pr.style.BreakBeforeAlways # "Never" \/ pr.style.BreakBeforeInitial # "Never"
  \/ pr.style.BreakBeforeSpecifyBlock

\* The colon after which a handler goes on on a fresh line: that of the label
\* of an assertion, or of a default item that is a block of a generate.
EndsInFreshLine(i) ==
  \E n \in DOMAIN doc.nodes :
    \/ /\ Kind(n) \in {"ConcurrentAssertionStatement", "ImmediateAssertionStatement"}
       /\ Kind(n) = "ImmediateAssertionStatement" => Tail1(n) # <<>>
       /\ pr.style.BreakAfterAssertionLabel
       /\ Label(n) # <<>> /\ i = Label(n)[2]
    \/ /\ Kind(n) = "DefaultCaseItem" /\ Kind(Kids(n)[1]) = "GenerateBlock"
       /\ i = Head1(n)[Len(Head1(n))]

\* The source gives at most the blank lines it has, cut to MaxEmptyLinesToKeep
\* by RemoveEmptyLines; the blank line that a BreakBefore option asks for never
\* comes on top of one of the source or of a suppressed one.  The suppression
\* of the one works through the counter that the insertion of the other sets.
\* (Where a fresh line is made without asking whether the source breaks there
\* too, or without seeing it in front of a directive, that break of the source
\* is one blank line more.)
BlankLinesBounded ==
  Finished =>
    \A g \in Neighbours :
      LET kept == IF pr.style.RemoveEmptyLines
                  THEN Min({BreaksInSource(g), 1 + pr.style.MaxEmptyLinesToKeep})
                  ELSE BreaksInSource(g)
          at   == pr.output[g[1]].at
          next == Tok(pr.output[g[2]].at[1])
          more == IF \/ at[2] = 0 /\ EndsInFreshLine(at[1])
                     \/ ~HasLeadingNewline(next) /\ BreaksInSource(g) > 0
                  THEN 1 ELSE 0
      IN  BreaksWritten(g) <= Max({kept + more, IF InsertsBlankLines THEN 2 ELSE 1})

-----------------------------------------------------------------------------
(* Indentation. *)

\* The first child of a procedure, if its handler takes care of it itself.
IsTimedBy(m, k) ==
  Kind(m) \in ProcedureKinds /\ Kind(Kids(m)[k]) = "TimingControlStatement"

\* else if continues the line of the else.
IsElseIf(m, k) ==
  /\ Kind(m) = "ConditionalStatement" /\ k = 2
  /\ Kind(Kids(m)[k]) = "ConditionalStatement"

\* What a timing control waits for, if it is not empty: a procedure does not
\* ask.
IsTimedStatement(m, k) ==
  Kind(Kids(m)[k]) = "EmptyStatement" =>
    \E p \in DOMAIN doc.nodes : Kind(p) \in ProcedureKinds /\ Kids(p)[1] = m

IsBodyOf(m, k) ==
  CASE Kind(m) \in ProcedureKinds -> ~IsTimedBy(m, k)
    [] Kind(m) = "TimingControlStatement" -> IsTimedStatement(m, k)
    [] Kind(m) \in {"CaseItem", "DefaultCaseItem"} ->
         Kind(Kids(m)[k]) \in StatementKinds \ {"EmptyStatement"}
    [] Kind(m) \in {"ConditionalStatement", "LoopStatement", "ForLoopStatement",
                    "ForeverStatement", "DoWhileStatement"} -> ~IsElseIf(m, k)
    [] OTHER -> FALSE

\* Node m is made of items, and its k-th child is one of them.
IsItemOf(m, k) ==
  \/ Kind(m) \in {"BlockStatement", "ConstraintBlock", "RsCase"}
                 \cup PortListKinds \cup BraceListKinds
  \/ Kind(m) \in ScopeKinds \cup {"ModuleDeclaration"} /\ ~(k = 1 /\ HasHeader(m))

\* Node m sets its k-th child apart by one level of indentation.
SetsApart(m, k) ==
  \/ IsItemOf(m, k)
  \/ /\ IsBodyOf(m, k) /\ ~IsBlock(Kids(m)[k])
     /\ Kind(m) \in CaseItemKinds =>
          ~HasLeadingNewline(Tok(First(Kids(m)[k]))) \/ pr.style.IndentCaseItem

Within(n, m) ==
  First(m) <= First(n) /\ doc.nodes[n].last <= doc.nodes[m].last /\ n <= m

\* The level of a node, from the shape of the tree alone.
Level(n) ==
  Cardinality({m \in DOMAIN doc.nodes :
    \E k \in DOMAIN Kids(m) : Within(n, Kids(m)[k]) /\ SetsApart(m, k)})

\* The innermost node a token belongs to.
Owner(i) ==
  CHOOSE n \in DOMAIN doc.nodes :
    \E k \in DOMAIN (Label(n) \o Head1(n) \o Tail1(n)) : (Label(n) \o Head1(n) \o Tail1(n))[k] = i

\* else, end, endfunction, endmodule, the parenthesis that closes a list of
\* ports that is not empty, the while behind a single statement.
ClosesOnItsLine(i) ==
  LET n == Owner(i)
  IN  /\ Kind(n) \notin {"TypedefDeclaration", "Expression", "DistWeight"}
      /\ Tail1(n) # <<>> /\ i = Tail1(n)[1]
      /\ Kind(n) = "FunctionPortList" => Kids(n) # <<>>
      /\ Kind(n) = "DoWhileStatement" => ~IsBlock(Kids(n)[1])

\* The tokens that begin a line of their own, and those that begin an item or
\* a body.  (The timing control of a procedure, an else if, what an item of a
\* randcase executes, the block of a constraint, the body of a generate and
\* the beginning of a list of ports continue the line they are on.)
BeginsLine(i) ==
  \/ i = First(doc.root)
  \/ ClosesOnItsLine(i)
  \/ i > 1 /\ EndsInFreshLine(i - 1)
  \/ \E m \in DOMAIN doc.nodes : \E k \in DOMAIN Kids(m) :
       /\ First(Kids(m)[k]) = i
       /\ IsItemOf(m, k) \/ IsBodyOf(m, k) \/ Kind(m) = "CompilationUnit"

\* The width of the space between item p and the start of its line, if nothing
\* else is between them.
LeadingSpaces(p) ==
  IF pr.output[p - 1].kind = "spaces" THEN pr.output[p - 1].size ELSE 0

\* The ports of an import are indented like the items of any other list.
IsImported(m) ==
  Len(Kids(m)) >= 2 /\ \E n \in DOMAIN doc.nodes : Kind(n) = "DPIImport" /\ Kids(n) = <<m>>

IsPortItem(n) ==
  \E m \in DOMAIN doc.nodes :
    /\ Kind(m) \in PortListKinds \cup ItemListKinds /\ ~IsImported(m)
    /\ \E k \in DOMAIN Kids(m) : Kids(m)[k] = n

\* A line of a disabled branch is taken for the first line of the item.
HasDisabledLine(tok) ==
  \E j \in DOMAIN tok.trivia : tok.trivia[j].kind = "EndOfLine" /\ IsInDirective(tok.trivia[j])

\* Token i is the first of the item it belongs to that starts a line.
FirstLineOfItem(i) ==
  /\ IsPortItem(Owner(i))
  /\ ~HasDisabledLine(Tok(i))
  /\ \A j \in First(Owner(i))..(i - 1) : ~StartsLine(Position(<<j, 0>>))

\* The first line of an item stands ParameterPortListIndentWidth to the right
\* of the line of its list.
ExpectedIndent(i) ==
  LET level  == Level(Owner(i))
      indent == pr.style.IndentWidth
  IN  IF FirstLineOfItem(i)
      THEN (level - 1) * indent + pr.style.ParameterPortListIndentWidth
      ELSE level * indent + (IF BeginsLine(i) THEN 0 ELSE pr.style.ContinuationIndentWidth)

\* A pragma in the trivia up to token i decides whether it is formatted.
PragmasUpTo(i) ==
  {a \in UNION {{<<k, j>> : j \in DOMAIN Tok(k).trivia} : k \in 1..i} :
     Tok(a[1]).trivia[a[2]].pragma # "none"}

Formatted(i) ==
  LET seen == PragmasUpTo(i)
  IN  seen # {} =>
        \E a \in seen :
          /\ Tok(a[1]).trivia[a[2]].pragma = "on"
          /\ \A b \in seen : b[1] < a[1] \/ (b[1] = a[1] /\ b[2] <= a[2])

\* The one item of a constraint block, and the members of a coverpoint or
\* cross, that may be joined onto one line with their braces are not indented,
\* even if the source breaks them over lines.
InShortBraces(i) ==
  \E n \in DOMAIN doc.nodes :
    /\ i \in First(n)..doc.nodes[n].last
    /\ \/ /\ pr.style.AllowShortConstraintBlocks
          /\ Kind(n) = "ConstraintBlock" /\ Len(Kids(n)) = 1
       \/ pr.style.AllowShortCoverpoints /\ Kind(n) \in CoverKinds

\* A token that begins a line stands at the column its place in the tree gives
\* it, wherever the line break came from: depth and nextIsPrimary are moved by
\* every handler, and both are read when the token, a comment or the trivia of
\* a closing token start a line.  (The indentation of a comma or semicolon is
\* stripped again with the spaces in front of it.)
TokensIndented ==
  Finished =>
    \A p \in DOMAIN pr.output :
      LET i == pr.output[p].at[1]
      IN  /\ pr.output[p].at[2] = 0 /\ pr.output[p].kind \in {"word", "symbol"}
          /\ p > 1 /\ StartsLine(p)
          /\ Formatted(i) /\ ~NeedsStripBefore(Tok(i).kind)
          /\ ~InShortBraces(i)
          => LeadingSpaces(p) = ExpectedIndent(i)

\* Whatever the path through the handlers, the depth is back at zero at the
\* end, having never run below it.
DepthBalanced ==
  /\ pr.depth <= Len(doc.nodes)
  /\ Finished => pr.depth = 0

-----------------------------------------------------------------------------
(* Operators and brackets. *)

IsOperator(i) == Tok(i).kind \in {"Operator", "WordOperator"}

OpenBrackets(i) ==
  Cardinality({k \in 1..i : Tok(k).kind = "OpenBracket"})
    - Cardinality({k \in 1..i : Tok(k).kind = "CloseBracket"})

\* One space, or the end of the line, or a comment on either side of the gap.
Apart(p) ==
  \/ pr.output[p].kind \in {"newline", "comment"}
  \/ pr.output[p] = Spaces(1)
  \/ pr.output[p].kind = "spaces" /\ pr.output[p + 1].kind = "comment"

\* Both sides of the operator at p, if it is formatted and outside of brackets.
IsSpacedOperator(p) ==
  LET i == pr.output[p].at[1]
  IN  /\ pr.output[p].kind \in {"word", "symbol"} /\ IsOperator(i)
      /\ Formatted(i) /\ Formatted(i + 1) /\ OpenBrackets(i) = 0
      => (StartsLine(p) \/ Apart(p - 1)) /\ Apart(p + 1)

\* SpaceAroundOperators: "insert a single space before and after assignment,
\* binary, and ternary operators [...]" (docs/style-options.md), for operators
\* with only whitespace between them and their left operand.  Whether an
\* operator is within brackets is counted as tokens are emitted, and the
\* announcement of an operator has to survive until then.
OperatorsOnLineSpaced ==
  Finished /\ pr.style.SpaceAroundOperators =>
    \A p \in DOMAIN pr.output :
      \A i \in DOMAIN doc.toks :
        /\ pr.output[p].at = <<i, 0>>
        /\ ~HasLeadingNewline(Tok(i)) /\ ~HasLeadingComment(Tok(i))
        => IsSpacedOperator(p)

-----------------------------------------------------------------------------
(* Formatting switched off. *)

\* What the source has between token i - 1 and token i, as output items; only
\* the whitespace in front of the end of a line of text goes.
SourceGap(i) ==
  LET trivia == Tok(i).trivia
      Trailing(j) == /\ trivia[j].kind = "Whitespace"
                     /\ j < Len(trivia) /\ trivia[j + 1].kind = "EndOfLine"
                     /\ j = 1 \/ HasText(trivia[j - 1]) \/ trivia[j - 1].kind = "DirectiveEnd"
      Written(j) == HasText(trivia[j]) \/ trivia[j].kind \in {"EndOfLine", "Whitespace"}
      kept == SelectSeq([j \in DOMAIN trivia |-> j],
                        LAMBDA j : Written(j) /\ ~Trailing(j))
  IN  [k \in DOMAIN kept |->
        LET t == trivia[kept[k]]
        IN  CASE t.kind = "EndOfLine"  -> Newline
              [] t.kind = "Whitespace" -> Spaces(t.width)
              [] OTHER ->
                   [kind |-> IF IsComment(t) THEN "comment"
                             ELSE IF t.kind = "DirectiveName" THEN "directive" ELSE "word",
                    size |-> t.lines, at |-> <<i, kept[k]>>]]

\* Inside a region where formatting is off the source is copied character by
\* character.  Read as each token is printed: what stands in front of a token
\* is never changed afterwards.
OffRegionVerbatim ==
  \A i \in 2..(Len(doc.toks) - 1) :
    /\ pr.output # <<>> /\ Last(pr.output).at = <<i, 0>>
    /\ ~Formatted(i - 1) /\ ~Formatted(i) /\ ~IsExpanded(Tok(i - 1))
    /\ \A j \in DOMAIN Tok(i).trivia : Tok(i).trivia[j].pragma = "none"
    => SubSeq(pr.output, Position(<<i - 1, 0>>) + 1, Len(pr.output) - 1)
         = SourceGap(i)

=============================================================================
