------------------------------ MODULE PrinterState -----------------------------
(***************************************************************************)
(* The private state of the class FormatPrinter and its helpers            *)
(* (source/FormatPrinter.cpp), each helper as a function from a printer    *)
(* state p to the state it leaves.                                         *)
(*                                                                         *)
(* The output is a sequence of items instead of characters: an end of      *)
(* line, a maximal run of spaces with its width, or the text of one token  *)
(* or comment, which remembers the place in the document it comes from.    *)
(* lineStart counts items.                                                 *)
(***************************************************************************)
EXTENDS TokenHelper

CONSTANT MaxUnsigned   \* the largest value of the C++ type unsigned

ASSUME MaxUnsignedAssumption == MaxUnsigned \in Nat

LineKinds ==
  {"Assignment", "Comment", "Continuation", "Declaration", "DistItem", "Empty",
   "Other", "PortConnection", "PortListBoundary", "TimingControl"}

\* An item's at is <<token, trivia>> (trivia 0 for the token itself) and
\* <<0, 0>> for what the printer made up; size is the width of a run of spaces
\* and the number of newlines inside a text.  The name of a directive ends like
\* a word and starts with a backtick.
Item == [kind : {"newline", "spaces", "word", "symbol", "comment", "directive"},
         size : Nat, at : Nat \X Nat]

Newline   == [kind |-> "newline", size |-> 0, at |-> <<0, 0>>]
Spaces(n) == [kind |-> "spaces",  size |-> n, at |-> <<0, 0>>]

LineMetadata == [kind : LineKinds, depth : Nat, lineNumber : Nat]

AfterTokenFlags == {"comma", "openBrace", "openBracket", "openParen",
                    "operatorToken", "semicolon"}

\* The style options the modelled code reads.  Of the column limit only
\* whether there is one matters: see Fits in FormatPrinter.
Style ==
  [BreakAfterBegin : BOOLEAN, BreakBeforeEnd : BOOLEAN,
   OneStatementPerLine : BOOLEAN, CompactControlStatements : BOOLEAN,
   CompactTimeUnits : BOOLEAN, AllowShortConstraintBlocks : BOOLEAN,
   AllowShortCoverpoints : BOOLEAN,
   ColumnLimited : BOOLEAN, BreakBeforeFunction : BOOLEAN,
   BreakBeforeAlways : {"Never", "Always", "OnlyMultiline"},
   BreakAfterAlways : {"Never", "Always", "OnlyMultiline"},
   BreakBeforeInitial : {"Never", "Always", "OnlyMultiline"},
   BreakAfterInitial : {"Never", "Always", "OnlyMultiline"},
   BreakBeforeTask : BOOLEAN, BreakBeforeSpecifyBlock : BOOLEAN,
   BreakAfterAssertionLabel : BOOLEAN, IndentCaseItem : BOOLEAN,
   SpaceBeforeCaseColon : BOOLEAN, SpaceAfterCaseColon : BOOLEAN,
   RemoveEmptyLines : BOOLEAN, MaxEmptyLinesToKeep : Nat,
   IndentWidth : 0..MaxUnsigned, ContinuationIndentWidth : Nat,
   SpacesBeforeTrailingComments : Nat,
   SpaceAroundOperators : BOOLEAN, SpaceAfterComma : BOOLEAN,
   SpaceAfterSemicolon : BOOLEAN, SpacesInBraces : BOOLEAN,
   SpacesInBrackets : BOOLEAN, SpacesInParens : BOOLEAN,
   SpaceAfterAlways : BOOLEAN, SpaceBeforeParens : BOOLEAN,
   SpaceAfterParens : BOOLEAN, SpaceAfterEventControl : BOOLEAN,
   SpaceBeforePortList : BOOLEAN, SpaceBeforeParameterList : BOOLEAN,
   BinPackParameters : BOOLEAN, BinPackPortConnections : BOOLEAN,
   ParameterPortListIndentWidth : Nat]

\* The members of FormatPrinter.  currentKind is currentLineMeta.kind, pending
\* the three spaceBeforeClose*Pending flags.
Printer ==
  [style : Style, output : Seq(Item),
   lineMetadata : Seq(LineMetadata), currentKind : LineKinds,
   nextLineKind : LineKinds \cup {"none"},
   outputLineNumber : Nat, lineStart : Nat, depth : Nat, lineDepth : Nat,
   atLineStart : BOOLEAN, nextIsPrimary : BOOLEAN, formatEnabled : BOOLEAN,
   emptyLineCount : Nat, triviaSkip : Nat, beforeOperator : BOOLEAN,
   suppressSeparator : BOOLEAN, bracketDepth : Nat,
   portItemNextIndent : BOOLEAN, skipExpandedToken : BOOLEAN,
   after : SUBSET AfterTokenFlags,
   pending : SUBSET {"CloseBrace", "CloseBracket", "CloseParenthesis"},
   lastTokenKind : LastTokenKinds]

NewPrinter(style) ==
  [style |-> style, output |-> <<>>, lineMetadata |-> <<>>,
   currentKind |-> "Other", nextLineKind |-> "none",
   outputLineNumber |-> 0, lineStart |-> 0, depth |-> 0, lineDepth |-> 0,
   atLineStart |-> TRUE, nextIsPrimary |-> TRUE, formatEnabled |-> TRUE,
   emptyLineCount |-> 0, triviaSkip |-> 0, beforeOperator |-> FALSE,
   suppressSeparator |-> FALSE, bracketDepth |-> 0,
   portItemNextIndent |-> FALSE, skipExpandedToken |-> FALSE, after |-> {},
   pending |-> {}, lastTokenKind |-> "Unknown"]

\* depth++ and depth-- on an unsigned.
Indent(p) == [p EXCEPT !.depth = IF @ = MaxUnsigned THEN 0 ELSE @ + 1]
Dedent(p) == [p EXCEPT !.depth = IF @ = 0 THEN MaxUnsigned ELSE @ - 1]

-----------------------------------------------------------------------------
(* The output buffer. *)

EndsIn(p, kind) ==
  p.output # <<>> /\ p.output[Len(p.output)].kind = kind

\* The output ends in a character of an identifier.
EndsInWord(p) == EndsIn(p, "word") \/ EndsIn(p, "directive")

Pop(s) == SubSeq(s, 1, Len(s) - 1)

AppendItem(p, item) == [p EXCEPT !.output = Append(@, item)]

AppendSpaces(p, n) ==
  IF n = 0 THEN p
  ELSE IF EndsIn(p, "spaces")
  THEN [p EXCEPT !.output[Len(p.output)].size = @ + n]
  ELSE AppendItem(p, Spaces(n))

EnsureSpace(p) ==
  IF p.formatEnabled /\ ~p.atLineStart /\ p.output # <<>> /\ ~EndsIn(p, "spaces")
  THEN AppendSpaces(p, 1) ELSE p

\* Only back to the start of the line.
StripTrailingSpaces(p) ==
  IF Len(p.output) > p.lineStart /\ EndsIn(p, "spaces")
  THEN [p EXCEPT !.output = Pop(@)] ELSE p

EnsureSingleSpace(p) ==
  IF ~p.formatEnabled \/ p.atLineStart THEN p
  ELSE AppendSpaces(StripTrailingSpaces(p), 1)

\* Mutation: the line number is advanced before it is recorded.
FinalizeLinePreIncrement(p) ==
  [p EXCEPT !.lineMetadata =
              Append(@, [kind |-> p.currentKind, depth |-> p.lineDepth,
                         lineNumber |-> p.outputLineNumber + 1]),
            !.outputLineNumber = @ + 1,
            !.currentKind = "Other"]

FinalizeLine(p) ==
  [p EXCEPT !.lineMetadata =
              Append(@, [kind |-> p.currentKind, depth |-> p.lineDepth,
                         lineNumber |-> p.outputLineNumber]),
            !.outputLineNumber = @ + 1,
            !.currentKind = "Other"]

\* Every helper that writes an end of line finalizes the line and moves
\* lineStart behind it.
EndLine(p) ==
  LET q == FinalizeLine(AppendItem(p, Newline))
  IN  [q EXCEPT !.lineStart = Len(q.output)]

\* The spaces are stripped past lineStart here.
ForceNewline(p) ==
  LET q == IF EndsIn(p, "spaces") THEN [p EXCEPT !.output = Pop(@)] ELSE p
  IN  [EndLine(q) EXCEPT !.atLineStart = TRUE]

BreakBeforeClose(p, close) ==
  IF ~p.formatEnabled \/ p.atLineStart \/ HasLeadingNewline(close) THEN p
  ELSE ForceNewline([p EXCEPT !.pending = @ \ {close.kind}])

OutputHasBlankLine(p) ==
  /\ p.atLineStart
  /\ Len(p.output) >= 2
  /\ p.output[Len(p.output)].kind = "newline"
  /\ p.output[Len(p.output) - 1].kind = "newline"

-----------------------------------------------------------------------------
(* Spacing between tokens. *)

ShouldSpaceAroundOperator(p) ==
  /\ p.style.SpaceAroundOperators
  /\ p.bracketDepth > 0 => p.style.SpacesInBrackets

\* A space for each flag the last token left behind whose option asks for one.
\* (After an opening bracket a space is due in a dimension only, and no
\* dimension is modelled.)
EmitDeferredSpaces(p) ==
  LET due == {f \in p.after :
                \/ f = "operatorToken" /\ ShouldSpaceAroundOperator(p)
                \/ f = "comma" /\ p.style.SpaceAfterComma
                \/ f = "semicolon" /\ p.style.SpaceAfterSemicolon
                \/ f = "openBrace" /\ p.style.SpacesInBraces
                \/ f = "openParen" /\ p.style.SpacesInParens}
  IN  AppendSpaces(p, Cardinality(due))

\* Mutation: a suppressed separator is not put back between two words.
EmitSeparatorSuppressAll(p, kind) ==
  IF \/ ~p.formatEnabled \/ p.atLineStart
     \/ kind = "EndOfFile" \/ p.output = <<>> \/ EndsIn(p, "spaces")
  THEN p
  ELSE [AppendSpaces(p, IF /\ ~p.suppressSeparator
                           /\ \/ NeedsSeparator(EndsInWord(p), kind)
                              \/ NeedsSpaceBetween(p.lastTokenKind, kind)
                        THEN 1 ELSE 0)
          EXCEPT !.suppressSeparator = FALSE]

\* suppressSeparator survives the early returns.
EmitSeparator(p, kind) ==
  IF \/ ~p.formatEnabled \/ p.atLineStart
     \/ kind = "EndOfFile" \/ p.output = <<>> \/ EndsIn(p, "spaces")
  THEN p
  ELSE LET merge == NeedsSeparator(EndsInWord(p), kind)
           space == IF p.suppressSeparator THEN merge
                    ELSE merge \/ NeedsSpaceBetween(p.lastTokenKind, kind)
       IN  [AppendSpaces(p, IF space THEN 1 ELSE 0)
              EXCEPT !.suppressSeparator = FALSE]

NormalizeSpaceBefore(p, next, wantSpace, suppressNextSeparator) ==
  IF ~p.formatEnabled \/ p.atLineStart \/ p.output = <<>> \/ HasLeadingNewline(next)
  THEN p
  ELSE [IF wantSpace THEN EnsureSpace(p) ELSE StripTrailingSpaces(p)
          EXCEPT !.suppressSeparator = @ \/ suppressNextSeparator]

\* Strips the space in front of the closing kind whose opening is pending and
\* puts one back when the option asks for it (within brackets: never, since no
\* dimension is modelled).
NormalizeBeforeClose(p, kind) ==
  IF kind \notin p.pending THEN p
  ELSE AppendSpaces(StripTrailingSpaces(p),
         IF \/ kind = "CloseBrace" /\ p.style.SpacesInBraces
            \/ kind = "CloseParenthesis" /\ p.style.SpacesInParens
         THEN 1 ELSE 0)

\* An item of a port list stands a width of its own to the right of the list's
\* line; below depth 1 that line is computed in unsigned and wraps around.
PortIndentWidth(p) ==
  LET indent == p.style.IndentWidth
      extra  == p.style.ParameterPortListIndentWidth
  IN  IF p.depth > 0 THEN (p.depth - 1) * indent + extra
      ELSE IF indent <= extra THEN extra - indent
      ELSE MaxUnsigned + 1 + extra - indent

IndentWidth(p) ==
  IF p.portItemNextIndent THEN PortIndentWidth(p)
  ELSE p.depth * p.style.IndentWidth
         + (IF p.nextIsPrimary THEN 0 ELSE p.style.ContinuationIndentWidth)

\* Only the first line of an item is its own; a comment's line is indented
\* without EmitIndent and does not count.
EmitIndent(p) ==
  [AppendSpaces(p, IndentWidth(p)) EXCEPT !.portItemNextIndent = FALSE]

PadBeforeTrailingComment(p) ==
  LET want == p.style.SpacesBeforeTrailingComments
      have == IF EndsIn(p, "spaces") THEN p.output[Len(p.output)].size ELSE 0
  IN  IF p.formatEnabled /\ have < want THEN AppendSpaces(p, want - have) ELSE p

-----------------------------------------------------------------------------
(* Trivia. *)

\* Mutation: blank lines are counted whether they are to be removed or not.
CountEveryBlankLine(p) == [p EXCEPT !.emptyLineCount = @ + 1]

\* shouldSuppressBlankLine counts as a side effect.
CountBlankLine(p) ==
  IF p.style.RemoveEmptyLines \/ p.emptyLineCount > 0
  THEN [p EXCEPT !.emptyLineCount = @ + 1] ELSE p

ShouldSuppressBlankLine(p) ==
  p.formatEnabled
    /\ CountBlankLine(p).emptyLineCount > p.style.MaxEmptyLinesToKeep

\* Mutation: the end of a line of text is suppressed like that of a blank one.
EmitEndOfLineSuppressAny(p) ==
  LET q == [p EXCEPT !.beforeOperator = FALSE, !.after = {}, !.pending = {},
                     !.suppressSeparator = FALSE]
  IN  IF ShouldSuppressBlankLine(q) THEN CountBlankLine(q)
      ELSE IF p.atLineStart
      THEN EndLine([CountBlankLine(q) EXCEPT !.currentKind = "Empty"])
      ELSE EndLine([StripTrailingSpaces(q) EXCEPT !.emptyLineCount = 0,
                                                  !.atLineStart = TRUE])

EmitEndOfLine(p) ==
  LET q == [p EXCEPT !.beforeOperator = FALSE, !.after = {}, !.pending = {},
                     !.suppressSeparator = FALSE]
  IN  IF p.atLineStart
      THEN IF ShouldSuppressBlankLine(q) THEN CountBlankLine(q)
           ELSE EndLine([CountBlankLine(q) EXCEPT !.currentKind = "Empty"])
      ELSE EndLine([StripTrailingSpaces(q) EXCEPT !.emptyLineCount = 0,
                                                  !.atLineStart = TRUE])

EmitWhitespace(p, width) ==
  IF p.formatEnabled THEN p ELSE AppendSpaces(p, width)

\* The deferred spaces come before the indentation, at the start of a line too,
\* and the newlines of a block comment are not counted.
EmitComment(p, t, at) ==
  LET q == [EmitDeferredSpaces(p) EXCEPT !.beforeOperator = FALSE, !.after = {}]
      r == IF p.atLineStart
           THEN LET s == [q EXCEPT !.currentKind = "Comment"]
                IN  IF p.formatEnabled THEN AppendSpaces(s, IndentWidth(s)) ELSE s
           ELSE PadBeforeTrailingComment(q)
  IN  [AppendItem(r, [kind |-> "comment", size |-> t.lines, at |-> at])
         EXCEPT !.lineDepth = p.depth,
                !.atLineStart = FALSE,
                !.formatEnabled = IF @ THEN t.pragma # "off" ELSE t.pragma = "on"]

-----------------------------------------------------------------------------
(* Directives: emitDirectiveTrivia, one piece at a time.                   *)

\* A macro is printed as it is used, so the token it expands to is not.
StartDirective(p, t) ==
  [EmitDeferredSpaces(p) EXCEPT
     !.beforeOperator = FALSE, !.after = {},
     !.skipExpandedToken = @ \/ t.kind = "MacroUsage"]

\* emitRawText counts the newlines of what it writes.
EmitRawText(p, t, kind, at) ==
  [AppendItem(p, [kind |-> kind, size |-> t.lines, at |-> at])
     EXCEPT !.outputLineNumber = @ + t.lines,
            !.lineDepth = p.depth, !.atLineStart = FALSE]

\* The name is not indented.
NameDirective(p, t, at) ==
  EmitRawText(IF p.atLineStart THEN [p EXCEPT !.currentKind = "Comment"] ELSE p,
              t, "directive", at)

\* Mutation: what a disabled branch opens does not move the depth, and what it
\* closes does without asking whether there is a level to leave.
EmitDirectiveTokenCloseOnly(p, t, at) ==
  LET q == IF t.kind = "DirectiveClose" THEN Dedent(p) ELSE p
      r == IF q.formatEnabled /\ q.atLineStart /\ q.depth > 0 THEN EmitIndent(q) ELSE q
  IN  EmitRawText(r, t, "word", at)

\* begin and end move the depth in a disabled branch, too.
EmitDirectiveToken(p, t, at) ==
  LET q == IF t.kind = "DirectiveClose" /\ p.depth > 0 THEN Dedent(p) ELSE p
      r == IF q.formatEnabled /\ q.atLineStart /\ q.depth > 0 THEN EmitIndent(q) ELSE q
      s == EmitRawText(r, t, "word", at)
  IN  IF t.kind = "DirectiveOpen" THEN Indent(s) ELSE s

\* Whitespace between the tokens of a directive, unless it is indented.
EmitDirectiveWhitespace(p, width) ==
  IF p.formatEnabled /\ p.atLineStart /\ p.depth > 0 THEN p ELSE AppendSpaces(p, width)

EndDirective(p) == [p EXCEPT !.lineDepth = p.depth, !.atLineStart = FALSE]

\* Of the trivia among the later tokens of a directive, comments are left out.
EmitTriviaInDirective(p, t, at) ==
  CASE t.kind = "EndOfLine"     -> EmitEndOfLine(p)
    [] t.kind = "Whitespace"    -> EmitDirectiveWhitespace(p, t.width)
    [] t.kind \in DirectiveTexts -> EmitDirectiveToken(p, t, at)
    [] OTHER                    -> p

EmitTrivia(p, t, at) ==
  IF IsInDirective(t) THEN EmitTriviaInDirective(p, t, at)
  ELSE CASE t.kind = "EndOfLine"     -> EmitEndOfLine(p)
         [] t.kind = "Whitespace"    -> EmitWhitespace(p, t.width)
         [] StartsDirective(t)       -> StartDirective(p, t)
         [] t.kind = "DirectiveName" -> NameDirective(p, t, at)
         [] t.kind = "DirectiveEnd"  -> EndDirective(p)
         [] OTHER                    -> EmitComment(p, t, at)

-----------------------------------------------------------------------------
(* Tokens. *)

\* Mutation: the optional line kind is read without asking for one.
StartLineUnchecked(p, kind) ==
  IF ~p.atLineStart THEN p
  ELSE LET q == [p EXCEPT !.currentKind = p.nextLineKind, !.nextLineKind = "none"]
           r == IF p.formatEnabled /\ kind # "EndOfFile" THEN EmitIndent(q) ELSE q
       IN  [r EXCEPT !.atLineStart = FALSE]

\* The first token of a line names its kind and is indented.
StartLine(p, kind) ==
  IF ~p.atLineStart THEN p
  ELSE LET q == IF p.nextLineKind = "none" THEN p
                ELSE [p EXCEPT !.currentKind = p.nextLineKind,
                               !.nextLineKind = "none"]
           r == IF p.formatEnabled /\ kind # "EndOfFile" THEN EmitIndent(q) ELSE q
       IN  [r EXCEPT !.atLineStart = FALSE]

NeedsStripBefore(kind) == kind \in {"Comma", "Semicolon"}

\* What emitToken adjusts in front of a token while formatting is enabled.
NormalizeBefore(p, kind) ==
  IF ~p.formatEnabled THEN p
  ELSE LET q == IF NeedsStripBefore(kind) THEN StripTrailingSpaces(p) ELSE p
           r == [q EXCEPT !.bracketDepth =
                   IF kind = "CloseBracket" /\ @ > 0 THEN @ - 1 ELSE @]
           s == NormalizeBeforeClose(r, kind)
       IN  IF ~p.beforeOperator THEN s
           ELSE AppendSpaces(StripTrailingSpaces(s),
                             IF ShouldSpaceAroundOperator(s) THEN 1 ELSE 0)

AppendToken(p, kind, at) ==
  IF kind = "EndOfFile" \/ p.skipExpandedToken THEN p
  ELSE AppendItem(p, [kind |-> IF kind \in WordKinds THEN "word" ELSE "symbol",
                      size |-> 0, at |-> at])

FlagsAfter(kind) ==
  CASE kind = "Comma"           -> {"comma"}
    [] kind = "Semicolon"       -> {"semicolon"}
    [] kind = "OpenBrace"       -> {"openBrace"}
    [] kind = "OpenBracket"     -> {"openBracket"}
    [] kind = "OpenParenthesis" -> {"openParen"}
    [] OTHER                    -> {}

ClosingOf(kind) ==
  CASE kind = "OpenBrace"       -> {"CloseBrace"}
    [] kind = "OpenBracket"     -> {"CloseBracket"}
    [] kind = "OpenParenthesis" -> {"CloseParenthesis"}
    [] OTHER                    -> {}

\* Mutation: beforeOperator is reset before it is remembered.
UpdateFlagsAfterReset(p, kind) ==
  [p EXCEPT
    !.after = IF p.formatEnabled THEN FlagsAfter(kind) ELSE {},
    !.beforeOperator = FALSE,
    !.pending = IF p.formatEnabled THEN @ \cup ClosingOf(kind) ELSE @,
    !.bracketDepth =
      IF p.formatEnabled /\ kind = "OpenBracket" THEN @ + 1 ELSE @]

UpdateAfterTokenFlags(p, kind) ==
  [p EXCEPT
    !.after = IF ~p.formatEnabled THEN {}
              ELSE FlagsAfter(kind)
                     \cup (IF p.beforeOperator THEN {"operatorToken"} ELSE {}),
    !.beforeOperator = FALSE,
    !.pending = IF p.formatEnabled THEN @ \cup ClosingOf(kind) ELSE @,
    !.bracketDepth =
      IF p.formatEnabled /\ kind = "OpenBracket" THEN @ + 1 ELSE @]

\* Mutation: behind a macro not only the token that it expands to is left out.
FinishTokenSkipOn(p, kind, at) ==
  LET spaced == IF p.atLineStart THEN p ELSE EmitDeferredSpaces(p)
      placed == NormalizeBefore(StartLine(EmitSeparator(spaced, kind), kind), kind)
  IN  UpdateAfterTokenFlags(
        [AppendToken(placed, kind, at)
           EXCEPT !.lineDepth = p.depth, !.nextIsPrimary = FALSE,
                  !.emptyLineCount = 0, !.lastTokenKind = kind], kind)

\* emitToken after its trivia.
FinishToken(p, kind, at) ==
  LET spaced == IF p.atLineStart THEN p ELSE EmitDeferredSpaces(p)
      placed == NormalizeBefore(StartLine(EmitSeparator(spaced, kind), kind), kind)
  IN  UpdateAfterTokenFlags(
        [AppendToken(placed, kind, at)
           EXCEPT !.lineDepth = p.depth, !.nextIsPrimary = FALSE,
                  !.emptyLineCount = 0, !.skipExpandedToken = FALSE,
                  !.lastTokenKind = kind], kind)
=============================================================================
