---------------------------- MODULE PrinterCalls ----------------------------
(***************************************************************************)
(* The syntax-driven printer: slang's visitor calls one handler per node,  *)
(* and a handler emits tokens, moves the depth, forces line breaks and     *)
(* visits the node's children.                                             *)
(*                                                                         *)
(* The C++ call stack is the variable work: the calls still to be made, in *)
(* order.  Visiting a node replaces it by the calls its handler makes;     *)
(* what a handler reads from the printer between two calls is read by a    *)
(* call of its own, when its turn comes.  Emitting a token replaces the    *)
(* call by one call per leading trivia and one for the token.              *)
(***************************************************************************)
EXTENDS PrinterState

CONSTANTS
  Documents,   \* the parsed sources to print
  Styles       \* the configurations to print them with

ASSUME DocumentsAssumption == \A d \in Documents : IsDocument(d)

ASSUME StylesAssumption == Styles \subseteq Style

VARIABLES
  doc,    \* the document being printed
  pr,     \* the printer
  work    \* the calls still to be made

vars == <<doc, pr, work>>

Ops == {"visit", "member", "moduleMember", "blockItem", "constraintItem",
        "closeScope", "breakBeforeClose", "skipTrivia",
        "emitToken", "emitOperator", "emitTrivia", "finishToken",
        "emitEndTokenTrivia", "insertBlankLineBefore", "finishBlankLine",
        "forceNewline", "forceStatementBreak", "breakConditionalBody",
        "spaceBefore", "noSpaceBefore", "timingControlLine",
        "declarationLine", "connectionLine", "boundaryLine",
        "primary", "indent", "dedent",
        "portList", "port", "wrappedPort", "plainPort",
        "visitExpanded", "instances", "instance", "instanceSpace", "stripSpaces",
        "portItem", "portItemDone", "trialPorts", "trialPort", "endTrial", "packedPort",
        "softSpaceBefore", "softNoSpaceBefore", "ensureSpace", "ensureSingleSpace",
        "freshLine", "rsItem",
        "assignmentLine", "declarator", "listedItem", "listItem", "importPorts",
        "coverItems", "inlineItem", "weightSpaces", "oneSpace"}

\* A call with its arguments: x is a token or a node of the document, i the
\* position of a trivia or of a child.
Call == [op : Ops, x : Nat, i : Nat]

Do(op, x)        == [op |-> op, x |-> x, i |-> 0]
DoNth(op, x, i)  == [op |-> op, x |-> x, i |-> i]
When(cond, call) == IF cond THEN <<call>> ELSE <<>>

Tok(i)   == doc.toks[i]
Kids(n)  == doc.nodes[n].kids
Head1(n) == doc.nodes[n].head
Tail1(n) == doc.nodes[n].tail
Label(n) == doc.nodes[n].label
First(n) == doc.nodes[n].first
Kind(n)  == doc.nodes[n].kind

\* Operators are announced wherever they stand.
Emit1(tok) ==
  Do(IF Tok(tok).kind \in {"Operator", "WordOperator"} THEN "emitOperator"
     ELSE "emitToken", tok)

EmitAll(toks) == [k \in DOMAIN toks |-> Emit1(toks[k])]

\* The label of a statement: name, colon.
LabelCalls(n) ==
  IF Label(n) = <<>> THEN <<>>
  ELSE <<Do("emitToken", Label(n)[1]), Do("ensureSpace", 0),
         Do("emitToken", Label(n)[2])>>

\* Tokens among which a keyword may have the name of its block: begin : name.
EmitNamed(toks) ==
  IF Len(toks) = 3 /\ Tok(toks[2]).kind = "Colon"
  THEN <<Do("emitToken", toks[1]), Do("ensureSpace", 0), Do("emitToken", toks[2]),
         Do("ensureSpace", 0), Do("emitToken", toks[3])>>
  ELSE EmitAll(toks)

EmitTriviaUpTo(tok, last) == [j \in 1..last |-> DoNth("emitTrivia", tok, j)]

IsBlock(n) == Kind(n) = "BlockStatement"

\* A module or function whose header is a node of its own, not just tokens.
HasHeader(n) == Kids(n) # <<>> /\ Kind(Kids(n)[1]) = "Header"

FirstMember(n) == IF HasHeader(n) THEN 2 ELSE 1

VisitHeaderOf(n) == IF HasHeader(n) THEN <<Do("visit", Kids(n)[1])>> ELSE <<>>

\* The token that closes the scope of node n.
CloseToken(n) == Tail1(n)[1]

ContainsBlock(n) ==
  \E m \in DOMAIN doc.nodes :
    /\ IsBlock(m)
    /\ First(n) <= First(m)
    /\ doc.nodes[m].last <= doc.nodes[n].last

Init ==
  /\ doc \in Documents
  /\ \E style \in Styles : pr = NewPrinter(style)
  /\ work = <<Do("visit", doc.root)>>
              \o When(Kind(doc.root) # "CompilationUnit",
                      Do("emitToken", Len(doc.toks)))

-----------------------------------------------------------------------------
(* Calls that only change the printer, and calls that make further calls. *)

Calling(op) == work # <<>> /\ Head(work).op = op

Arg == Head(work).x

Return(p) ==
  /\ pr' = p
  /\ work' = Tail(work)
  /\ UNCHANGED doc

Continue(p, calls) ==
  /\ pr' = p
  /\ work' = calls \o Tail(work)
  /\ UNCHANGED doc

Visiting(kind) == Calling("visit") /\ Kind(Arg) = kind

Primary(p) == [p EXCEPT !.nextIsPrimary = TRUE]

CallPrimary == Calling("primary") /\ Return(Primary(pr))

CallIndent == Calling("indent") /\ Return(Indent(pr))

CallDedent == Calling("dedent") /\ Return(Dedent(pr))

CallForceNewline == Calling("forceNewline") /\ Return(ForceNewline(pr))

CallLineKind ==
  \/ /\ Calling("timingControlLine")
     /\ Return([pr EXCEPT !.nextLineKind = "TimingControl"])
  \/ /\ Calling("declarationLine")
     /\ Return([pr EXCEPT !.nextLineKind = "Declaration"])
  \/ /\ Calling("assignmentLine")
     /\ Return([pr EXCEPT !.nextLineKind = "Assignment"])
  \/ /\ Calling("connectionLine")
     /\ Return([pr EXCEPT !.nextLineKind = "PortConnection"])
  \/ /\ Calling("boundaryLine")
     /\ Return([pr EXCEPT !.nextLineKind = "PortListBoundary"])

CallNormalizeSpaceBefore ==
  \/ /\ Calling("spaceBefore")
     /\ Return(NormalizeSpaceBefore(pr, Tok(Arg), TRUE, TRUE))
  \/ /\ Calling("noSpaceBefore")
     /\ Return(NormalizeSpaceBefore(pr, Tok(Arg), FALSE, TRUE))
  \/ /\ Calling("softSpaceBefore")
     /\ Return(NormalizeSpaceBefore(pr, Tok(Arg), TRUE, FALSE))
  \/ /\ Calling("softNoSpaceBefore")
     /\ Return(NormalizeSpaceBefore(pr, Tok(Arg), FALSE, FALSE))

SpaceBefore(want, tok) == Do(IF want THEN "spaceBefore" ELSE "noSpaceBefore", tok)

\* A later rule may still put a separator in.
SoftSpaceBefore(want, tok) ==
  Do(IF want THEN "softSpaceBefore" ELSE "softNoSpaceBefore", tok)

CallEnsureSpace ==
  \/ Calling("ensureSpace") /\ Return(EnsureSpace(pr))
  \/ Calling("ensureSingleSpace") /\ Return(EnsureSingleSpace(pr))

\* A line of its own, whatever the source has.
CallFreshLine ==
  /\ Calling("freshLine")
  /\ Return(IF pr.formatEnabled THEN Primary(ForceNewline(pr)) ELSE pr)

-----------------------------------------------------------------------------
(* Tokens, trivia, line breaks. *)

EmitToken ==
  /\ Calling("emitToken")
  /\ LET trivia == Tok(Arg).trivia
         from   == pr.triviaSkip
     IN  Continue([pr EXCEPT !.triviaSkip = 0],
           [j \in 1..(IF from < Len(trivia) THEN Len(trivia) - from ELSE 0) |->
              DoNth("emitTrivia", Arg, from + j)]
           \o <<Do("finishToken", Arg)>>)

\* A binary expression announces its operator.
EmitOperator ==
  /\ Calling("emitOperator")
  /\ Continue([pr EXCEPT !.beforeOperator = pr.formatEnabled],
              <<Do("emitToken", Arg)>>)

CallEmitTrivia ==
  /\ Calling("emitTrivia")
  /\ LET i == Head(work).i
     IN  Return(EmitTrivia(pr, Tok(Arg).trivia[i], <<Arg, i>>))

CallFinishToken ==
  /\ Calling("finishToken")
  /\ Return(FinishToken(pr, Tok(Arg).kind, <<Arg, 0>>))

\* Mutation: the trivia emitted early are not skipped later.
EmitEndTokenTriviaTwice ==
  /\ Calling("emitEndTokenTrivia")
  /\ IF HasLeadingNewline(Tok(Arg))
     THEN Continue(pr, EmitTriviaUpTo(Arg, Len(Tok(Arg).trivia)))
     ELSE Return(pr)

\* The trivia of a closing token, while the depth is still the body's.
EmitEndTokenTrivia ==
  /\ Calling("emitEndTokenTrivia")
  /\ LET n == Len(Tok(Arg).trivia)
     IN  IF HasLeadingNewline(Tok(Arg))
         THEN Continue([pr EXCEPT !.triviaSkip = n], EmitTriviaUpTo(Arg, n))
         ELSE Return(pr)

\* Mutation: statements are broken while formatting is off.
ForceStatementBreakAlways(tok) ==
  pr.style.OneStatementPerLine /\ ~HasLeadingNewline(Tok(tok))

ShouldForceStatementBreak(tok) ==
  pr.style.OneStatementPerLine /\ pr.formatEnabled /\ ~HasLeadingNewline(Tok(tok))

BreakStatement(tok) ==
  IF ShouldForceStatementBreak(tok) THEN ForceNewline(pr) ELSE pr

ForceStatementBreak ==
  Calling("forceStatementBreak") /\ Return(BreakStatement(Arg))

\* Not conditional on formatEnabled.
InsertBlankLineBefore ==
  /\ Calling("insertBlankLineBefore")
  /\ IF HasLeadingBlankLine(Tok(Arg)) \/ OutputHasBlankLine(pr)
     THEN Return(pr)
     ELSE LET n == IF HasLeadingTrailingComment(Tok(Arg))
                   THEN LeadingTrailingLength(Tok(Arg)) ELSE 0
          IN  Continue([pr EXCEPT !.triviaSkip = IF n = 0 THEN @ ELSE n],
                       EmitTriviaUpTo(Arg, n) \o <<Do("finishBlankLine", Arg)>>)

\* Mutation: the ends of line that follow are not counted against the blank
\* line just made.
FinishBlankLineUncounted ==
  /\ Calling("finishBlankLine")
  /\ LET p == IF pr.atLineStart THEN pr ELSE ForceNewline(pr)
     IN  Return(EndLine([p EXCEPT !.currentKind = "Empty"]))

\* Mutation: the blank line gets no metadata record.
FinishBlankLineUnrecorded ==
  /\ Calling("finishBlankLine")
  /\ LET p == AppendItem(IF pr.atLineStart THEN pr ELSE ForceNewline(pr), Newline)
     IN  Return([p EXCEPT !.lineStart = Len(p.output),
                          !.emptyLineCount = pr.style.MaxEmptyLinesToKeep])

FinishBlankLine ==
  /\ Calling("finishBlankLine")
  /\ LET p == IF pr.atLineStart THEN pr ELSE ForceNewline(pr)
     IN  Return([EndLine([p EXCEPT !.currentKind = "Empty"])
                   EXCEPT !.emptyLineCount = pr.style.MaxEmptyLinesToKeep])

SkipTrivia ==
  /\ Calling("skipTrivia")
  /\ Return([pr EXCEPT !.triviaSkip = Len(Tok(Arg).trivia)])

CallBreakBeforeClose ==
  Calling("breakBeforeClose") /\ Return(BreakBeforeClose(pr, Tok(Arg)))
=============================================================================
