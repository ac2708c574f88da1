---------------------------- MODULE FormatMember ----------------------------
(***************************************************************************)
(* The handlers of members (source/FormatMember.cpp) and of classes and    *)
(* constraints (source/FormatClass.cpp).                                   *)
(***************************************************************************)
EXTENDS FormatStatement

\* A block is split over lines in the source, or will be when each statement
\* gets its own.
IsMultiline(block) ==
  \/ pr.style.OneStatementPerLine
  \/ HasLeadingNewline(Tok(CloseToken(block)))
  \/ \E k \in DOMAIN Kids(block) : HasLeadingNewline(Tok(First(Kids(block)[k])))

HasElse(n) == Kind(n) = "ConditionalStatement" /\ Len(Kids(n)) = 2

ShouldBreakBeforeProcedural(brkStyle, body) ==
  \/ brkStyle = "Always"
  \/ /\ brkStyle = "OnlyMultiline"
     /\ IF IsBlock(body)
        THEN \/ Len(Kids(body)) = 1 /\ ContainsBlock(Kids(body)[1])
             \/ Len(Kids(body)) > 1 /\ IsMultiline(body)
        ELSE HasElse(body) \/ ContainsBlock(body)

ShouldBreakAfterProcedural(brkStyle, body) ==
  /\ brkStyle # "Never"
  /\ ~HasLeadingNewline(Tok(First(body)))
  /\ IsBlock(body) =>
       ~HasLeadingNewline(Tok(IF Kids(body) = <<>> THEN CloseToken(body)
                              ELSE First(Kids(body)[1])))
  /\ \/ brkStyle = "Always"
     \/ IF IsBlock(body) THEN Len(Kids(body)) > 1 /\ IsMultiline(body)
        ELSE HasElse(body) \/ ContainsBlock(body)

\* visitProceduralBody: a timing control is taken along, then comes the body.
ProceduralBody(stmt, breakAfter) ==
  LET timed == Kind(stmt) = "TimingControlStatement"
      body  == IF timed THEN Kids(stmt)[1] ELSE stmt
  IN  (IF timed THEN TimingCalls(stmt) ELSE <<>>)
        \o (IF ShouldBreakAfterProcedural(breakAfter, body)
            THEN <<Do("forceNewline", 0), Do("primary", 0)>> ELSE <<>>)
        \o VisitBody(body)

\* The statement behind the timing control of a procedure, if it has one.
TimedBody(stmt) ==
  IF Kind(stmt) = "TimingControlStatement" THEN Kids(stmt)[1] ELSE stmt

VisitProceduralBlock ==
  /\ Visiting("ProceduralBlock")
  /\ LET stmt == Kids(Arg)[1]
     IN  Continue(pr,
           When(ShouldBreakBeforeProcedural(pr.style.BreakBeforeAlways, TimedBody(stmt)),
                Do("insertBlankLineBefore", First(Arg)))
           \o When(Kind(stmt) = "TimingControlStatement", Do("timingControlLine", 0))
           \o <<Do("primary", 0)>> \o EmitAll(Head1(Arg))
           \o <<SpaceBefore(pr.style.SpaceAfterAlways, First(stmt))>>
           \o ProceduralBody(stmt, pr.style.BreakAfterAlways))

VisitInitialBlock ==
  /\ Visiting("InitialBlock")
  /\ LET stmt == Kids(Arg)[1]
     IN  Continue(pr,
           When(ShouldBreakBeforeProcedural(pr.style.BreakBeforeInitial, TimedBody(stmt)),
                Do("insertBlankLineBefore", First(Arg)))
           \o <<Do("primary", 0)>> \o EmitAll(Head1(Arg))
           \o ProceduralBody(stmt, pr.style.BreakAfterInitial))

VisitTimeUnits ==
  /\ Visiting("TimeUnitsDeclaration")
  /\ Continue(pr, <<Do("declarationLine", 0)>> \o EmitAll(Head1(Arg)))

\* The handlers that end in visitMembers.
Scope(n) ==
  LabelCalls(n) \o EmitNamed(Head1(n)) \o VisitHeaderOf(n) \o OpenMembers(n)

\* The handlers that do nothing else.
VisitClass == Visiting("ClassDeclaration") /\ Continue(pr, Scope(Arg))

VisitChecker == Visiting("CheckerDeclaration") /\ Continue(pr, Scope(Arg))

VisitClocking == Visiting("ClockingDeclaration") /\ Continue(pr, Scope(Arg))

VisitConfig == Visiting("ConfigDeclaration") /\ Continue(pr, Scope(Arg))

VisitCovergroup == Visiting("CovergroupDeclaration") /\ Continue(pr, Scope(Arg))

VisitProperty == Visiting("PropertyDeclaration") /\ Continue(pr, Scope(Arg))

VisitSequence == Visiting("SequenceDeclaration") /\ Continue(pr, Scope(Arg))

VisitGenerateBlock == Visiting("GenerateBlock") /\ Continue(pr, Scope(Arg))

VisitGenerateRegion == Visiting("GenerateRegion") /\ Continue(pr, Scope(Arg))

BreaksBefore(n) ==
  \/ Kind(n) = "FunctionDeclaration" /\ pr.style.BreakBeforeFunction
  \/ Kind(n) = "TaskDeclaration" /\ pr.style.BreakBeforeTask

VisitFunction ==
  \E kind \in {"FunctionDeclaration", "TaskDeclaration"} :
    /\ Visiting(kind)
    /\ Continue(pr, When(BreaksBefore(Arg), Do("insertBlankLineBefore", First(Arg)))
                      \o Scope(Arg))

VisitSpecify ==
  /\ Visiting("SpecifyBlock")
  /\ Continue(pr, When(pr.style.BreakBeforeSpecifyBlock,
                       Do("insertBlankLineBefore", First(Arg)))
                    \o Scope(Arg))

VisitCaseGenerate ==
  /\ Visiting("CaseGenerate")
  /\ Continue(pr, ControlHead(Head1(Arg)) \o OpenMembers(Arg))

\* Their blocks stay on the line and are not set apart, nor is a member
\* without a block.
VisitIfGenerate ==
  /\ Visiting("IfGenerate")
  /\ Continue(pr, ControlHead(Head1(Arg)) \o <<Do("visit", Kids(Arg)[1])>>
       \o IF Len(Kids(Arg)) = 2
          THEN <<Do("primary", 0), Do("emitToken", Tail1(Arg)[1]),
                 Do("visit", Kids(Arg)[2])>>
          ELSE <<>>)

VisitLoopGenerate ==
  /\ Visiting("LoopGenerate")
  /\ Continue(pr, ControlHead(Head1(Arg)) \o <<Do("visit", Kids(Arg)[1])>>)

VisitCompilationUnit ==
  /\ Visiting("CompilationUnit")
  /\ Continue(pr, <<DoNth("member", Arg, 1)>>)

\* The loop of visitMembers, and that of a compilation unit, which closes no
\* scope.
NextMember ==
  /\ Calling("member")
  /\ LET i == Head(work).i
     IN  Continue(Primary(pr),
           IF i \in DOMAIN Kids(Arg)
           THEN <<Do("visit", Kids(Arg)[i]), DoNth("member", Arg, i + 1)>>
           ELSE IF Kind(Arg) = "CompilationUnit" THEN EmitAll(Tail1(Arg))
           ELSE <<Do("emitEndTokenTrivia", CloseToken(Arg)), Do("closeScope", Arg)>>)

VisitModule ==
  /\ Visiting("ModuleDeclaration")
  /\ Continue(Primary(pr),
              EmitAll(Head1(Arg)) \o VisitHeaderOf(Arg)
                \o <<Do("indent", 0), DoNth("moduleMember", Arg, FirstMember(Arg))>>)

\* Adjacent time units share a line when the option says so: the second one's
\* trivia are skipped, unless a comment is among them.
ShouldCompactTimeUnits(n, i) ==
  /\ pr.style.CompactTimeUnits
  /\ i > 1
  /\ Kind(Kids(n)[i - 1]) = "TimeUnitsDeclaration"
  /\ Kind(Kids(n)[i]) = "TimeUnitsDeclaration"

BeforeModuleMember(n, i) ==
  LET tok     == First(Kids(n)[i])
      compact == ShouldCompactTimeUnits(n, i)
  IN  IF ShouldForceStatementBreak(tok)
      THEN IF compact THEN pr ELSE ForceNewline(pr)
      ELSE IF compact /\ pr.formatEnabled /\ ~HasLeadingComment(Tok(tok))
      THEN [pr EXCEPT !.triviaSkip = Len(Tok(tok).trivia)]
      ELSE pr

NextModuleMember ==
  /\ Calling("moduleMember")
  /\ LET i == Head(work).i
     IN  IF i \in DOMAIN Kids(Arg)
         THEN Continue(Primary(BeforeModuleMember(Arg, i)),
                       <<Do("visit", Kids(Arg)[i]), DoNth("moduleMember", Arg, i + 1)>>)
         ELSE Continue(Primary(pr),
                       <<Do("emitEndTokenTrivia", CloseToken(Arg)),
                         Do("closeScope", Arg)>>)

-----------------------------------------------------------------------------
(* Constraints. *)

VisitConstraint ==
  /\ Visiting("ConstraintDeclaration")
  /\ Continue(pr, EmitAll(Head1(Arg)) \o <<Do("visit", Kids(Arg)[1])>>)

\* hasExpandingBlock
HasExpandingBlock(n) ==
  \E m \in DOMAIN doc.nodes :
    /\ Kind(m) \in {"DistConstraintList", "ConstraintBlock"}
    /\ First(n) <= First(m)
    /\ doc.nodes[m].last <= doc.nodes[n].last

\* Only the item is asked whether comments are in the way; the trivia of the
\* closing brace are skipped like those of the item.
IsShortConstraintBlock(n, fits) ==
  /\ pr.formatEnabled
  /\ pr.style.AllowShortConstraintBlocks
  /\ Len(Kids(n)) = 1
  /\ LET item == Kids(n)[1]
     IN  /\ ~HasExpandingBlock(item)
         /\ HasFlatWidth(doc.toks, First(item), doc.nodes[item].last, TRUE)
  /\ fits

VisitConstraintBlock ==
  /\ Visiting("ConstraintBlock")
  /\ \E fits \in Fits :
       Continue(pr, EmitAll(Head1(Arg)) \o
         IF IsShortConstraintBlock(Arg, fits)
         THEN <<Do("skipTrivia", First(Kids(Arg)[1])), Do("visit", Kids(Arg)[1]),
                Do("skipTrivia", CloseToken(Arg)), Do("emitToken", CloseToken(Arg))>>
         ELSE <<Do("indent", 0), DoNth("constraintItem", Arg, 1)>>)

NextConstraintItem ==
  /\ Calling("constraintItem")
  /\ LET i == Head(work).i
     IN  IF i \in DOMAIN Kids(Arg)
         THEN LET item == Kids(Arg)[i]
                  break == /\ pr.formatEnabled /\ ~pr.atLineStart
                           /\ ~HasLeadingNewline(Tok(First(item)))
              IN  Continue(Primary(IF break THEN ForceNewline(pr) ELSE pr),
                           <<Do("visit", item), DoNth("constraintItem", Arg, i + 1)>>)
         ELSE Continue(Primary(pr),
                <<Do("emitEndTokenTrivia", CloseToken(Arg)), Do("dedent", 0),
                  Do("breakBeforeClose", CloseToken(Arg)), Do("primary", 0),
                  Do("emitToken", CloseToken(Arg))>>)
=============================================================================
