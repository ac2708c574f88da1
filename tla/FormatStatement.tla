-------------------------- MODULE FormatStatement ---------------------------
(***************************************************************************)
(* The handlers of statements (source/FormatStatement.cpp).                *)
(***************************************************************************)
EXTENDS PrinterCalls

\* A block indents its items itself.
VisitBody(n) ==
  IF IsBlock(n) THEN <<Do("primary", 0), Do("visit", n)>>
  ELSE <<Do("indent", 0), Do("primary", 0), Do("visit", n), Do("dedent", 0)>>

\* Whatever the visitor walks token by token: expression statements,
\* declarations.
VisitLeaf ==
  \E kind \in {"Leaf", "EmptyStatement"} :
    Visiting(kind) /\ Continue(pr, LabelCalls(Arg) \o EmitAll(Head1(Arg)))

VisitBlock ==
  /\ Visiting("BlockStatement")
  /\ Continue(pr, LabelCalls(Arg) \o EmitNamed(Head1(Arg))
                    \o <<Do("indent", 0), DoNth("blockItem", Arg, 1)>>)

\* The break after begin does not ask for formatEnabled, the others do.
NextBlockItem ==
  /\ Calling("blockItem")
  /\ LET i == Head(work).i
     IN  IF i \in DOMAIN Kids(Arg)
         THEN LET item == Kids(Arg)[i]
                  tok  == First(item)
                  p    == IF i > 1 THEN BreakStatement(tok)
                          ELSE IF pr.style.BreakAfterBegin /\ ~HasLeadingNewline(Tok(tok))
                          THEN ForceNewline(pr) ELSE pr
              IN  Continue(Primary(p),
                           <<Do("visit", item), DoNth("blockItem", Arg, i + 1)>>)
         ELSE Continue(Primary(pr),
                       <<Do("emitEndTokenTrivia", CloseToken(Arg)),
                         Do("closeScope", Arg)>>)

\* Mutation: the closing keyword is indented like the items.
CloseScopeIndented ==
  /\ Calling("closeScope")
  /\ LET break == /\ IsBlock(Arg)
                  /\ pr.style.BreakBeforeEnd
                  /\ ~HasLeadingNewline(Tok(CloseToken(Arg)))
     IN  Continue(Primary(IF break THEN ForceNewline(pr) ELSE pr),
                  EmitNamed(Tail1(Arg)) \o <<Do("dedent", 0)>>)

\* The end of a block, module, class or function.
CloseScope ==
  /\ Calling("closeScope")
  /\ LET p == Dedent(pr)
         break == /\ IsBlock(Arg)
                  /\ pr.style.BreakBeforeEnd
                  /\ ~HasLeadingNewline(Tok(CloseToken(Arg)))
     IN  Continue(Primary(IF break THEN ForceNewline(p) ELSE p),
                  EmitNamed(Tail1(Arg)))

\* Whether the flattened body fits within the column limit is left open.
Fits == IF pr.style.ColumnLimited THEN BOOLEAN ELSE {TRUE}

ShouldCompactConditionalBody(n, fits) ==
  /\ pr.style.CompactControlStatements
  /\ pr.style.OneStatementPerLine
  /\ pr.formatEnabled
  /\ HasFlatWidth(doc.toks, First(n), doc.nodes[n].last, FALSE)
  /\ fits

BreakConditionalBody ==
  /\ Calling("breakConditionalBody")
  /\ \E fits \in Fits :
       Return(IF IsBlock(Arg) \/ ShouldCompactConditionalBody(Arg, fits)
              THEN pr ELSE BreakStatement(First(Arg)))

\* keyword ( ... ), or what stands in front of a body.
ControlHead(toks) ==
  <<Do("emitToken", toks[1]), SpaceBefore(pr.style.SpaceBeforeParens, toks[2])>>
    \o EmitAll(Tail(toks))

\* The common part of if, while, repeat and foreach.
ControlCalls(n) ==
  LET body == Kids(n)[1]
  IN  LabelCalls(n) \o ControlHead(Head1(n))
        \o <<SpaceBefore(pr.style.SpaceAfterParens, First(body)),
             Do("breakConditionalBody", body)>>
        \o VisitBody(body)

VisitLoop ==
  /\ Visiting("LoopStatement")
  /\ Continue(pr, ControlCalls(Arg))

\* The body of a for loop is never compacted.
VisitForLoop ==
  /\ Visiting("ForLoopStatement")
  /\ LET body == Kids(Arg)[1]
     IN  Continue(pr, LabelCalls(Arg) \o ControlHead(Head1(Arg))
           \o <<SpaceBefore(pr.style.SpaceAfterParens, First(body))>>
           \o When(~IsBlock(body), Do("forceStatementBreak", First(body)))
           \o VisitBody(body))

VisitForever ==
  /\ Visiting("ForeverStatement")
  /\ LET body == Kids(Arg)[1]
     IN  Continue(pr, LabelCalls(Arg) \o EmitAll(Head1(Arg))
           \o <<Do("breakConditionalBody", body)>> \o VisitBody(body))

\* while follows the end of a block on its line.
VisitDoWhile ==
  /\ Visiting("DoWhileStatement")
  /\ LET body  == Kids(Arg)[1]
         while == Tail1(Arg)
     IN  Continue(pr, LabelCalls(Arg) \o EmitAll(Head1(Arg))
           \o When(~IsBlock(body), Do("forceStatementBreak", First(body)))
           \o VisitBody(body)
           \o (IF IsBlock(body) THEN <<>>
               ELSE <<Do("forceStatementBreak", while[1]), Do("primary", 0)>>)
           \o ControlHead(while))

\* else if does not indent.
ElseCalls(n) ==
  LET clause == Kids(n)[2]
  IN  When(~IsBlock(Kids(n)[1]), Do("forceStatementBreak", Tail1(n)[1]))
        \o <<Do("primary", 0), Do("emitToken", Tail1(n)[1])>>
        \o IF Kind(clause) = "ConditionalStatement" THEN <<Do("visit", clause)>>
           ELSE <<Do("breakConditionalBody", clause)>> \o VisitBody(clause)

VisitConditional ==
  /\ Visiting("ConditionalStatement")
  /\ Continue(pr, ControlCalls(Arg)
                    \o IF Len(Kids(Arg)) = 2 THEN ElseCalls(Arg) ELSE <<>>)

-----------------------------------------------------------------------------
(* Case statements. *)

\* The scope of a node, up to the loop over its members.
OpenMembers(n) == <<Do("indent", 0), DoNth("member", n, FirstMember(n))>>

\* case ( ... ), with or without inside or matches.
CaseHead(toks) ==
  LET last == toks[Len(toks)]
  IN  IF Tok(last).kind = "CloseParenthesis" THEN ControlHead(toks)
      ELSE ControlHead(Pop(toks))
             \o <<SpaceBefore(pr.style.SpaceAfterParens, last), Do("emitToken", last)>>

VisitCase ==
  /\ Visiting("CaseStatement")
  /\ Continue(pr, LabelCalls(Arg) \o CaseHead(Head1(Arg)) \o OpenMembers(Arg))

VisitRandCase ==
  /\ Visiting("RandCaseStatement")
  /\ Continue(pr, LabelCalls(Arg) \o EmitAll(Head1(Arg)) \o OpenMembers(Arg))

\* The expressions of an item and its colon.
CaseItemHead(n) ==
  LET colon == Head1(n)[Len(Head1(n))]
  IN  EmitAll(Pop(Head1(n)))
        \o <<SoftSpaceBefore(pr.style.SpaceBeforeCaseColon, colon), Do("emitToken", colon)>>

SpaceBeforeClause(n) ==
  <<SoftSpaceBefore(pr.style.SpaceAfterCaseColon, First(Kids(n)[1]))>>

\* visitCaseItemClause
VisitClause(clause) ==
  IF Kind(clause) \notin StatementKinds \ {"EmptyStatement"}
  THEN <<Do("visit", clause)>>
  ELSE IF ~HasLeadingNewline(Tok(First(clause))) \/ pr.style.IndentCaseItem
  THEN VisitBody(clause)
  ELSE <<Do("primary", 0), Do("visit", clause)>>

VisitCaseItem ==
  /\ Visiting("CaseItem")
  /\ Continue(Primary(pr),
       CaseItemHead(Arg) \o SpaceBeforeClause(Arg) \o VisitClause(Kids(Arg)[1]))

\* The block of a generate gets a line of its own.
VisitDefaultCaseItem ==
  /\ Visiting("DefaultCaseItem")
  /\ LET clause == Kids(Arg)[1]
     IN  Continue(Primary(pr), CaseItemHead(Arg)
           \o (IF Kind(clause) = "GenerateBlock" THEN <<Do("freshLine", 0)>>
               ELSE SpaceBeforeClause(Arg))
           \o VisitClause(clause))

\* Its statement is never set apart.
VisitRandCaseItem ==
  /\ Visiting("RandCaseItem")
  /\ Continue(pr,
       CaseItemHead(Arg) \o SpaceBeforeClause(Arg) \o <<Do("visit", Kids(Arg)[1])>>)

-----------------------------------------------------------------------------
(* Assertions. *)

\* The statement that is executed if the assertion holds; one with an else
\* clause may have none.
PassActions(n) ==
  LET kids == IF Tail1(n) = <<>> THEN Kids(n) ELSE Pop(Kids(n))
  IN  [k \in DOMAIN kids |-> Do("visit", kids[k])]

ElseAction(n) ==
  IF Tail1(n) = <<>> THEN <<>>
  ELSE <<Do("primary", 0), Do("emitToken", Tail1(n)[1]),
         Do("visit", Kids(n)[Len(Kids(n))])>>

AssertionCalls(n, break) ==
  LabelCalls(n)
    \o When(Label(n) # <<>> /\ pr.style.BreakAfterAssertionLabel /\ break,
            Do("freshLine", 0))
    \o EmitAll(Head1(n)) \o PassActions(n) \o ElseAction(n)

\* The label of an immediate assertion without else stays on its line.
VisitAssertion ==
  \/ /\ Visiting("ConcurrentAssertionStatement")
     /\ Continue(pr, AssertionCalls(Arg, TRUE))
  \/ /\ Visiting("ImmediateAssertionStatement")
     /\ Continue(pr, AssertionCalls(Arg, Tail1(Arg) # <<>>))

-----------------------------------------------------------------------------
(* Timing controls. *)

\* An event control ends in its parenthesis; no other timing control does here.
TimingCalls(stmt) ==
  LabelCalls(stmt) \o EmitAll(Head1(stmt))
    \o When(Tok(Head1(stmt)[Len(Head1(stmt))]).kind = "CloseParenthesis",
            SpaceBefore(pr.style.SpaceAfterEventControl, First(Kids(stmt)[1])))

VisitTimingControl ==
  /\ Visiting("TimingControlStatement")
  /\ LET body == Kids(Arg)[1]
     IN  Continue(pr, TimingCalls(Arg)
           \o IF Kind(body) = "EmptyStatement" THEN <<Do("visit", body)>>
              ELSE VisitBody(body))

-----------------------------------------------------------------------------
(* Random sequences. *)

VisitRandSequence ==
  /\ Visiting("RandSequenceStatement")
  /\ Continue(pr, LabelCalls(Arg) \o EmitAll(Head1(Arg)) \o OpenMembers(Arg))

\* name : rules ; and expressions : item ;
VisitProduction ==
  \E kind \in {"Production", "RsCaseItem"} :
    /\ Visiting(kind)
    /\ LET colon == Head1(Arg)[Len(Head1(Arg))]
       IN  Continue(pr, EmitAll(Pop(Head1(Arg)))
             \o <<Do("ensureSingleSpace", 0), Do("emitToken", colon),
                  Do("ensureSpace", 0), DoNth("plainPort", Arg, 1)>>)

VisitRsCase ==
  /\ Visiting("RsCase")
  /\ Continue(pr, EmitAll(Head1(Arg)) \o <<Do("indent", 0), DoNth("rsItem", Arg, 1)>>)

\* Unlike in other loops the item may stand at the start of a line already.
BreakItem(tok) ==
  IF pr.formatEnabled /\ ~HasLeadingNewline(Tok(tok)) THEN ForceNewline(pr) ELSE pr

NextRsItem ==
  /\ Calling("rsItem")
  /\ LET i == Head(work).i
     IN  IF i \in DOMAIN Kids(Arg)
         THEN Continue(Primary(BreakItem(First(Kids(Arg)[i]))),
                       <<Do("visit", Kids(Arg)[i]), DoNth("rsItem", Arg, i + 1)>>)
         ELSE Continue(Primary(BreakItem(CloseToken(Arg))),
                       <<Do("emitEndTokenTrivia", CloseToken(Arg)),
                         Do("closeScope", Arg)>>)
=============================================================================
