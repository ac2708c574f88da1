-------------------------- MODULE FormatDeclaration -------------------------
(***************************************************************************)
(* The handlers of declarations (source/FormatDeclaration.cpp), and those  *)
(* of coverpoints and distributions (source/FormatClass.cpp).              *)
(***************************************************************************)
EXTENDS FormatPortList

\* The tokens and children of a node in order.
Walk(n) ==
  EmitAll(Head1(n)) \o [k \in DOMAIN Kids(n) |-> Do("visit", Kids(n)[k])]
    \o EmitAll(Tail1(n))

\* The line that the declaration begins may be aligned with its neighbours.
Announced(n) == <<Do("declarationLine", 0)>> \o Walk(n)

VisitBind == Visiting("BindDirective") /\ Continue(pr, Announced(Arg))

VisitDpiExport == Visiting("DPIExport") /\ Continue(pr, Announced(Arg))

VisitDefaults ==
  \E kind \in {"DefaultClockingReference", "DefaultDisableDeclaration"} :
    Visiting(kind) /\ Continue(pr, Announced(Arg))

VisitNames ==
  \E kind \in {"ForwardTypedefDeclaration", "LetDeclaration", "NetAlias"} :
    Visiting(kind) /\ Continue(pr, Announced(Arg))

VisitParameters ==
  \E kind \in {"NetTypeDeclaration", "PackageExportAllDeclaration",
               "ParameterDeclarationStatement"} :
    Visiting(kind) /\ Continue(pr, Announced(Arg))

VisitItems ==
  \E kind \in ItemListKinds :
    /\ Visiting(kind)
    /\ Continue(pr, <<Do("declarationLine", 0)>> \o EmitAll(Head1(Arg))
                      \o <<DoNth("listedItem", Arg, 1)>>)

\* visitSeparatedList, without a scope around it: depth may be 0 here.
NextListedItem ==
  /\ Calling("listedItem")
  /\ LET i == Head(work).i
     IN  IF i \in DOMAIN Kids(Arg)
         THEN Continue(pr, <<Do("portItem", 0), Do("visit", Kids(Arg)[i]),
                             Do("portItemDone", 0)>>
                           \o Comma(Arg, i) \o <<DoNth("listedItem", Arg, i + 1)>>)
         ELSE Continue(pr, <<Do("emitToken", CloseToken(Arg))>>)

VisitContinuousAssign ==
  /\ Visiting("ContinuousAssign")
  /\ Continue(pr, <<Do("assignmentLine", 0)>> \o Walk(Arg))

VisitTypedef ==
  /\ Visiting("TypedefDeclaration")
  /\ Continue(Primary(pr), Walk(Arg))

\* Whatever has children and no handler of its own.
VisitExpression == Visiting("Expression") /\ Continue(pr, Walk(Arg))

-----------------------------------------------------------------------------
(* Declarators. *)

AnnouncedType(n) ==
  <<Do("declarationLine", 0)>> \o EmitAll(Head1(n))
    \o <<Do("visit", Kids(n)[1]), DoNth("declarator", n, 2)>>

VisitDataDeclaration ==
  Visiting("DataDeclaration") /\ Continue(pr, AnnouncedType(Arg))

VisitNetDeclaration ==
  \E kind \in {"NetDeclaration", "UserDefinedNetDeclaration"} :
    Visiting(kind) /\ Continue(pr, AnnouncedType(Arg))

VisitPortDeclaration ==
  \E kind \in {"PortDeclaration", "StructUnionMember"} :
    Visiting(kind) /\ Continue(pr, AnnouncedType(Arg))

\* visitDeclarators.  A break in front of a declarator is among its trivia and
\* not yet made when atLineStart is asked.
NextDeclarator ==
  /\ Calling("declarator")
  /\ LET i == Head(work).i
         p == IF i > 2 /\ pr.atLineStart
              THEN [pr EXCEPT !.currentKind = "Continuation"] ELSE pr
     IN  IF i \in DOMAIN Kids(Arg)
         THEN Continue(p, <<Do("visit", Kids(Arg)[i])>> \o Comma(Arg, i - 1)
                            \o <<DoNth("declarator", Arg, i + 1)>>)
         ELSE Continue(pr, <<Do("emitToken", CloseToken(Arg))>>)

-----------------------------------------------------------------------------
(* Lists of items in braces. *)

VisitStruct == Visiting("StructUnionType") /\ Continue(pr, Scope(Arg))

OpenList(n) == EmitAll(Head1(n)) \o <<Do("indent", 0), DoNth("listItem", n, 1)>>

VisitEnum == Visiting("EnumType") /\ Continue(pr, OpenList(Arg))

VisitDist == Visiting("DistConstraintList") /\ Continue(pr, OpenList(Arg))

\* The names of an import need not fit on a line: two ports or more get lines
\* of their own.
VisitDpiImport ==
  /\ Visiting("DPIImport")
  /\ Continue(pr, <<Do("declarationLine", 0)>> \o EmitAll(Head1(Arg))
       \o [k \in DOMAIN Kids(Arg) |-> Do("importPorts", Kids(Arg)[k])]
       \o EmitAll(Tail1(Arg)))

StartImportPorts ==
  /\ Calling("importPorts")
  /\ Continue(pr, IF pr.formatEnabled /\ Len(Kids(Arg)) >= 2
                  THEN OpenList(Arg) ELSE <<Do("visit", Arg)>>)

\* The ports of an import are broken even if formatting is off by then.
BreaksListItem(n, i) ==
  /\ pr.formatEnabled \/ Kind(n) = "FunctionPortList"
  /\ ~pr.atLineStart
  /\ ~HasLeadingNewline(Tok(First(Kids(n)[i])))

StartListItem(n, i) ==
  LET p == Primary(IF BreaksListItem(n, i) THEN ForceNewline(pr) ELSE pr)
  IN  IF Kind(n) = "DistConstraintList"
      THEN [p EXCEPT !.nextLineKind = "DistItem"] ELSE p

NextListItem ==
  /\ Calling("listItem")
  /\ LET i == Head(work).i
         close == CloseToken(Arg)
     IN  IF i \in DOMAIN Kids(Arg)
         THEN Continue(StartListItem(Arg, i),
                <<Do("visit", Kids(Arg)[i])>> \o Comma(Arg, i)
                  \o <<DoNth("listItem", Arg, i + 1)>>)
         ELSE Continue(pr, <<Do("dedent", 0), Do("breakBeforeClose", close)>>
                \o When(Kind(Arg) # "FunctionPortList", Do("emitEndTokenTrivia", close))
                \o <<Do("primary", 0), Do("emitToken", close)>>)

\* At least the spaces of the source in front of the weight of an item, and one
\* behind its operator.
CallWeightSpaces ==
  \/ /\ Calling("weightSpaces")
     /\ LET source == LeadingWhitespaceLength(Tok(Arg))
        IN  Return(IF ~pr.formatEnabled THEN pr
                   ELSE AppendSpaces(StripTrailingSpaces(pr),
                                     IF source > 1 THEN source ELSE 1))
  \/ /\ Calling("oneSpace")
     /\ Return(IF pr.formatEnabled THEN AppendSpaces(pr, 1) ELSE pr)

VisitDistWeight ==
  /\ Visiting("DistWeight")
  /\ Continue(pr, <<Do("weightSpaces", Head1(Arg)[1])>> \o EmitAll(Head1(Arg))
                    \o <<Do("oneSpace", 0)>> \o EmitAll(Tail1(Arg)))

-----------------------------------------------------------------------------
(* Coverpoints and crosses. *)

\* The opening brace is the last token in front of the members, if there are any.
CoverCalls(n) ==
  IF Kids(n) = <<>> THEN EmitAll(Head1(n)) \o EmitAll(Tail1(n))
  ELSE EmitAll(Pop(Head1(n))) \o <<Do("coverItems", n)>>

VisitCoverpoint == Visiting("Coverpoint") /\ Continue(pr, CoverCalls(Arg))

VisitCoverCross ==
  Visiting("CoverCross") /\ Continue(pr, LabelCalls(Arg) \o CoverCalls(Arg))

\* membersFitOnSingleLine asks the members only whether comments are in the way.
IsShortCover(n, fits) ==
  /\ pr.formatEnabled
  /\ pr.style.AllowShortCoverpoints
  /\ \A k \in DOMAIN Kids(n) :
       HasFlatWidth(doc.toks, First(Kids(n)[k]), doc.nodes[Kids(n)[k]].last, TRUE)
  /\ fits

StartCoverItems ==
  /\ Calling("coverItems")
  /\ \E fits \in Fits :
       Continue(pr, <<Do("emitToken", Head1(Arg)[Len(Head1(Arg))])>>
         \o IF IsShortCover(Arg, fits) THEN <<DoNth("inlineItem", Arg, 1)>>
            ELSE <<Do("indent", 0), DoNth("constraintItem", Arg, 1)>>)

\* emitMembersInline; the trivia of the closing brace are skipped as well.
NextInlineItem ==
  /\ Calling("inlineItem")
  /\ LET i == Head(work).i
     IN  IF i \in DOMAIN Kids(Arg)
         THEN Continue(pr,
                <<Do("skipTrivia", First(Kids(Arg)[i])), Do("primary", 0),
                  Do("visit", Kids(Arg)[i]), DoNth("inlineItem", Arg, i + 1)>>)
         ELSE Continue(pr, <<Do("skipTrivia", CloseToken(Arg)),
                             Do("emitToken", CloseToken(Arg))>>)
=============================================================================
