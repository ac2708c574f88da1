--------------------------- MODULE FormatPortList ---------------------------
(***************************************************************************)
(* The handlers of lists of ports, of parameters and of connections, and of *)
(* instantiations (source/FormatPortList.cpp, source/FormatMember.cpp).    *)
(***************************************************************************)
EXTENDS FormatMember

Comma(n, i) ==
  IF i + 1 \in DOMAIN Tail1(n) THEN <<Do("emitToken", Tail1(n)[i + 1])>> ELSE <<>>

VisitHeader ==
  /\ Visiting("Header")
  /\ Continue(pr, EmitAll(Head1(Arg))
                    \o [k \in DOMAIN Kids(Arg) |-> Do("visit", Kids(Arg)[k])]
                    \o EmitAll(Tail1(Arg)))

VisitConnection ==
  /\ Visiting("NamedConnection")
  /\ Continue(pr, <<Do("connectionLine", 0)>> \o EmitAll(Head1(Arg)))

VisitWildcard ==
  /\ Visiting("WildcardPortList")
  /\ Continue(pr, <<SpaceBefore(pr.style.SpaceBeforePortList, First(Arg))>>
                    \o EmitAll(Head1(Arg)))

\* An instance of a primitive may have no name.
CallInstanceSpace ==
  /\ Calling("instanceSpace")
  /\ LET last == pr.output[Len(pr.output)]
         close == /\ pr.formatEnabled /\ ~pr.atLineStart /\ pr.output # <<>>
                  /\ last.kind = "symbol" /\ Tok(last.at[1]).kind = "CloseParenthesis"
     IN  Return(IF close THEN AppendSpaces(pr, 1) ELSE pr)

CallStripSpaces ==
  /\ Calling("stripSpaces")
  /\ Return(IF pr.formatEnabled THEN StripTrailingSpaces(pr) ELSE pr)

\* The tokens up to the opening parenthesis.
OpenPortList(n) ==
  LET head == Head1(n)
      rest == IF Len(head) = 2 /\ Kind(n) = "HierarchicalInstance"
              THEN Tail(head) ELSE head
  IN  CASE Kind(n) = "ModportItem" ->
             <<Do("emitToken", head[1]), Do("stripSpaces", 0), Do("emitToken", head[2])>>
        [] Kind(n) \in {"ParameterPortList", "ParameterValueAssignment"} ->
             <<SpaceBefore(pr.style.SpaceBeforeParameterList, head[1])>> \o EmitAll(head)
        [] Kind(n) = "FunctionPortList" -> EmitAll(head)
        [] OTHER ->
             (IF rest = head THEN <<>>
              ELSE <<Do("instanceSpace", head[1]), Do("emitToken", head[1])>>)
             \o <<SpaceBefore(pr.style.SpaceBeforePortList, rest[1])>> \o EmitAll(rest)

VisitPortList ==
  \/ \E kind \in PortListKinds \ {"FunctionPortList"} :
       /\ Visiting(kind)
       /\ Continue(pr, OpenPortList(Arg) \o <<Do("indent", 0), Do("portList", Arg)>>)
  \/ /\ Calling("visitExpanded")
     /\ Continue(pr, OpenPortList(Arg) \o <<Do("indent", 0), DoNth("wrappedPort", Arg, 1)>>)

\* Whether to wrap is decided once, when the parenthesis is open.
StartPorts ==
  /\ Calling("portList")
  /\ LET wrap == /\ Kind(Arg) \in {"NonAnsiPortList", "HierarchicalInstance"}
                 /\ ~pr.style.BinPackPortConnections
                 /\ pr.formatEnabled
                 /\ Len(Kids(Arg)) > 1
     IN  Continue(pr, <<DoNth(IF wrap THEN "wrappedPort" ELSE "port", Arg, 1)>>)

CallPortItem ==
  \/ /\ Calling("portItem")
     /\ Return([Primary(pr) EXCEPT !.portItemNextIndent = TRUE])
  \/ /\ Calling("portItemDone")
     /\ Return([pr EXCEPT !.portItemNextIndent = FALSE])

\* The trivia of the closing parenthesis are emitted at the depth of the items
\* or, for instances and lists of names, at that of the line around them.
ClosePortList(n, wrapped) ==
  LET close  == CloseToken(n)
      break  == When(wrapped, Do("breakBeforeClose", close))
      trivia == <<Do("portItem", 0), Do("emitEndTokenTrivia", close),
                  Do("portItemDone", 0)>>
      end    == <<Do("primary", 0), Do("boundaryLine", 0), Do("emitToken", close)>>
      dedent == <<Do("dedent", 0)>>
  IN  IF Kind(n) = "FunctionPortList"
      THEN dedent \o break \o <<Do("primary", 0), Do("emitToken", close)>>
      ELSE IF Kind(n) \in {"NonAnsiPortList", "HierarchicalInstance"}
      THEN dedent \o break \o trivia \o end
      ELSE trivia \o dedent \o break \o end

\* visitSeparatedList and visitWrappedSeparatedList
NextPort ==
  \E op \in {"port", "wrappedPort"} :
    /\ Calling(op)
    /\ LET i == Head(work).i
           break == /\ op = "wrappedPort"
                    /\ ~pr.atLineStart
                    /\ ~HasLeadingNewline(Tok(First(Kids(Arg)[i])))
       IN  IF i \in DOMAIN Kids(Arg)
           THEN Continue(IF break THEN ForceNewline(pr) ELSE pr,
                         <<Do("portItem", 0), Do("visit", Kids(Arg)[i]),
                           Do("portItemDone", 0)>>
                         \o Comma(Arg, i) \o <<DoNth(op, Arg, i + 1)>>)
           ELSE Continue(pr, ClosePortList(Arg, op = "wrappedPort"))

-----------------------------------------------------------------------------
(* Instantiations. *)

VisitInstantiation ==
  /\ Visiting("HierarchyInstantiation")
  /\ Continue(pr, EmitAll(Head1(Arg)) \o <<Do("instances", Arg)>>)

\* Named parameters get lines of their own if the connections do.
ExpandsParameters(n) ==
  /\ pr.formatEnabled
  /\ \E k \in DOMAIN Kids(Kids(n)[1]) : Kind(Kids(Kids(n)[1])[k]) = "NamedConnection"
  /\ \E k \in 2..Len(Kids(n)) : Len(Kids(Kids(n)[k])) > 1

StartInstances ==
  /\ Calling("instances")
  /\ LET params == Kids(Arg) # <<>> /\ Kind(Kids(Arg)[1]) = "ParameterValueAssignment"
     IN  Continue(pr,
           (IF params
            THEN <<Do(IF ExpandsParameters(Arg) THEN "visitExpanded" ELSE "visit",
                      Kids(Arg)[1])>>
            ELSE <<>>)
           \o <<DoNth("instance", Arg, IF params THEN 2 ELSE 1)>>)

\* The commas between the instances count from the first one.
NextInstance ==
  /\ Calling("instance")
  /\ LET i == Head(work).i
         params == Kind(Kids(Arg)[1]) = "ParameterValueAssignment"
     IN  IF i \in DOMAIN Kids(Arg)
         THEN Continue(pr, <<Do("visit", Kids(Arg)[i])>>
                             \o Comma(Arg, IF params THEN i - 1 ELSE i)
                             \o <<DoNth("instance", Arg, i + 1)>>)
         ELSE Continue(pr, <<Do("emitToken", CloseToken(Arg))>>)

-----------------------------------------------------------------------------
(* Ports of functions and tasks. *)

\* Without bin packing each port gets a line; an empty list, or one for which
\* formatting is off, is walked token by token.  The third way is a trial and
\* is modelled in FunctionPorts.
VisitFunctionPorts ==
  /\ Visiting("FunctionPortList")
  /\ ~pr.formatEnabled \/ Kids(Arg) = <<>> \/ ~pr.style.BinPackParameters
  /\ IF pr.formatEnabled /\ Kids(Arg) # <<>>
     THEN Continue(pr, EmitAll(Head1(Arg))
                         \o <<Do("indent", 0), DoNth("wrappedPort", Arg, 1)>>)
     ELSE Continue(pr, EmitAll(Head1(Arg)) \o <<DoNth("plainPort", Arg, 1)>>)

NextPlainPort ==
  /\ Calling("plainPort")
  /\ LET i == Head(work).i
     IN  IF i \in DOMAIN Kids(Arg)
         THEN Continue(pr, <<Do("visit", Kids(Arg)[i])>> \o Comma(Arg, i)
                             \o <<DoNth("plainPort", Arg, i + 1)>>)
         ELSE Continue(pr, <<Do("emitToken", CloseToken(Arg))>>)
=============================================================================
