---------------------------- MODULE MCFunctionPorts ----------------------------
(***************************************************************************)
(* Functions with ports, for checking FunctionPorts.                       *)
(***************************************************************************)
EXTENDS FunctionPorts, MCFormatPrinter

PortGaps == {<<NL>>, <<SP, LC, NL>>, <<NL, BC, SP>>}

VariedPorts ==
  TwoOdd({"function"}, FlatGap, PortGaps)
  \cup TwoOdd({"function"}, LinesGap, PortGaps)
  \cup SwitchOff({"function"}, {<<NL, OFF, NL>>}, {<<SP, BON, SP>>})
  \cup OneOdd({"ports"}, FlatGap, Tokens, PortGaps)

\* A comment stands in front of a port of a function.
CommentsPort(d) ==
  \E n \in DOMAIN d.nodes :
    /\ d.nodes[n].kind = "FunctionPortList"
    /\ \E k \in DOMAIN d.nodes[n].kids :
         HasLeadingComment(d.toks[d.nodes[d.nodes[n].kids[k]].first])

PlainPortDocuments == {d \in VariedPorts : ~CommentsPort(d)}

CommentedPortDocuments == {d \in VariedPorts : CommentsPort(d)}
=============================================================================
