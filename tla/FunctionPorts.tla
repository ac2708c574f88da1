----------------------------- MODULE FunctionPorts -----------------------------
(***************************************************************************)
(* The ports of functions and tasks with BinPackParameters: the list is    *)
(* printed once as it stands in the source; if its last line does not fit  *)
(* within the column limit, the output is truncated to where the list      *)
(* began and the ports are printed again, as many to a line as fit.        *)
(* Nothing but the output is taken back.                                   *)
(***************************************************************************)
EXTENDS PrinterProperties

VARIABLE savedOutput   \* how much output there was when the trial began

portsVars == <<vars, savedOutput>>

PortsInit == Init /\ savedOutput = 0

VisitTrial ==
  /\ Visiting("FunctionPortList")
  /\ pr.formatEnabled /\ Kids(Arg) # <<>> /\ pr.style.BinPackParameters
  /\ Continue(pr, EmitAll(Head1(Arg)) \o <<Do("trialPorts", Arg)>>)
  /\ UNCHANGED savedOutput

StartTrial ==
  /\ Calling("trialPorts")
  /\ savedOutput' = Len(pr.output)
  /\ Continue(pr, <<DoNth("trialPort", Arg, 1)>>)

\* The ports are indented like those of any list, but no level deeper.
NextTrialPort ==
  /\ Calling("trialPort")
  /\ LET i == Head(work).i
     IN  IF i \in DOMAIN Kids(Arg)
         THEN Continue(pr, <<Do("portItem", 0), Do("visit", Kids(Arg)[i]),
                             Do("portItemDone", 0)>>
                           \o Comma(Arg, i) \o <<DoNth("trialPort", Arg, i + 1)>>)
         ELSE Continue(pr, <<Do("endTrial", Arg)>>)
  /\ UNCHANGED savedOutput

\* Mutation: the line is not broken after the truncation.
TruncateUnbroken ==
  [pr EXCEPT !.output = SubSeq(@, 1, savedOutput),
             !.atLineStart = (savedOutput = pr.lineStart)]

\* Mutation: the trial stays in the output.
TruncateNothing == ForceNewline(pr)

\* lineStart may lie in what is cut off; the line break moves it back.
Truncate ==
  ForceNewline([pr EXCEPT !.output = SubSeq(@, 1, savedOutput),
                          !.atLineStart = (savedOutput = pr.lineStart)])

EndTrial ==
  /\ Calling("endTrial")
  /\ \E fits \in Fits :
       IF fits THEN Continue(pr, <<Do("emitToken", CloseToken(Arg))>>)
       ELSE Continue(Truncate, <<DoNth("packedPort", Arg, 1)>>)
  /\ UNCHANGED savedOutput

\* Mutation: a port that moves to the next line does not end the one before.
BreakPackedSilently(wrap) ==
  IF wrap THEN [pr EXCEPT !.atLineStart = TRUE] ELSE pr

BreakPacked(wrap) == IF wrap THEN ForceNewline(pr) ELSE pr

\* emitBinPackedWrapped.  All of the trivia in front of a port are skipped.
NextPackedPort ==
  /\ Calling("packedPort")
  /\ LET i == Head(work).i
     IN  IF i \in DOMAIN Kids(Arg)
         THEN \E wrap \in {w \in BOOLEAN : w => Len(pr.output) > pr.lineStart} :
                Continue([BreakPacked(wrap) EXCEPT
                            !.triviaSkip = Len(Tok(First(Kids(Arg)[i])).trivia)],
                         <<Do("visit", Kids(Arg)[i])>> \o Comma(Arg, i)
                         \o <<DoNth("packedPort", Arg, i + 1)>>)
         ELSE Continue(pr, <<Do("emitToken", CloseToken(Arg))>>)
  /\ UNCHANGED savedOutput

PortsNext ==
  \/ VisitTrial \/ StartTrial \/ NextTrialPort \/ EndTrial \/ NextPackedPort
  \/ Next /\ UNCHANGED savedOutput

PortsSpec == PortsInit /\ [][PortsNext]_portsVars /\ WF_portsVars(PortsNext)

-----------------------------------------------------------------------------

\* Between the opening parenthesis of a list on trial and the decision whether
\* it fits.
OnTrial == \E k \in DOMAIN work : work[k].op \in {"trialPort", "endTrial"}

\* The output that is not taken back any more.
Committed == IF OnTrial THEN SubSeq(pr.output, 1, savedOutput) ELSE pr.output

\* The content of a function port list is in the output once, whether the list
\* is printed once or twice: what the trial wrote is either kept or taken back
\* as a whole.
PortsCopy == INSTANCE ContentCopy WITH
               Sources <- DocumentContents,
               source  <- Contents(doc),
               copied  <- Origins(Committed)

PortContentCopied == PortsCopy!Spec

=============================================================================
