--------------------------- MODULE FormatPrinter ----------------------------
(***************************************************************************)
(* The printer as a whole: slang's visitor calls one handler per node, and *)
(* the handlers make further calls, until none is left.                    *)
(***************************************************************************)
EXTENDS FormatDeclaration

Visit ==
  \/ VisitLeaf \/ VisitBlock \/ VisitLoop \/ VisitForLoop \/ VisitForever
  \/ VisitDoWhile \/ VisitConditional \/ VisitCase \/ VisitRandCase
  \/ VisitCaseItem \/ VisitDefaultCaseItem \/ VisitRandCaseItem
  \/ VisitAssertion \/ VisitTimingControl
  \/ VisitRandSequence \/ VisitProduction \/ VisitRsCase
  \/ VisitProceduralBlock \/ VisitInitialBlock \/ VisitTimeUnits
  \/ VisitFunction \/ VisitSpecify \/ VisitClass \/ VisitChecker
  \/ VisitClocking \/ VisitConfig \/ VisitCovergroup \/ VisitProperty
  \/ VisitSequence \/ VisitGenerateBlock \/ VisitGenerateRegion
  \/ VisitCaseGenerate \/ VisitIfGenerate \/ VisitLoopGenerate
  \/ VisitCompilationUnit \/ VisitModule
  \/ VisitConstraint \/ VisitConstraintBlock
  \/ VisitHeader \/ VisitConnection \/ VisitWildcard \/ VisitPortList
  \/ VisitInstantiation \/ VisitFunctionPorts
  \/ VisitBind \/ VisitDpiExport \/ VisitDefaults \/ VisitNames
  \/ VisitParameters \/ VisitItems
  \/ VisitContinuousAssign \/ VisitTypedef \/ VisitExpression
  \/ VisitDataDeclaration \/ VisitNetDeclaration \/ VisitPortDeclaration
  \/ VisitStruct \/ VisitEnum \/ VisitDist \/ VisitDistWeight \/ VisitDpiImport
  \/ VisitCoverpoint \/ VisitCoverCross

Emit ==
  \/ EmitToken \/ EmitOperator \/ CallEmitTrivia \/ CallFinishToken
  \/ EmitEndTokenTrivia \/ InsertBlankLineBefore \/ FinishBlankLine

Lay ==
  \/ CallPrimary \/ CallIndent \/ CallDedent \/ CallForceNewline
  \/ CallLineKind \/ CallNormalizeSpaceBefore \/ CallEnsureSpace \/ CallFreshLine
  \/ ForceStatementBreak \/ BreakConditionalBody
  \/ SkipTrivia \/ CallBreakBeforeClose
  \/ CallInstanceSpace \/ CallStripSpaces \/ CallPortItem \/ CallWeightSpaces

Loop ==
  \/ NextBlockItem \/ NextMember \/ NextModuleMember \/ NextConstraintItem
  \/ NextRsItem
  \/ StartPorts \/ NextPort \/ NextPlainPort \/ StartInstances \/ NextInstance
  \/ NextListedItem \/ NextDeclarator \/ StartImportPorts \/ NextListItem
  \/ StartCoverItems \/ NextInlineItem
  \/ CloseScope

\* print has returned.
Done == work = <<>> /\ UNCHANGED vars

Next == Visit \/ Emit \/ Lay \/ Loop \/ Done

\* The printer runs on one thread and never waits.
Spec == Init /\ [][Next]_vars /\ WF_vars(Next)
=============================================================================
