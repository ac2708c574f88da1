---------------------------- MODULE MCConfiguration ----------------------------
(***************************************************************************)
(* A user who edits one option of every sort, and gets some of them wrong. *)
(***************************************************************************)
EXTENDS Configuration

Word(word) == [word |-> word]
Number(number) == [unsigned |-> number]
Truth(truth) == [bool |-> truth]

MCEdits ==
  {<<Single("IndentWidth"), Number(3)>>,
   <<Single("ContinuationIndentWidth"), Number(5)>>,
   <<Single("ContinuationIndentWidth"), Word("wide")>>,
   <<Single("ParameterPortListIndentWidth"), Number(6)>>,
   <<Single("ColumnLimit"), Truth(TRUE)>>,
   <<Single("SpacesInParens"), Truth(TRUE)>>,
   <<Single("OneLineFormatOffRegex"), Truth(TRUE)>>,
   <<Single("LineEnding"), Word("CRLF")>>,
   <<Single("BreakAfterAlways"), Word("allways")>>,
   <<Single("BreakAfterAlways"), Truth(FALSE)>>,
   <<Single("SpaceAroundOperator"), Truth(FALSE)>>,
   <<Single("BasedOnStyle"), Word("default")>>,
   <<Single("BasedOnStyle"), Word("LLVM")>>,
   <<<<"AlignConsecutiveDeclarations", "MaxPadding">>, Number(0)>>,
   <<<<"AlignConsecutiveDeclarations", "InferFromSource">>, Truth(FALSE)>>,
   <<Single("AlignConsecutiveDeclarations"), Truth(FALSE)>>,
   <<<<"InsertBeginEnd", "Enabled">>, Truth(TRUE)>>,
   <<<<"SpaceAfterParens", "EventControls">>, Truth(FALSE)>>}
=============================================================================
