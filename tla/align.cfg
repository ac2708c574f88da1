SPECIFICATION Spec
CONSTANTS
  Texts <- MCTexts
  Styles <- MCStyles
INVARIANTS
  TypeOK
  LinesKept
  NoAlignmentAcross
  ColumnsMeet
  PaddingLimited
  OffLinesUntouched
CHECK_DEADLOCK FALSE
