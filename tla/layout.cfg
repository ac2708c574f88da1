SPECIFICATION Spec
CONSTANTS
  MaxUnsigned = 1000
  Documents <- LayoutDocuments
  Styles <- LayoutStyles
INVARIANTS
  TypeOK
  MetadataPerLine
  LineNumberIsOutputLine
  LineCommentEndsLine
  WordsStayApart
  LineBreaksKept
  BlankLinesBounded
  TokensIndented
  DepthBalanced
  OperatorsOnLineSpaced
