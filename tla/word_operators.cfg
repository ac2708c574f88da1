SPECIFICATION Spec
CONSTANTS
  MaxUnsigned = 1000
  Documents <- LayoutDocuments
  Styles <- UnspacedStyles
INVARIANTS
  WordsStayApart
