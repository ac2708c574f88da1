SPECIFICATION PortsSpec
CONSTANTS
  MaxUnsigned = 1000
  Documents <- PlainPortDocuments
  Styles <- DefaultStyles
INVARIANTS
  LineStartBeginsLine
  AtLineStartMeansNoText
PROPERTIES
  PortContentCopied
