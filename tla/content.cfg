SPECIFICATION Spec
CONSTANTS
  MaxUnsigned = 1000
  Documents <- ContentDocuments
  Styles <- ContentStyles
PROPERTIES
  ContentCopied
  CopyFinished
