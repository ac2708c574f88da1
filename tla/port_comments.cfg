SPECIFICATION PortsSpec
CONSTANTS
  MaxUnsigned = 1000
  Documents <- CommentedPortDocuments
  Styles <- DefaultStyles
PROPERTIES
  PortContentCopied
