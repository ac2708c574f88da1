SPECIFICATION Spec
CONSTANTS
  MaxUnsigned = 1000
  Documents <- OffDocuments
  Styles <- QuietStyles
INVARIANTS
  OffRegionVerbatim
