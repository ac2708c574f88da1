SPECIFICATION Spec
CONSTANTS
  Trees <- MCTrees
  Styles <- MCStyles
  MaxRounds = 6
INVARIANTS
  TypeOK
  NoNodeReplacedTwice
  EndsAsWanted
  RoundsBoundedByNesting
PROPERTIES
  Converges
