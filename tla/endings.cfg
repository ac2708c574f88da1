SPECIFICATION Spec
CONSTANTS
  Sources <- MCSources
  Styles <- MCStyles
  Formats <- MCFormats
INVARIANTS
  EndingsUniform
  EndingStable
  ContentKept
PROPERTY
  Terminates
