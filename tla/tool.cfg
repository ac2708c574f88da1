SPECIFICATION Spec
CONSTANTS
  Configs <- MCConfigs
  Ignores <- MCIgnores
  Invocations <- MCInvocations
  Lists <- MCLists
  Disks <- MCDisks
  Inputs <- MCInputs
  ReadOnly <- MCReadOnly
  Texts <- MCTexts
  Empty = "empty"
  Partial = "partial"
  Reformat <- MCReformat
  CurrentPath <- WorkingDirectory
  Faults <- AnyFault
INVARIANTS
  TypeOK
  DiskIsFormattedSoFar
  PrintedInOrder
  ExitStatusTellsFailures
  ListsComeFirst
  NearestConfigUsed
