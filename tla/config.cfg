SPECIFICATION Spec
CONSTANTS
  Edits <- MCEdits
  MaxEdits = 2
INVARIANTS
  SetOptionsWin
PROPERTIES
  EditsAreLocal
  DumpReloads
