SPECIFICATION Spec
CONSTANTS
  Edits <- MCEdits
  MaxEdits = 1
PROPERTIES
  RedirectedDumpGenerates
