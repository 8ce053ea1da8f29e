SPECIFICATION Spec
CONSTANTS
  Stems     <- MCStems
  Anonymous = "<anon>"
  Images    <- PassImages
  Edits     <- MCEdits
  MaxRuns   = 1
INVARIANTS
  ReferencesBind
  DwarfReferencesBind
  DynamicNamesBind
  EmittedOnce
  AutoKeepsCoverage
