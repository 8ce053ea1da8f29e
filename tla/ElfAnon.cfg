\* Also fails with Images <- StaticImages, checking DataReachesCode, and with
\* Images <- DeadImages, checking AutoKeepsCoverage.
SPECIFICATION Spec
CONSTANTS
  Stems     <- MCStems
  Anonymous = "<anon>"
  Images    <- AnonImages
  Edits     <- MCEdits
  MaxRuns   = 1
INVARIANTS
  DwarfReferencesBind
