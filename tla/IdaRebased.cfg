SPECIFICATION Spec
CONSTANTS
  Texts     <- MCTexts
  Width     = 2
  Models    <- Rebased
  Groupings <- None
  MaxRuns   = 1
INVARIANTS
  EmittedOnce
