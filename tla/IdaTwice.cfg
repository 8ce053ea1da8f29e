\* Also fails with Groupings <- Apart, a jump table cut off from its function.
SPECIFICATION Spec
CONSTANTS
  Texts     <- MCTexts
  Width     = 2
  Models    <- BaseOnly
  Groupings <- Twice
  MaxRuns   = 1
INVARIANTS
  EmittedOnce
