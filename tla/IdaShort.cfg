\* Also fails with Models <- Padded, checking LayoutKept.
SPECIFICATION Spec
CONSTANTS
  Texts     <- MCTexts
  Width     = 2
  Models    <- ShortJump
  Groupings <- None
  MaxRuns   = 1
INVARIANTS
  BranchesLand
