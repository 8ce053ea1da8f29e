\* Also fails with Models <- SecondData and Groupings <- None, checking PointersLand.
SPECIFICATION Spec
CONSTANTS
  Texts     <- MCTexts
  Width     = 2
  Models    <- BaseOnly
  Groupings <- Halves
  MaxRuns   = 1
INVARIANTS
  PointersLand
