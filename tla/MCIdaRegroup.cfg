SPECIFICATION FairSpec
CONSTANTS
  Texts     <- MCTexts
  Width     = 2
  Models    <- BaseOnly
  Groupings <- Edited
  MaxRuns   = 2
INVARIANTS
  RejectedTouchesNothing
  SharedIsCurrent
PROPERTIES
  RunsEnd
