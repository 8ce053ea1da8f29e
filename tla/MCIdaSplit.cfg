SPECIFICATION Spec
CONSTANTS
  Texts     <- MCTexts
  Width     = 2
  Models    <- PassModels
  Groupings <- Sensible
  MaxRuns   = 1
INVARIANTS
  EmittedOnce
  FunctionsWhole
  PointersLand
  BranchesLand
  SwitchesLand
