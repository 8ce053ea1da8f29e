SPECIFICATION Spec
CONSTANTS
  Width = 2
  MaxRuns = 2
  Text <- MCText
  Data <- MCData
  NameOrder <- MCNameOrder
  Stem <- MCStem
  Images <- MCImages
  Edits <- MCEdits
INVARIANTS
  UnitsOwnFunctions
  EveryFunctionOnce
  ReferencesReach
