\* Also fails with Images <- PlainImages.
SPECIFICATION Spec
CONSTANTS
  Width = 2
  MaxRuns = 2
  Text <- MCText
  Data <- MCData
  NameOrder <- MCNameOrder
  Stem <- MCStem
  Images <- LastImages
  Edits <- MCEdits
INVARIANT
  RerunKeepsFunctions
