\* Also fails checking NothingLost.
\* Also fails with Images <- AliasImages, checking NamesDefined.
SPECIFICATION Spec
CONSTANTS
  Width = 2
  MaxRuns = 2
  Text <- MCText
  Data <- MCData
  NameOrder <- MCNameOrder
  Stem <- MCStem
  Images <- BareImages
  Edits <- MCEdits
INVARIANT
  NamesDefined
