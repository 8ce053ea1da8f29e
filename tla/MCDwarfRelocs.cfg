SPECIFICATION Spec
CONSTANTS
  Images  <- MCImages
  Layouts <- MCLayouts
  Shift   = 5
INVARIANTS
  ExtentsFollow
  UnwindFinds
