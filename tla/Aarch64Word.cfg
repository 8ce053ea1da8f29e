\* Also fails with Insns <- IntoInsns, checking RelinkedBranches.
SPECIFICATION Spec
CONSTANTS
  Insns     <- WordInsns
  Length    = 4
  PageSize  = 64
  Start     = 320
  Own       <- MCOwn
  Entries   <- MCEntries
  Places    <- MCPlaces
  Named     <- MCNamed
  Slots     <- MCSlots
  Shift     = 48
INVARIANTS
  RelinkedAddresses
