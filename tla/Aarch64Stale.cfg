SPECIFICATION Spec
CONSTANTS
  Insns     <- StaleInsns
  Length    = 4
  PageSize  = 64
  Start     = 320
  Own       <- MCOwn
  Entries   <- MCEntries
  Places    <- MCPlaces
  Named     <- MCNamed
  Slots     <- MCSlots
  Shift     = 48
INVARIANTS
  PairsAreReal
