SPECIFICATION Spec
CONSTANTS
  Insns     <- SafeInsns
  Length    = 6
  PageSize  = 64
  Start     = 320
  Own       <- MCOwn
  Entries   <- MCEntries
  Places    <- MCPlaces
  Named     <- MCNamed
  Slots     <- MCSlots
  Shift     = 48
INVARIANTS
  PairsAreReal
  TrackedPairsFound
  RelinkedAddresses
  RelinkedBranches
