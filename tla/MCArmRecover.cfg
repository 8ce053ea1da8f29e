SPECIFICATION Spec
CONSTANTS
  Functions <- MCFunctions
  Rounds    = 3
  FieldBits = 4
  CodeBase  <- MCCodeBase
  DataBase  <- MCDataBase
  Got       <- MCGot
  Slots     <- MCSlots
  NewSlot   <- MCNewSlot
  Move      <- MCMove
INVARIANTS
  LiteralsRelinked
  StraightUsesRelocated
  BranchesArrive
