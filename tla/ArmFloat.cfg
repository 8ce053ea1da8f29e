\* Also fails with Functions <- PastBranch, checking LiteralsRelinked.
\* Also fails with Functions <- LooksLikeLoad, checking BranchesArrive.
SPECIFICATION Spec
CONSTANTS
  Functions <- SingleFloat
  Rounds    = 3
  FieldBits = 4
  CodeBase  <- MCCodeBase
  DataBase  <- MCDataBase
  Got       <- MCGot
  Slots     <- MCSlots
  NewSlot   <- MCNewSlot
  Move      <- MCMove
INVARIANTS
  BranchesArrive
