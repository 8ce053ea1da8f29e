SPECIFICATION Spec
CONSTANTS
  Insns     <- Common
  Junk      <- MCJunk
  Length    = 5
  Tails     <- MCTails
  Own       <- MCOwn
  CodeSize  = 36
  Base      <- MCBase
  Symbols   <- MCSymbols
  Code      = {2000}
  Secrel    = {8}
  Placed    <- MCPlaced
  PlacedTls <- MCPlacedTls
  Volatile  = {0, 1, 2}
  Admitted  = {}
INVARIANTS
  FieldsReal
  FieldsReach
