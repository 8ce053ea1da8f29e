\* Each of the other shapes fails too: Admitted = {"reread"}, {"index"}, {"overwrite"};
\* and two tables one behind the other: Insns <- Common, Tails <- AdjacentTails,
\* Admitted = {}, checking FieldsReach.
SPECIFICATION Spec
CONSTANTS
  Insns     <- ShapeInsns
  Junk      <- MCJunk
  Length    = 5
  Tails     <- MCTails
  Own       <- MCOwn
  CodeSize  = 36
  Base      <- MCBase
  Symbols   <- MCSymbols
  Code      = {2000}
  Secrel    = {8}
  Placed    <- MCPlaced
  PlacedTls <- MCPlacedTls
  Volatile  = {0, 1, 2}
  Admitted  = {"reuse"}
INVARIANTS
  FieldsReal
  FieldsReach
