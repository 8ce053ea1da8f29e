SPECIFICATION Spec
CONSTANTS
  X86 = TRUE
  Publics <- MCPublics
  MaxPublics = 3
  Modules <- LabelModules
  Udt <- MCUdt
  Section <- MCSection
  ImageBase = 0
  Imports <- MCImports
  Literals <- MCLiterals
  Width = 2
  Images <- Constant
INVARIANTS
  ReferencesReach
