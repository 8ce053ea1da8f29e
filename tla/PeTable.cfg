\* Also fails with Images <- BranchOver, checking BranchesStay.
SPECIFICATION Spec
CONSTANTS
  X86 = FALSE
  Publics <- MCPublics
  MaxPublics = 3
  Modules <- MCModules
  Udt <- MCUdt
  Section <- MCSection
  ImageBase = 0
  Imports <- MCImports
  Literals <- MCLiterals
  Width = 2
  Images <- TableEntry
INVARIANTS
  ReferencesReach
