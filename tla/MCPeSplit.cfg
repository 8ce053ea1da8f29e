SPECIFICATION Spec
CONSTANTS
  X86 = TRUE
  Publics <- MCPublics
  MaxPublics = 3
  Modules <- MCModules
  Udt <- MCUdt
  Section <- MCSection
  ImageBase = 0
  Imports <- MCImports
  Literals <- MCLiterals
  Width = 2
  Images <- MCCleanImages
INVARIANTS
  LinkNamesKept
  InlinedAreDeclared
  NamesLink
  ReferencesReach
  LinkNamesDefined
