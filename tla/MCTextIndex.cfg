SPECIFICATION Spec
CONSTANTS
  TextBase <- MCTextBase
  TextEnd  <- MCTextEnd
  Values   <- MCValues
  Sizes    <- MCSizes
  Ranks    <- MCRanks
  NopSites <- MCNopSites
INVARIANTS
  RegionsApart
  NothingLost
  EntryPointsReachable
PROPERTIES
  ImplementsCover
