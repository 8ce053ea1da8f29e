SPECIFICATION FairSpec
CONSTANTS
  Stems     <- MCStems
  Anonymous = "<anon>"
  Images    <- DistinctImages
  Edits     <- MCEdits
  MaxRuns   = 2
INVARIANTS
  ReferencesBind
  RoundTrip
  SummaryIsTrue
PROPERTIES
  RunsEnd
