\* Also fails with Images <- TwinImages and Edits <- MCEdits, checking RoundTrip.
SPECIFICATION Spec
CONSTANTS
  Stems     <- MCStems
  Anonymous = "<anon>"
  Images    <- DistinctImages
  Edits     <- BareRenames
  MaxRuns   = 2
INVARIANTS
  SummaryIsTrue
