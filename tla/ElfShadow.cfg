\* Also fails with Images <- CaptureImages, checking DynamicNamesBind, and with
\* Images <- DottedImages, checking ReferencesBind.
SPECIFICATION Spec
CONSTANTS
  Stems     <- MCStems
  Anonymous = "<anon>"
  Images    <- ShadowImages
  Edits     <- MCEdits
  MaxRuns   = 1
INVARIANTS
  DynamicNamesBind
