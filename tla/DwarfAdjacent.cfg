\* ExtentsFollow fails too with Images <- Padded, Ends, Selected, Distant, Calls,
\* UnknownForm; UnwindFinds with LongRecord, Hidden, Stray; IndexFinds with MCImages.
SPECIFICATION Spec
CONSTANTS
  Images  <- Adjacent
  Layouts <- MCLayouts
  Shift   = 5
INVARIANTS
  ExtentsFollow
