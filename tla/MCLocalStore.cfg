CONSTANTS
  Keys = {k1}
  Chunks = 2
  MaxRetries = 2
  MaxVersion = 2
  Profiles = {p1, p2}
  MaxStarts = 2
  MaxOpens = 2
  MaxEdits = 2
SPECIFICATION Spec
SYMMETRY MCSymmetry
CHECK_DEADLOCK FALSE
INVARIANTS TypeOK DownloadsAreSound StoresSurvive
