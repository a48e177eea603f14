CONSTANTS
  Profiles = {p1, p2}
  NoProfile = NoProfile
  DefaultBucket = {p1}
  Handles <- MCHandles
  Bucket = "bkt"
  Content <- MCContent
  PageSize = 1
  LastPage = 1
  MaxActs = 4
SPECIFICATION Spec
CHECK_DEADLOCK FALSE
INVARIANTS TypeOK LoadedNodeShowsItsContent SessionsDoNotMix
PROPERTIES WaitingEnds
