SPECIFICATION Spec
CONSTANTS
  MaxContent = 3
  MaxAsked = 1
INVARIANT
  PutOffOnlyIfUnderWay
