SPECIFICATION Spec
CONSTANTS
  Ops <- MCOps
  MaxJobs = 3
INVARIANTS
  TypeOK
  NoJobLost
  ServedInOrder
  StopFlagsEveryJob
  AtMostOneLateRequest
PROPERTIES
  ImplementsJobLifecycle
  EveryJobConcludes
  ShutdownReturns
