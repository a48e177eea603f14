SPECIFICATION PluginSpec
CONSTANTS
  Ops <- MCOps
  MaxJobs = 2
  MaxWaiting = 1
  MaxLost = 1
INVARIANTS
  PluginTypeOK
  CompletionFindsItsAction
PROPERTIES
  NoRunningAfterCompletion
  CompletionIsHandled
