SPECIFICATION Spec
CONSTANTS
  Accounts = {a1, a2}
  NoAccount = NoAccount
  Below <- MCBelow
  Folders <- MCFolders
  Outside = 4
  Uploads <- MCUploads
  PageSize = 2
  Menu = {"DeletePrefixPage", "DownloadPrefixPage", "ListIncompleteUploads", "RenameCopy", "DeleteOne", "CreateObject", "UploadManual", "DownloadAs", "PropertiesHead"}
  MaxAsks = 1
  MaxSwitches = 1
CHECK_DEADLOCK FALSE
INVARIANTS
  TypeOK
  PendingCountsJobs
  ReportIsComplete
  SummaryAddsUp
PROPERTIES
  NothingDeletedUnasked
  EveryBulkReports
