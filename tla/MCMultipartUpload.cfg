SPECIFICATION Spec
CONSTANTS
  PartCount = 2
  MaxVersion = 3
  MaxUploads = 2
INVARIANTS
  TypeOK
  SuccessMeansFile
  JournalClaimsOnlyStoredParts
  ProgressIsJournalled
PROPERTIES
  NoPartSentTwice
