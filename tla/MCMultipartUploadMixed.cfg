SPECIFICATION Spec
CONSTANTS
  PartCount = 2
  MaxVersion = 2
  MaxUploads = 2
INVARIANT
  ObjectIsOneVersion
