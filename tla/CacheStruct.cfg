SPECIFICATION CacheSpec
CONSTANTS
  Registers <- StructEntries
  Features = {}
  Blocks = {"block"}
  Points <- StructPoints
  Fields <- MCFields
  Mask <- StructMask
  Access <- StructAccess
  Cachable <- StructCachable
  pInvalidator <- StructInvalidator
  Steers <- StructSteers
  Drives <- NoDrives
  Values <- MCValues
  AcksLost = FALSE
PROPERTIES
  FieldWriteKeepsSiblings
