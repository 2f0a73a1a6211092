SPECIFICATION CacheSpec
CONSTANTS
  Registers <- MCRegisters
  Features <- MCFeatures
  Blocks <- MCBlocks
  Points <- MCPoints
  Fields <- MCFields
  Mask <- MCMask
  Access <- MCAccess
  Cachable <- MCCachable
  pInvalidator <- NamesRegister
  Steers <- MCSteers
  Drives <- MCDrives
  Values <- MCValues
  AcksLost = TRUE
INVARIANTS
  ReadsAreFresh
