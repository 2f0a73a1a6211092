SPECIFICATION CacheSpec
CONSTANTS
  Registers <- MCRegisters
  Features <- MCFeatures
  Blocks <- MCBlocks
  Points <- MCPoints
  Fields <- MCFields
  Mask <- MCMask
  Access <- MCAccess
  Cachable <- MCCachable
  pInvalidator <- NamesRegister
  Steers <- LiteralSteers
  Drives <- MCDrives
  Values <- MCValues
  AcksLost = FALSE
INVARIANTS
  ReadsAreFresh
