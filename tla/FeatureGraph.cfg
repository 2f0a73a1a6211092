SPECIFICATION MCSpec
CONSTANTS
  Registers <- MCRegisters
  Features <- MCFeatures
  Blocks <- MCBlocks
  Points <- MCPoints
  Fields <- MCFields
  Mask <- MCMask
  Access <- MCAccess
  Cachable <- MCCachable
  pInvalidator <- MCpInvalidator
  Steers <- MCSteers
  Drives <- MCDrives
  Values <- MCValues
  AcksLost = FALSE
  Node <- MCNode
  ByteBits = 1
  BlockBits = 2
  Ints <- MCInts
  Floats <- MCFloats
  Texts <- MCTexts
  Answering <- MCAnswering
  IntBits = 4
  Libm <- MCLibm
  BareMiddle = FALSE
INVARIANTS
  ReadsAreFresh
  CircularMeansLoop
  AccessModeIsHonest
  ReadsBack
  FormulaMeansItsTree
PROPERTIES
  ImplementsCache
