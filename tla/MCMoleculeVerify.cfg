SPECIFICATION Spec
CONSTANTS
  Byte = 3
  MaxShort = 5
  Offsets = {8, 12, 16, 17, 18, 19, 20}
  MaxPayload = 3
  MaxIndex = 3
  Buffers <- MCBuffers
  Shapes <- MCShapes
INVARIANTS
  OverrunsAreRejected
  VerifiedWithoutGaps
  GetterReturnsVerified
  VerifierAgrees
CHECK_DEADLOCK FALSE
