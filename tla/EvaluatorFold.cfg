\* noise in a text that is folded to lower case; the buffer never overflows
SPECIFICATION Spec
CONSTANTS
  Byte = {"p", "n", "?"}
  LowerByte <- MCLowerByte
  Lead = {}
  Cont = {}
  Resized <- MCResized
  Noise = {"?"}
  Space = {}
  Specs <- FoldSpecs
  RequestedMaxBytes = 16
  DefaultMaxBytes = 16
  Context = 1
  Chunk <- ReadsUpTo3
  MaxHeard = 5
  MaxTime = 1
INVARIANT
  ForbiddenTextFails
