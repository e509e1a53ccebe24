\* noise in an overflowing buffer
SPECIFICATION Spec
CONSTANTS
  Byte = {"p", "n", "?"}
  LowerByte <- MCLowerByte
  Lead = {}
  Cont = {}
  Resized <- MCResized
  Noise = {"?"}
  Space = {}
  Specs <- TrimSpecs
  RequestedMaxBytes = 4
  DefaultMaxBytes = 8
  Context = 80
  Chunk <- ReadsUpTo3
  MaxHeard = 6
  MaxTime = 1
INVARIANT
  ForbiddenTextFails
