\* noise, split runes and a buffer that overflows
SPECIFICATION Spec
CONSTANTS
  Byte = {"p", "L", "C", "?"}
  LowerByte <- MCLowerByte
  Lead = {"L"}
  Cont = {"C"}
  Resized <- MCResized
  Noise = {"?"}
  Space = {}
  Specs <- NoiseSpecs
  RequestedMaxBytes = 3
  DefaultMaxBytes = 8
  Context = 80
  Chunk <- ReadsUpTo3
  MaxHeard = 6
  MaxTime = 2
INVARIANTS
  VerdictsAreWitnessed
