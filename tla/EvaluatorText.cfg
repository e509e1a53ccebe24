\* ASCII text, every way of cutting it into reads, a buffer that overflows
SPECIFICATION Spec
CONSTANTS
  Byte = {"p", "P", "n", "_"}
  LowerByte <- MCLowerByte
  Lead = {}
  Cont = {}
  Resized <- MCResized
  Noise = {}
  Space = {"_"}
  Specs <- TextSpecs
  RequestedMaxBytes = 3
  DefaultMaxBytes = 8
  Context = 1
  Chunk <- ReadsUpTo3
  MaxHeard = 6
  MaxTime = 2
INVARIANTS
  TypeOK
  OneResultPerAssertion
  EvidenceShowsValue
PROPERTY
  ImplementsContract
