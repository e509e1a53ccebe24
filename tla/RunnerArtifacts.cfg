\* a run without all three kinds of step
SPECIFICATION Spec
CONSTANTS
  StepLists <- ListsUpTo2
  Ports = {p1, p2}
  Bluetooth = {}
  Marked = {p1, p2}
  HasIDs = {}
  AutoPort = AutoPort
SYMMETRY PortSymmetry
INVARIANT
  AllArtifactsWritten
