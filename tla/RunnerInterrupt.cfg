\* a signal while the port is being opened
SPECIFICATION Spec
CONSTANTS
  StepLists <- Starter
  Ports = {p1, p2}
  Bluetooth = {}
  Marked = {p1, p2}
  HasIDs = {}
  AutoPort = AutoPort
SYMMETRY PortSymmetry
INVARIANT
  InterruptedRunSaysSo
