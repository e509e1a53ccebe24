\* every run of up to three steps, every failure, a signal at any moment
SPECIFICATION Spec
CONSTANTS
  StepLists <- ListsUpTo3
  Ports = {p1, p2, com, bt}
  Bluetooth = {bt}
  Marked = {p1, p2}
  HasIDs = {bt}
  AutoPort = AutoPort
SYMMETRY PortSymmetry
INVARIANTS
  TypeOK
  ExitZeroMeansAllPassed
  ExitNamesTheCause
  OnePortPerRun
  AutoNeverGuesses
PROPERTY
  NothingStartsAfterTheEnd
