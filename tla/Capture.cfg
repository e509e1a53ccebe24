\* one monitor window with an early deadline, a late timer, two chunks and a disk that may fill
SPECIFICATION FairSpec
CONSTANTS
  ready = ready
  panic = panic
  bootLine = bootLine
  crashLine = crashLine
  Required = {ready}
  Forbidden = {panic}
  Within <- MCWithin
  Chunk = {bootLine, crashLine}
  Shown <- MCShown
  Duration = 2
  DiskMayFill = TRUE
  MaxSent = 2
  MaxTime = 3
INVARIANTS
  TypeOK
  HeardInOrder
  VerdictsMatchHeard
  AbsenceNeedsWholeWindow
PROPERTIES
  MonitorReturns
  ReaderExits
