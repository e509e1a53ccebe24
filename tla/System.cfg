\* a run with every step of the opening of its port and of its monitor
SPECIFICATION FairSysSpec
CONSTANTS
  ready = ready
  panic = panic
  bootLine = bootLine
  crashLine = crashLine
  StepLists <- TwoMonitors
  Ports = {p1}
  Bluetooth = {}
  Marked = {p1}
  HasIDs = {}
  AutoPort = AutoPort
  Interval = 1
  BootTimeout = 1
  MaxOpenTime = 2
  Required = {ready}
  Forbidden = {panic}
  Within <- MCWithin
  Chunk = {bootLine, crashLine}
  Shown <- MCShown
  Duration = 1
  DiskMayFill = FALSE
  MaxSent = 1
  MaxTime = 2
INVARIANTS
  PassedIsEarned
  PortIsReleased
PROPERTIES
  Spec
  RunEnds
