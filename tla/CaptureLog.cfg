\* serial.log on a disk that fills up
SPECIFICATION Spec
CONSTANTS
  ready = ready
  panic = panic
  bootLine = bootLine
  crashLine = crashLine
  Required = {ready}
  Forbidden = {panic}
  Within <- MCWithin
  Chunk = {bootLine, crashLine}
  Shown <- MCShown
  Duration = 2
  DiskMayFill = TRUE
  MaxSent = 3
  MaxTime = 3
INVARIANT
  LogIsComplete
