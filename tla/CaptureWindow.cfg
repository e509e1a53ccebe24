\* a forbidden chunk read in the window and dropped at its end
SPECIFICATION Spec
CONSTANTS
  ready = ready
  panic = panic
  bootLine = bootLine
  crashLine = crashLine
  Required = {ready}
  Forbidden = {panic}
  Within <- MCWithin
  Chunk = {bootLine, crashLine}
  Shown <- MCShown
  Duration = 2
  DiskMayFill = FALSE
  MaxSent = 3
  MaxTime = 3
INVARIANT
  ForbiddenInWindowFails
