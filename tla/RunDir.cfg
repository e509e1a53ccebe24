\* three processes in two seconds, with any names taken before
SPECIFICATION Spec
CONSTANTS
  Proc <- Processes
  Second <- Seconds
  Limit = 3
INVARIANTS
  NoSharedDir
  FullMeansFull
