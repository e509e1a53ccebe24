\* a descendant of pio that keeps its output open
SPECIFICATION FairSpec
CONSTANTS
  Places = 1
  Timeout = 1
  MaxRuns = 1
  MaxHeirs = 1
  MaxTime = 2
PROPERTY
  TimeoutEndsStep
