\* a build and an upload, with everything that pio, the user and the clock may do
SPECIFICATION FairSpec
CONSTANTS
  Places = 2
  Timeout = 2
  MaxRuns = 2
  MaxHeirs = 2
  MaxTime = 3
INVARIANTS
  PassedMeansSucceeded
  CauseIsTrue
  NobodyLeftBehind
  OneBinaryPerRun
PROPERTY
  ReturnsUnlessHeld
