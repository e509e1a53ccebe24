\* the port of a restarting board, tried until the deadline, and a reset with failing calls
SPECIFICATION FairReadySpec
CONSTANTS
  Interval = 2
  BootTimeout = 5
  MaxTime = 9
  Hold = 2
  MaxResetTime = 5
INVARIANTS
  GivesUpOnlyLate
  TriesBounded
  SignalAllowsOneMore
  DoneMeansReset
PROPERTIES
  StartsFirmware
  ReadyEnds
