\* every test file with one or two sections changed, validated and run from both places, and what init makes of its arguments
SPECIFICATION Spec
CONSTANTS
  TrimSpace <- MCTrimSpace
  ReadBack <- MCReadBack
  Join <- MCJoin
  Atoi <- MCAtoi
  FormatInt <- MCFormatInt
  ParseBool <- MCParseBool
  ParseDuration <- MCParseDuration
  FormatDuration <- MCFormatDuration
  ProjectDir = "/fw"
  RunDir = "/fw/.architon/runs/r"
  Directories = {"/fw", "/fw/firmware"}
  Files <- MCFiles
  Edits <- GoodFile
  Inis <- MCInis
  Names = {" "}
  Environments <- MCEnvironments
  PortArgs = {" ", " COM3 "}
  Bauds = {0}
  DirName = "fw-smoke-test"
  RunCodes = {0, 6}
INVARIANTS
  ResolvedReproduces
  StartedIsRunnable
  NothingIgnored
  OrderOfFieldsIrrelevant
  BlameIsRight
  StarterIsValid
