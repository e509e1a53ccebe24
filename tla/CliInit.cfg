\* a test file saved between the look and the write of init
SPECIFICATION Spec
CONSTANTS
  TrimSpace <- MCTrimSpace
  ReadBack <- MCReadBack
  Join <- MCJoin
  Atoi <- MCAtoi
  FormatInt <- MCFormatInt
  ParseBool <- MCParseBool
  ParseDuration <- MCParseDuration
  FormatDuration <- MCFormatDuration
  ProjectDir = "/fw"
  RunDir = "/fw/.architon/runs/r"
  Directories = {"/fw", "/fw/firmware"}
  Files <- GoodFile
  Edits <- MCEdits
  Inis <- MCInis
  Names = {" "}
  Environments <- MCEnvironments
  PortArgs = {" ", " COM3 "}
  Bauds = {0}
  DirName = "fw-smoke-test"
  RunCodes = {0, 6}
PROPERTY
  InitRefusesToOverwrite
