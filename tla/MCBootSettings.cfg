SPECIFICATION BSpec
CONSTANTS
  Base <- MCBase
  Extras <- MCExtras
  MainFiles <- MCMainFiles
  Levers <- MCLevers
  Cpu = {"0", "1"}
  Goldens <- MCGoldens
  Sysctl = {"oops", "fifos", "userns"}
  SafeFix = {"oops", "fifos"}
  MaxEvent = 2
INVARIANTS
  AppliedIsLive
