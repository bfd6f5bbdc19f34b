SPECIFICATION SumSpec
CONSTANTS
  quiet = quiet
  splash = splash
  Stock = Stock
  None = None
  Kernel <- MCKernel
  ByString <- MCByString
  Cmdline <- MCCmdline
  Keep = {1}
  KeepHyphaed = 10
  Base <- MCBase
  Extras <- MCExtras
  MainFiles <- MCMainFiles
  Levers <- MCLevers
  Cpu = {"0", "1"}
  Goldens <- MCGoldens
  Sysctl = {"oops"}
  SafeFix = {"oops"}
  MaxEvent = 2
INVARIANTS
  InstalledBoots
  CommandLineTakesEffect
  MitigationsOn
  WantedIsSet
PROPERTIES
  RunningSurvives
  UpdateSettles
