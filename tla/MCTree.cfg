SPECIFICATION SumSpec
CONSTANTS
  bore = bore
  prjc = prjc
  bbr = bbr
  Patch <- MCPatch
  Marker <- MCMarker
  Series <- MCSeries
  Directory = {71, 72, 73}
  Locked = {71, 72}
  Lines <- MCLines
  Content = {"a", "b"}
  Machine <- MCMachine
  VendorOf <- MCVendorOf
  BoardOf <- MCBoardOf
  GreenBoost <- MCGreenBoost
  Fragments <- MCFragments
  Presets <- MCPresets
  Bases <- MCBases
  Fragment = {1, 2, 3, 4, 5}
  Family <- MCFamily
INVARIANTS
  BaselinePristine
  PatchOutcome
  FetchedIsPinned
  OwnVendor
  FloorBuilt
  SuspectsFail
PROPERTIES
  ImplementsSeriesTree
