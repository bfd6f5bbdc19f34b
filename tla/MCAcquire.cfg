SPECIFICATION Spec
CONSTANTS
  Release = {10, 11, 12, 20, 30}
  Ours = {20}
  ListLen = 2
  RecentSeries = 2
  MaxFetch = 2
INVARIANTS
  
  NoLateGap
  NearestBaseline
