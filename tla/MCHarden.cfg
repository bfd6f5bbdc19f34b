SPECIFICATION Spec
CONSTANTS
  Packages <- Rkhunter
  Boxes <- MCBoxes
  MaxDrift = 2
INVARIANTS
  ZeroIsTrue
  TwoAppliesSettle
PROPERTIES
  CountedKeyIsKept
