SPECIFICATION Spec
CONSTANTS
  Packages <- Rkhunter
  Boxes <- MCBoxes
  MaxDrift = 2
INVARIANT
  PolicyIsDeny
