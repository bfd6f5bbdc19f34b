SPECIFICATION Spec
CONSTANTS
  v1 = v1
  v2 = v2
  Live = Live
  None = None
  Version <- MCVersion
  MaxRuns = 3
SYMMETRY Symmetry
INVARIANTS
  PhaseBuildsFinishedTree
  CompletionsAreOfThisTree
PROPERTIES
  FullRunPinsItsTarget
\* Exploration ends after MaxRuns invocations.
CHECK_DEADLOCK FALSE
