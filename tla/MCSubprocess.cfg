SPECIFICATION RunSpec
CONSTANTS
  Cap = 2
  MaxData <- MCMaxData
  NoTimeout = NoTimeout
  Timeouts = {NoTimeout, 1}
  MaxTime = 4
INVARIANTS
  OutputComplete
PROPERTIES
  TimeoutEnds
  EndsWithChild
  PipesDrain
CHECK_DEADLOCK FALSE
