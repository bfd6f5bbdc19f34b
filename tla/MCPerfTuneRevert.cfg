SPECIFICATION SmoothSpec
CONSTANTS
  watchdog = watchdog
  dirty = dirty
  scx = scx
  NoKnob = NoKnob
  Knob <- MCKnob
  Adopt = {watchdog}
  Persistable = {watchdog, dirty}
  Split = {dirty}
  Mute = {scx}
  Scx = scx
  FileOf <- MCFileOf
  Metric <- MCMetric
  Higher <- MCHigher
  Sample <- MCSample
  Spread = {0, 4}
INVARIANTS
  RevertUndoesAll
