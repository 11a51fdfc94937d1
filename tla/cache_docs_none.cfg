SPECIFICATION Spec
CONSTANTS
  Procs = {p1, p2}
  Paths = {a}
  SizeTrigger = 1
  Survival = 1
  MaxVersion = 2
  MaxClock = 1
  QuietSources = TRUE
  NoItem = NoItem
  NoPickle = NoPickle
  NoPath = NoPath
INVARIANTS
  LoadModuleNeverFails
