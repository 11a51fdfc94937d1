SPECIFICATION Spec
CONSTANTS
  Procs = {p1}
  Paths = {a}
  SizeTrigger = 1
  Survival = 1
  MaxVersion = 2
  MaxClock = 1
  QuietSources = FALSE
  NoItem = NoItem
  NoPickle = NoPickle
  NoPath = NoPath
INVARIANTS
  FreshResult
