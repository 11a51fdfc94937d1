SPECIFICATION SurvivalSpec
CONSTANTS
  Procs = {p1}
  Paths = {a, b}
  SizeTrigger = 1
  Survival = 1
  MaxVersion = 2
  MaxClock = 3
  QuietSources = FALSE
  NoItem = NoItem
  NoPickle = NoPickle
  NoPath = NoPath
PROPERTIES
  HitsSurvive
