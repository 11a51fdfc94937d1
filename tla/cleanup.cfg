SPECIFICATION Spec
CONSTANTS
  Procs = {p1, p2}
  Pickles = {a, b}
  Threshold = 2
  MaxSurvival = 1
  MaxClock = 3
  Absent = Absent
INVARIANTS
  CleanupComplete
PROPERTIES
  CleanupSpacing
