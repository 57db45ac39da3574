SPECIFICATION Spec
CONSTANTS
  Runners = {timer, now}
  Databases = {db}
  Plain = {web}
  Stateless = {proxy}
  MaxData = 1
  MaxRuns = 2
  MaxRestores = 1
  Absent = Absent
SYMMETRY AnySymmetry
INVARIANTS
  MarkedIsWhole
  DumpsAreWhole
  NeverWidened
CHECK_DEADLOCK FALSE
