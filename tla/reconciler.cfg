SPECIFICATION Spec
CONSTANTS
  a = a
  b = b
  good = good
  bad = bad
  d1 = d1
  Services = {a, b}
  Versions = {good, bad}
  Unhealthy = {bad}
  Domains = {}
  Settings = {0}
  Writers = {"w"}
  HasOsTier = TRUE
  Absent = Absent
  NoDomain = NoDomain
  Keep = Keep
  NoTree = NoTree
  EmptyTree = EmptyTree
  MaxGens = 2
  MaxDisturbances = 1
INVARIANTS TypeOK DeclaredIsServed
PROPERTIES BadChangeNeverSticks OperationsSettle OnlyTheNamedServiceChanges ServesReleases
SYMMETRY NameSymmetry
