SPECIFICATION CRSpec
CONSTANTS
  Password = Password
  ServiceSecrets = {db}
  Operators = {alice, bob}
  Restores = {r1, r2}
  Initialisers = {i1, i2}
  MaxMachines = 2
  MaxIdentities = 3
  MaxValues = 2
  MaxRestores = 2
  Absent = Absent
  Torn = Torn
SYMMETRY AnySymmetry
INVARIANTS
  RestoredIsReadable
PROPERTIES
  KeyIsKept
CHECK_DEADLOCK FALSE
