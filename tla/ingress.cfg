SPECIFICATION Spec
SYMMETRY Symmetry
CONSTANTS
  c1 = c1  c2 = c2  p1 = p1  d1 = d1  z1 = z1  z2 = z2
  Callers = {c1, c2}
  Zones = {z1, z2}
  Given = {p1, d1}
  Parents = {p1}
  MaxCalls = 3
  MaxMints = 2
  MaxTunnels = 2
  MaxTidies = 1
  None = None
  Elsewhere = Elsewhere
INVARIANTS DoneIsDone RulesBeforeNames TokensAreProven
CHECK_DEADLOCK FALSE
