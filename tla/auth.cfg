SPECIFICATION Spec
CONSTANTS
  h1 = h1
  h2 = h2
  t1 = t1
  t2 = t2
  t3 = t3
  c1 = c1
  seed = seed
  k1 = k1
  x1 = x1
  x2 = x2
  Handlers = {h1, h2}
  Tokens = {t1, t2, t3}
  Codes = {c1}
  SeedCodes = {seed}
  Keys = {k1}
  Ceremonies = {x1, x2}
  MaxRequests = 3
  MaxCrashes = 1
  NoFile = NoFile
  Torn = Torn
  None = None
SYMMETRY AnySymmetry
INVARIANTS OneTimeMeansOnce ChallengesAreNotReplayed ClaimIsClosed ToldSessionsLast
CHECK_DEADLOCK FALSE
