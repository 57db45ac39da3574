SPECIFICATION Spec
CONSTANTS
  a = a
  b = b
  pr = pr
  Sites = {a, b}
  Previews = {pr}
  MaxCommits = 2
  BadCommits <- PreviewBreaks
  Moved = {b}
  MaxRequests = 3
  Disturbances = {"git", "build", "system", "crash", "unlink", "rollback"}
  MaxDisturbances = 2
  Main = Main
  Hand = Hand
  NoTree = NoTree
  None = None
INVARIANTS MarkerWasServed DeletedStaysDeleted
PROPERTY PushesArrive
