CONSTANTS
  r1 = r1
  Runs <- MCRuns
  Build = build
  Main = main
  MaxCommits = 1
  MaxChanges = 2
  WithoutKey = FALSE
SPECIFICATION Spec
INVARIANT OffsiteIsCurrent
CHECK_DEADLOCK FALSE
