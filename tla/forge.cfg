CONSTANTS
  github = github
  gitlab = gitlab
  com = com
  own = own
  c1 = c1
  c2 = c2
  Nothing = Nothing
  CutOff = CutOff
  Providers <- MCProviders
  Fixed <- MCFixed
  Hosts <- MCHosts
  Public = com
  Settings <- MCSettings
  Older <- MCOlder
  Callers <- MCCallers
  MaxCodes = 2
  MaxCalls = 4
SPECIFICATION FGSpec
SYMMETRY Symmetry
INVARIANTS TokenStaysHome GoneIsGone TypedCodeStands
CHECK_DEADLOCK FALSE
