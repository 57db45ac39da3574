SPECIFICATION Spec
CHECK_DEADLOCK FALSE
CONSTANTS
  c1 = c1
  c2 = c2
  quick = quick
  funnel = funnel
  Callers = {c1, c2}
  Ways = {quick}
  KeptWays = {funnel}
  MaxCalls = 3
  MaxSpawns = 2
  MaxRestarts = 1
  Token = Token
  None = None
INVARIANTS NoStrayConnector StatusIsOfTheChild
PROPERTY ConnectorComesBack
