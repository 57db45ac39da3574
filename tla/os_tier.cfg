SPECIFICATION Spec
CONSTANTS
  web = web
  blog = blog
  Configs = {web, blog}
  FirstConfig = web
  BadConfigs = {}
  MaxRelease = 2
  BadReleases = {2}
  MaxSystems = 3
  Faults = {"start", "regenerate", "bump", "build", "register", "switch"}
  Disturbances = {"restart", "power", "overlap", "content_rollback"}
  MaxDisturbances = 1
  NoConfig = NoConfig
  NoPin = NoPin
INVARIANTS UnmarkedMeansCurrent
PROPERTIES FailedUpdateKeepsPin DeployAnswered
CHECK_DEADLOCK FALSE
