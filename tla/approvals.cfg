SPECIFICATION Spec
CONSTANTS
  del = del
  prov = prov
  agent = agent
  op = op
  op2 = op2
  resident = resident
  Actions = {del, prov}
  AsJob = {prov}
  Sessions = {agent, op, op2}
  Agents = {agent}
  Autonomous = {op2}
  Resident = resident
  MaxTaps = 2
  Unasked = Unasked
  MaxJobs = 2
  Limit = 1
  MaxRestarts = 1
  Nothing = Nothing
INVARIANTS NoGhosts ViewsAgree ApprovedHasRun
PROPERTY JobsEnd
