SPECIFICATION FairSpec
CONSTANTS
  a = a
  b = b
  c = c
  d = d
  c1 = c1
  c2 = c2
  PM = PM
  Tasks = {a, b, c}
  Deps <- ChainDeps
  PlanOrder <- ThreeInOrder
  MaxWorkers = 2
  Clients = {c1}
  Ops = {"approve"}
  Faults = {}
  MaxSessions = 3
  MaxRestarts = 0
  MaxRequests = 1
PROPERTIES
  RunSettles
CHECK_DEADLOCK FALSE
