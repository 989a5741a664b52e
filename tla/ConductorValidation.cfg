SPECIFICATION Spec
CONSTANTS
  a = a
  b = b
  c = c
  d = d
  c1 = c1
  c2 = c2
  PM = PM
  Tasks = {a, b, c}
  Deps <- FanDeps
  PlanOrder <- ThreeInOrder
  MaxWorkers = 2
  Clients = {c1}
  Ops = {"approve"}
  Faults = {"invalid"}
  MaxSessions = 3
  MaxRestarts = 0
  MaxRequests = 1
INVARIANT MergeWaitsForValidation
CHECK_DEADLOCK FALSE
