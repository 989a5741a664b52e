SPECIFICATION Spec
CONSTANTS
  a = a
  b = b
  c = c
  d = d
  c1 = c1
  c2 = c2
  PM = PM
  Tasks = {a, b, c}
  Deps <- FanDeps
  PlanOrder <- ThreeInOrder
  MaxWorkers = 2
  Clients = {c1}
  Ops = {"approve", "purge"}
  Faults = {}
  MaxSessions = 3
  MaxRestarts = 0
  MaxRequests = 2
PROPERTY ArchivedIsReadOnly
CHECK_DEADLOCK FALSE
