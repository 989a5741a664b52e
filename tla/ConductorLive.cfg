SPECIFICATION FairSpec
CONSTANTS
  a = a
  b = b
  c = c
  d = d
  c1 = c1
  c2 = c2
  PM = PM
  Tasks = {a, b, c, d}
  Deps <- WideDeps
  PlanOrder <- FourInOrder
  MaxWorkers = 2
  Clients = {c1}
  Ops = {"approve"}
  Faults = {"stall"}
  MaxSessions = 4
  MaxRestarts = 0
  MaxRequests = 1
INVARIANT SettledRunIsQuiet
PROPERTIES
  KeepsPromise
  RunSettles
  ReadyTaskStarts
CHECK_DEADLOCK FALSE
