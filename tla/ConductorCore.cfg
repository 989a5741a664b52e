SPECIFICATION Spec
CONSTANTS
  a = a
  b = b
  c = c
  d = d
  PM = PM
  c1 = c1
  c2 = c2
  Tasks = {a, b, c}
  Deps <- FanDeps
  PlanOrder <- ThreeInOrder
  MaxWorkers = 2
  Clients = {c1}
  Ops = {"approve", "resume"}
  Faults = {"invalid", "spawn_error", "spawn_timeout", "crash", "shutdown"}
  MaxSessions = 3
  MaxRestarts = 1
  MaxRequests = 3
INVARIANTS
  TypeOK
  OneWorkerPerTask
  SettledRunIsQuiet
PROPERTIES
  SuccessIsKept
  KeepsPromise
CHECK_DEADLOCK FALSE
