SPECIFICATION Spec
CONSTANTS
  a = a
  b = b
  c = c
  d = d
  PM = PM
  c1 = c1
  c2 = c2
  Tasks = {a, b, c}
  Deps <- FanDeps
  PlanOrder <- DependentFirst
  MaxWorkers = 1
  Clients = {c1, c2}
  Ops = {"approve", "cancel", "purge", "reopen", "kill", "resume", "merge", "pm"}
  Faults = {"crash"}
  MaxSessions = 2
  MaxRestarts = 1
  MaxRequests = 3
INVARIANTS
  RunningWithinLimit
  DoneWasEarned
  DependenciesCameFirst
CHECK_DEADLOCK FALSE
SYMMETRY Swap
