SPECIFICATION FairSpec
CONSTANTS
  p1 = p1
  p2 = p2
  r1 = r1
  r2 = r2
  r3 = r3
  Ref = {p1, p2}
  Chain <- TwoInChain
  Unavailable = {p1}
  Retries = 1
  OnError = {"timeout", "5xx"}
  Request <- MCRequest
  Threshold = 3
  Window = 2
  Park = 2
INVARIANTS
  TypeOK
PROPERTIES
  ParkIsEarned
  ParkIsKept
  RequestSettles
  ParkEnds
CHECK_DEADLOCK FALSE
