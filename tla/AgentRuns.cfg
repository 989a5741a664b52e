SPECIFICATION Spec
CONSTANTS
  c1 = c1
  c2 = c2
  c3 = c3
  Call <- MCCall
  Forced = {}
  Chat = {c2, c3}
  Base = 1
  Continued = 2
  MaxUsd = 1
  Cap = 2
  Bump = 1
  MaxSpend = 2
  Answered = {c1}
  MaxTaps = 1
  MaxBoots = 1
  MaxFailures = 1
INVARIANTS
  TypeOK
  OneRunPerSubject
  CeilingWithinGrants
  OpenRowIsOwned
PROPERTIES
  CountedNeverFalls
  RoomWasThere
SYMMETRY Swap
CHECK_DEADLOCK FALSE
