SPECIFICATION FairSpec
CONSTANTS
  N = 4
  Recipes <- FourSteps
INVARIANTS
  TypeOK
  WavesAreLayers
  OneWaveAtATime
  RunningHasWork
  InputsAreThere
  WithinWidth
  PausedCanBeAnswered
  AuditPausedIsTrue
  VerdictIsEarned
PROPERTIES
  KeepsPromise
  NothingStartsAfterHalt
  RunEnds
CHECK_DEADLOCK FALSE
