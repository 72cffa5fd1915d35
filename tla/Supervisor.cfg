SPECIFICATION FairSpec
CONSTANTS
  r1 = r1
  r2 = r2
  Runners <- TwoRunners
INVARIANTS
  TypeOK
  NeverResolvedWhileStopping
  SupervisedLeavesNothing
  ZeroMeansStopped
PROPERTIES
  StopTearsDown
  CrashIsWithdrawn
  RecordsGetABroker
  ImplementsService
CHECK_DEADLOCK FALSE
