SPECIFICATION Spec
CONSTANTS
  r1 = r1
  r2 = r2
  Runners <- OneRunner
INVARIANTS
  NoOrphanedBroker
CHECK_DEADLOCK FALSE
