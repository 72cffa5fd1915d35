SPECIFICATION Spec
CONSTANTS
  p1 = p1
  p2 = p2
  Invocations <- TwoInvocations
  Options <- SomeOptions
  Plans <- ConfOrCaPairs
SYMMETRY Symmetry
INVARIANTS
  TypeOK
  ServesWhatItAdvertises
  OptionsReachBroker
  PasswordIsOwnerOnly
  OnlyDownloadsSpoilCache
  StartsWithCurrentCa
PROPERTY
  BrokenCacheStays
CHECK_DEADLOCK FALSE
