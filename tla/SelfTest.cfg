SPECIFICATION FairSpec
CONSTANTS
  r1 = r1
  t1 = t1
  t2 = t2
  i1 = i1
  i2 = i2
  Runners <- OneRunner
  Tests <- TwoTests
  Ids <- TwoIds
  SelfTestId = i1
  Plans <- Pairs
INVARIANTS
  TypeOK
  RoundTripWasMade
  AnswerIsOnItsWay
PROPERTY
  EveryTestEnds
CHECK_DEADLOCK FALSE
