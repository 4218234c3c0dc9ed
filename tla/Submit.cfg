SPECIFICATION FairSpec
CONSTANT MaxFaults = 4
CHECK_DEADLOCK FALSE
INVARIANTS
  TypeOK
  OneBuildFollowed
PROPERTIES
  NothingAfterFailure
  EventuallyDecided
