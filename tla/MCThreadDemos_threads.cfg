SPECIFICATION FairSpec
CONSTANTS
  Rounds = 5
  useCountStart = 5
  maxBufferSize = 2
CHECK_DEADLOCK FALSE
INVARIANTS TypeOK NothingLost SectionsWhole NoCircularWait
PROPERTIES ThreadsEnd
