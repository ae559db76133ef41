SPECIFICATION FairSpec
CONSTANTS
  c1 = c1
  c2 = c2
  c3 = c3
  Garbage = Garbage
  Clients = {c1, c2, c3}
  LineLengths <- LongThenShort
  maxBytes = 2
  SendBuffer = 3
  MaxLines = 2
CHECK_DEADLOCK FALSE
INVARIANTS TypeOK OwedIsWritten LinesInOrder
PROPERTIES LinesReachRoom LeaversLeave
