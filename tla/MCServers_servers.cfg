SPECIFICATION FairSpec
CONSTANTS
  c1 = c1
  c2 = c2
  NoConn = NoConn
  Conns = {c1, c2}
  NumFds = 2
  RecvSize = 2
  SendBuffer = 1
  MaxSent = 2
  Paths <- HomeAndStyle
  Content <- TwoFiles
CHECK_DEADLOCK FALSE
INVARIANTS TypeOK EchoExact NobodyElseClosed OwnResponse
PROPERTIES EveryoneServed
