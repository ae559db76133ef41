SPECIFICATION FairSpec
CONSTANTS
  c1 = c1
  c2 = c2
  c3 = c3
  Main = Main
  Free = Free
  NoConn = NoConn
  Absent = Absent
  Conns = {c1, c2}
  Users = {u}
  Fds = {4, 5}
  Buffer = 1
  MaxRequests = 2
CHECK_DEADLOCK FALSE
PROPERTIES LogoutEnds ShutdownEnds
