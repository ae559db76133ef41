SPECIFICATION Spec
CONSTANTS
  c1 = c1
  c2 = c2
  c3 = c3
  Main = Main
  Free = Free
  NoConn = NoConn
  Absent = Absent
  Conns = {c1, c2, c3}
  Users = {u, w}
  Fds = {4, 5}
  Buffer = 1
  MaxRequests = 2
CHECK_DEADLOCK FALSE
INVARIANTS TypeOK LockedSendsReach TablesMatchSockets
SYMMETRY ConnSymmetry
