SPECIFICATION Spec
CONSTANTS
  a = a
  raw = raw
  ufffd = ufffd
  v = v
  w = w
  big = big
  Absent = Absent
  Garbled = Garbled
  Oversized = Oversized
  NoTail = NoTail
  NoEntry = NoEntry
  Threads = {t1, t2}
  Keys = {a, raw}
  Values = {v, w}
  TooLong = {}
  WireKey <- SameKey
  WireValue <- SameValue
  MaxLines = 4
  MaxTorn = 0
  PowerLoss = FALSE
PROPERTIES LoggedBeforeApplied LogImplementsMap
