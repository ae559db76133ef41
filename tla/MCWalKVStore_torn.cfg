SPECIFICATION FairSpec
CONSTANTS
  a = a
  raw = raw
  ufffd = ufffd
  v = v
  w = w
  big = big
  Absent = Absent
  Garbled = Garbled
  Oversized = Oversized
  NoTail = NoTail
  NoEntry = NoEntry
  Threads = {t1, t2}
  Keys = {a, raw, ufffd}
  Values = {v, w, big}
  TooLong = {big}
  WireKey <- LossyKey
  WireValue <- LossyValue
  MaxLines = 3
  MaxTorn = 1
  PowerLoss = TRUE
INVARIANTS TypeOK RecoveredPrefix MemoryMatchesLog LossBounded
PROPERTIES UpOnlyWhenAllRead RecoveryEnds
