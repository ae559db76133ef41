SPECIFICATION Spec
CONSTANTS
  Chars <- SomeChars
  MaxSource = 4
  MaxWords = 7
  Items = {1, 2, 3}
  MaxSize = 4
  MaxHashes = 2
  Uint32 = 3
  Hashes = {0, 1, 2}
CHECK_DEADLOCK FALSE
INVARIANTS TokensRight ParsesQueries NoFalseNegatives
