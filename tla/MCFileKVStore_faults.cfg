SPECIFICATION Spec
CONSTANTS
  empty = empty
  a = a
  b = b
  ab = ab
  aEq = aEq
  eq = eq
  eqa = eqa
  eqab = eqab
  eqb = eqb
  inj = inj
  other = other
  Absent = Absent
  Untouched = Untouched
  Eq = "="
  Newline = "n"
  EmptyKey = empty
  Keys <- AllKeys
  Values <- AllValues
  Line <- LineOf
  CutLines <- CutLinesOf
  ArgKeys = {empty, a, b, aEq}
  ArgValues = {ab, inj}
  MaxFaults = 2
INVARIANTS TypeOK MemoryMatchesFile NothingOlder
