SPECIFICATION HistorySpec
CONSTANTS
  a = a
  b = b
  c = c
  Torn = Torn
  Key = {a, b, Torn}
  Str = {a}
  Nil = Nil
  Null = Null
  IntMax = 0
  FloatMax = 1
  Ref = {r1, r2, r3, r4}
  Unwritten <- Misread
  Commands <- FileCommandSet
  Queries <- FileQueries
  MaxWal = 1
  MaxLen = 1
SYMMETRY Symmetry
INVARIANTS NoMixedSave 
PROPERTIES LoadMerges CrashesHaveCause TxnIsolation
