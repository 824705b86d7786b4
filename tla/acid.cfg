SPECIFICATION HistorySpec
CONSTANTS
  a = a
  b = b
  c = c
  Torn = c
  Key = {a, b, c}
  Str = {a}
  Nil = Nil
  Null = Null
  IntMax = 0
  FloatMax = 1
  Ref = {r1, r2, r3, r4}
  Unwritten = {}
  Commands <- ClaimCommands
  Queries <- ClaimQueries
  MaxWal = 2
  MaxLen = 1
INVARIANT OpenTxnLeavesNoTrace
