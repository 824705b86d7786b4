SPECIFICATION FairSpec
CONSTANTS
  a = a
  b = b
  c = c
  Torn = b
  Key = {a, b}
  Str = {a}
  Nil = Nil
  Null = Null
  IntMax = 0
  FloatMax = 1
  Ref = {r1, r2, r3}
  Unwritten <- TxnMisread
  Commands <- TxnCommands
  Queries <- TxnQueries
  MaxWal = 2
  MaxLen = 1
INVARIANTS WalOnlyInTxn LoggedValidated Aligned
PROPERTIES KeepsTxnSpec QueryCompletes
