SPECIFICATION Spec
CONSTANTS
  Letters = {"s", "r", "n", "q"}
  Digits = {"1"}
  Others = {"$"}
  mapToCmd <- WordsToCmd
  YesWords <- YesOption
  NoWords <- NoOption
  TooLarge <- TooBig
  Programs <- Matrix
CHECK_DEADLOCK FALSE
INVARIANTS MatrixReadsBack
