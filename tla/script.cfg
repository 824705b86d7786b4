SPECIFICATION Spec
CONSTANTS
  Letters = {"s", "r", "n", "q"}
  Digits = {"1"}
  Others = {"$"}
  mapToCmd <- WordsToCmd
  YesWords <- YesOption
  NoWords <- NoOption
  TooLarge <- TooBig
  Programs <- TwoPerLine
CHECK_DEADLOCK FALSE
INVARIANTS SemicolonsSeparate
