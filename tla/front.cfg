SPECIFICATION Spec
CONSTANTS
  Letters = {"s", "r", "n", "q"}
  Digits = {"1"}
  Others = {"$"}
  mapToCmd <- WordsToCmd
  YesWords <- YesOption
  NoWords <- NoOption
  TooLarge <- TooBig
  Programs <- AllPrograms
CHECK_DEADLOCK FALSE
INVARIANTS MainTypeOK TokensTile SemicolonsEndStatements EveryCommandOnce HandledOnce NoValueLost ListsReadBack GivenMatchesFile
PROPERTIES InputConsumed
