SPECIFICATION FairSpec
CONSTANTS
  Threads = {1, 2}
  Others = {3, 4}
  Requests <- MCRequests
  Tokens <- MCTokens
  Number <- MCNumber
  NoBudget = 0
  Symbols <- MCSymbols
  SymbolsAt <- MCSymbolsAt
  TTL = 1
  MaxAsked = 2
  MaxSweeps = 1
  MaxChanges = 1
  MaxTime = 1
INVARIANTS ServerTypeOK StaleHasCause AnswersTheQuestion OverBudgetHasCause RanksAreOneReading
PROPERTIES EveryRequestEnds
CHECK_DEADLOCK FALSE
