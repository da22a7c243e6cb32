SPECIFICATION FairSpec
CONSTANTS
  Order = {"o1", "o2"}
  Receivable = {"r1", "r2"}
  NoReceivable = "none"
  World <- MCWorld
  Source = {"s1"}
  ClueSet <- MCClueSet
  MaxTurns = 3
  MaxRows = 1
  MaxMoves = 1
  NoKey = NoKey
CHECK_DEADLOCK FALSE
INVARIANTS
  TypeOK
  BudgetIsShared
  MatchIsGrounded
  MatchIsUnique
  NobodyWasFound
  AuditIsComplete
PROPERTIES
  EveryInvestigationEnds
