SPECIFICATION RefSpec
CONSTANTS
  TextTokens <- MCTextTokens
  Nonterminals <- MCNonterminals
  States <- MCStates
  FromRule <- MCFromRule
  Final <- MCFinal
  Transitions <- MCTransitions
  StmtArc <- MCStmtArc
  StartState <- MCStartState
  LineEndTokens = {"NEWLINE"}
  ErrorRecovery = TRUE
  Arcs <- MCArcs
  FirstStateOf <- MCFirstStateOf
  MaxTokens = 7
  MaxDepth = 2
INVARIANTS
  TypeOK
  NothingLost
  InOrder
  NeverCrashes
  IndentsAccounted
  RecoveryDepth
  ErrorsOnlyWhenInvalid
PROPERTIES
  SuiteStripsIndents
  BlocksKept
  RetriesShrink
CHECK_DEADLOCK FALSE
