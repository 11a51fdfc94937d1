SPECIFICATION FairRefSpec
CONSTANTS
  TextTokens <- MCTextTokens
  Nonterminals <- MCNonterminals
  States <- MCStates
  FromRule <- MCFromRule
  Final <- MCFinal
  Transitions <- MCTransitions
  StmtArc <- MCStmtArc
  StartState <- MCStartState
  LineEndTokens = {"NEWLINE"}
  ErrorRecovery = FALSE
  Arcs <- MCArcs
  FirstStateOf <- MCFirstStateOf
  MaxTokens = 14
  MaxDepth = 3
INVARIANTS
  StrictDecidesGrammar
PROPERTIES
  TokenConsumed
CHECK_DEADLOCK FALSE
