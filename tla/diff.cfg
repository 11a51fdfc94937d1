SPECIFICATION Spec
CONSTANTS
  Updates <- MCUpdates
  Width <- MCWidth
  Lexemes <- MCLexemes
  AlwaysBreak <- MCAlwaysBreak
  StartState <- MCStartState
  FromRule <- MCFromRule
  Final <- MCFinal
  Transitions <- MCTransitions
  StmtArc <- MCStmtArc
INVARIANTS
  SameTree
  NeverFails
  CoversParsedLines
  SearchFindsFirst
PROPERTIES
  RoundsAdvance
CHECK_DEADLOCK FALSE
