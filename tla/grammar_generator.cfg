SPECIFICATION Spec
CONSTANTS
  Grammars <- MCGrammars
  MaxWord = 4
INVARIANTS
  CompiledLanguage
  UsefulStates
  OneTokenDecides
  PlansAreDerivations
  RefusedForAReason
PROPERTIES
  UnifyKeepsLanguage
CHECK_DEADLOCK FALSE
