SPECIFICATION Spec
CONSTANTS
  MaxLines = 5
  MaxJumps = 1
  MaxBlocks = 2
  MaxIndents = 3
  MaxHead = 5
  MaxParts = 4
  StarLimit = 2
  Heads <- MCHeads
  HeadLines <- LinesOf
  SpacingLine <- LastPartLine
  Ruled <- RuledStatements
  RuleMessages <- MessagesOf
  Signatures <- MCSignatures
  Calls <- MCCalls
  Clauses <- MCClauses
  Targets <- MCTargets
INVARIANTS
  PlacesDecided
  OnlyWrongDeclarations
  SeenDeclarationsReported
  SignaturesDecided
  TargetsDecided
  PartsAreInTheLines
CHECK_DEADLOCK FALSE
