SPECIFICATION Spec
CONSTANTS
  MaxLines = 3
  MaxJumps = 0
  MaxBlocks = 2
  MaxIndents = 3
  MaxHead = 0
  MaxParts = 0
  StarLimit = 2
  Heads <- NoHeads
  HeadLines <- LinesOf
  SpacingLine <- LastPartLine
  Ruled <- RuledStatements
  RuleMessages <- MessagesOf
  Signatures <- None
  Calls <- None
  Clauses <- None
  Targets <- None
INVARIANT PriorUseReported
CHECK_DEADLOCK FALSE
