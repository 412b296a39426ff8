SPECIFICATION Spec
CONSTANTS
  Names = {"x"}
  Labels = {"l"}
  Programs <- MCPrograms
  MaxParams = 1
  MaxDepth = 3
INVARIANTS
  InnermostName
  ExitsCleanScope
  ReturnsCleanScope
CHECK_DEADLOCK FALSE
