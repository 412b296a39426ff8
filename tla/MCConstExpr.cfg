SPECIFICATION Spec
CONSTANTS
  ByteBits = 2
  LongSize = 8
  Args <- MCArgs
  Grammars <- MCGrammars
INVARIANTS
  TypesAgree
  ParserTree
  PpAgrees
  ValuesExact
CHECK_DEADLOCK FALSE
