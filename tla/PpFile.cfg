SPECIFICATION Spec
CONSTANTS
  Files = {a}
  Root = r
  Counts = {1, 2}
  MaxLines = 4
  MaxConds = 2
  MaxGroups = 3
  MaxDepth = 1
INVARIANTS
  TypeOK
  SelectedLinesActive
  LineMacroExact
  NewlinesConserved
CHECK_DEADLOCK FALSE
