SPECIFICATION Spec
CONSTANTS
  Library <- AllTemplates
  Order <- MCOrder
  Scratch <- MCScratch
  CallerSaved <- MCCallerSaved
  OuterSets <- MCOuterSets
INVARIANTS
  ReadsIntact
PROPERTY ImplementsContract
