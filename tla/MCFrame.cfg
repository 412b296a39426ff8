SPECIFICATION Spec
CONSTANTS
  NumRegs = 8
  Sizes <- MCSizes
  Aligns <- MCAligns
  MaxLocals = 2
  MaxTemps = 2
INVARIANTS
  LocalsApart
  BuffersApart
  FrameCovers
  StackAligned
