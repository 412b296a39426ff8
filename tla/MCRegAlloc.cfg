SPECIFICATION Spec
CONSTANTS
  NumRegs = 4
  Val <- MCVal
  Junk <- MCJunk
  Op <- MCOp
  MaxTemps = 5
  MaxCalls = 2
  MaxSpills = 1
INVARIANTS
  SlotsDisjoint
  HeldRegsRecorded
  TempsIntact
  ArgsDelivered
  NoLeak
CHECK_DEADLOCK FALSE
