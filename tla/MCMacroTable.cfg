SPECIFICATION ExpandSpec
CONSTANTS
  Names <- MCNames
  Bodies <- MCBodies
  None = None
  Bucket <- MCBucket
  Buckets <- MCBuckets
  Predefined <- MCPredefined
  MaxNodes = 3
  MaxStack = 2
  MaxFiles = 2
  DepthLimit = 20
  Sources <- MCSources
INVARIANTS
  FirstFileExact
  ListAgreesWithTable
  ExpansionExact
CHECK_DEADLOCK FALSE
