SPECIFICATION Spec
CONSTANTS
  ArgLists <- MCArgLists
  Fates <- MCFateFns
  StaleSets <- MCStale
  LibsMax = 4
  CmdMax = 5
INVARIANTS
  TempsRemoved
  CommandComplete
  OutputsExact
PROPERTY
  Terminates
