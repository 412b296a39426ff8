SPECIFICATION DeclSpec
CONSTANTS
  MemberChoices <- MCMembers
  StructChoices <- MCStructs
  PackValues = {2, 16}
  MaxPackDepth = 2
  MaxSteps = 4
  Lists <- MCLists
  ObjectChoices <- MCObjects
  MaxInitMembers = 2
INVARIANTS
  MembersApart
  MatchesAbi
  PackAgrees
  InitializersExact
