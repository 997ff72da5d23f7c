SPECIFICATION FairSpec
CONSTANTS
  N = 3
  DotDot = DotDot
  Nothing = Nothing
  MaxOpen = 3
  MaxLinks = 1
  MaxMeddle = 1
  MayFail = {"unlink", "memory"}
INVARIANTS
  TypeOK
  RemovesItsTree
  AbortExplained
PROPERTY CallEnds
